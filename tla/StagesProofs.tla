---------------------------- MODULE StagesProofs ----------------------------
(***************************************************************************)
(* Proofs about Stages: whatever dies and whoever decides meanwhile, what a*)
(* stage has selected is whole (SelectedIsWhole), and what is in store is  *)
(* not paid for again (StoredIsNotRepaid).                                 *)
(*                                                                         *)
(* Each stage has an invariant of its own.  Its first part says what the   *)
(* rows keep between attempts; the rest, guarded by the places of the      *)
(* stage, says what an attempt has in its registers.  Outside its places an*)
(* invariant needs its stored variables alone, which is why a death, a     *)
(* continuation and the steps of the other stages keep it at once (the     *)
(* lemmas named ...Rests).                                                 *)
(*                                                                         *)
(* Last, what the review of a project shows of its commands (Dashboard).   *)
(***************************************************************************)
EXTENDS Stages, FiniteSetTheorems, WellFoundedInduction, TLAPS

-----------------------------------------------------------------------------
(* Where an attempt stands. *)

Resting == {"idle", "reporting", "reported"}
Listening == {"listen", "transcribe", "transcript", "diarize"}
AcquisitionPlace == {"look", "fetched", "score"} \cup Listening
AnalysisPlace == {"map", "reduce"}
ScriptPlace == {"take", "compress", "compressed", "write", "written", "edit", "revised"}
NarrationPlace == {"line", "call", "spoken", "align", "aligned", "judge", "preview"}
StoryboardPlace == {"part", "attempt", "direct", "answered", "validate"}
EditorialPlace == {"measure", "first", "first_seen", "second", "second_seen", "gate"}

\* The worker is at a place of its own stage.
PlaceInv ==
  /\ stage \in Stage /\ key \in Key
  /\ at \in Resting \/ \/ stage = "acquisition" /\ at \in AcquisitionPlace
                       \/ stage = "analysis" /\ at \in AnalysisPlace
                       \/ stage = "script" /\ at \in ScriptPlace
                       \/ stage = "narration" /\ at \in NarrationPlace
                       \/ stage = "storyboard" /\ at \in StoryboardPlace
                       \/ stage = "editorial" /\ at \in EditorialPlace

-----------------------------------------------------------------------------
(* The stages. *)

SubtitleStatus == {"none", "validating", "imported", "unavailable", "failed"}
RecordingStatus == {"none", "transcribing", "transcribed", "failed"}

AcquisitionInv ==
  /\ subtitle \in [Key -> SubtitleStatus] /\ recording \in [Key -> RecordingStatus]
  /\ heard \in [Key -> SUBSET Chunk] /\ parted \in [Key -> SUBSET Chunk]
  /\ picked = chosen /\ \A a, b \in chosen : a = b
  /\ \A k \in Key : /\ <<"subtitle", k>> \in chosen => subtitle[k] = "imported"
                    /\ <<"audio", k>> \in chosen => recording[k] = "transcribed"
                    /\ recording[k] = "transcribed" => parted[k] = Chunk
  /\ at \in {"look", "fetched", "score"} => subtitle[key] = "validating"
  /\ at \in Listening =>
       /\ recording[key] = "transcribing"
       /\ inHand \in 1..(Chunks + 1) /\ \A c \in Chunk : c < inHand => c \in parted[key]
       /\ at # "listen" => inHand \in Chunk
       /\ at = "transcribe" => inHand \notin heard[key]

AnalysisStatus == {"none", "mapping", "reducing", "validating", "failed", "analysed"}
SceneStatus == {"none", "pending", "succeeded", "failed", "invalid"}

AnalysisInv ==
  /\ analysis \in [Key -> AnalysisStatus] /\ scene \in [Key -> [Scenes -> SceneStatus]]
  /\ record \subseteq Key /\ analysed \subseteq record /\ \A a, b \in analysed : a = b
  /\ \A k \in record : analysis[k] = "analysed" /\ \A s \in Scenes : scene[k][s] = "succeeded"
  /\ at \in AnalysisPlace => key \notin record
  /\ at = "map" =>
       /\ ask \in [Scenes -> Nat]
       /\ \A s \in Scenes : /\ ask[s] = 0 <=> scene[key][s] = "succeeded"
                            /\ s \in flying => ask[s] # 0
  /\ at = "reduce" => \A s \in Scenes : scene[key][s] = "succeeded"

RunStatus == {"none", "pending", "compressing", "compressed", "writing", "editing", "review",
              "approved", "failed"}
VersionRow == [run : Key, status : {"draft", "pending", "approved", "rejected"},
               parent : Nat, pass : 0..MaxPasses]

\* A version that has a parent comes after it, and a pass is made once, within its run.
VersionsInv ==
  /\ version \in Seq(VersionRow) /\ favoured \subseteq Version
  /\ \A v \in Version : version[v].run \in plan /\ version[v].parent < v
  /\ \A v \in Version : version[v].pass > 0 =>
       /\ version[v].parent \in Version
       /\ version[version[v].parent].run = version[v].run
  /\ \A v, w \in Version : version[v].pass > 0 /\ version[w].pass > 0
                           /\ version[v].parent = version[w].parent => v = w

\* Before the owner's first choice no version is approved; the run that waits for the
\* owner is the newest, and only its last version is pending.
UndecidedInv ==
  /\ \A v \in Version : version[v].status # "approved"
  /\ \A r \in Key : /\ writing[r] # "approved"
                    /\ writing[r] = "review" => \A s \in Key : s > r => writing[s] = "none"
  /\ \A v \in Version : version[v].status = "pending" =>
       /\ writing[version[v].run] = "review"
       /\ \A w \in Version : version[w].run = version[v].run => w <= v
  /\ at \in ScriptPlace => \A s \in Key : s > run => writing[s] = "none"
  /\ at \in {"edit", "revised"} =>
       \A v \in Version : version[v].run = run => version[v].status # "pending"

ScriptInv ==
  /\ writing \in [Key -> RunStatus] /\ plan \subseteq Key /\ desk \in BOOLEAN
  /\ VersionsInv
  /\ \A a, b \in favoured : a = b
  /\ \A v \in favoured : Approved(v) \/ (version[v].parent # 0 /\ Approved(version[v].parent))
  /\ \A s \in Key : s > key => writing[s] = "none"
  /\ favoured = {} => UndecidedInv
  /\ at \in ScriptPlace => run \in Key /\ writing[run] # "none"
  /\ at \in {"compress", "compressed"} => run \notin plan
  /\ at \in {"write", "written", "edit", "revised"} => run \in plan
  /\ at \in {"write", "written"} => OfRun(run) = {}
  /\ at \in {"edit", "revised"} =>
       edited \in OfRun(run) /\ Successor(edited) = {} /\ PassLeft(edited)

NarrationStatus == {"none", "generating", "previewing", "failed", "complete"}
RowStatus == {"none", "pending", "complete"}

NarrationInv ==
  /\ narration \in [Key -> NarrationStatus] /\ row \in [Key -> [Line -> RowStatus]]
  /\ takes \in [Line -> Seq(Take)] /\ timed \in [Key -> [Line -> BOOLEAN]]
  /\ narrated \subseteq Key /\ \A a, b \in narrated : a = b
  /\ \A k \in narrated : narration[k] = "complete" \/ k \in spoilt
  /\ \A k \in Key : narration[k] = "complete" \/ k \in narrated => \A l \in Line : row[k][l] = "complete"
  /\ \A k \in Key, l \in Line : row[k][l] = "complete" => timed[k][l]
  /\ \A l \in Line : /\ Len(takes[l]) <= MaxTakes
                     /\ \A m, n \in Unfinished(l) : m = n
  /\ \A k \in Key, l \in Line : k > key => row[k][l] = "none"
  /\ \A l \in Line : row[key][l] = "pending" => ~Spoken(l)
  /\ at \in NarrationPlace =>
       /\ narration[key] # "complete"
       /\ line \in 1..(Lines + 1) /\ \A l \in Line : l < line => row[key][l] = "complete"
       /\ at \in {"call", "spoken", "align", "aligned", "judge"} => line \in Line
       /\ at = "judge" => timed[key][line]
       /\ at = "preview" => line \notin Line
       /\ at = "call" => row[key][line] = "pending" /\ \A n \in DOMAIN takes[line] : takes[line][n] # "answered"

SheetRow == [status : {"none", "open", "complete"}, incoming : Handoff \cup {Opening}, attempt : Nat,
             result : [verdict : Verdict, outgoing : Handoff \cup {Opening}],
             validated : BOOLEAN, report : {"none"} \cup Verdict]

Handed(k, p) == IF p = 1 THEN Opening ELSE sheet[k][p - 1].result.outgoing

BoardInv ==
  /\ board \in [Key -> {"none", "directing", "complete", "failed"}]
  /\ sheet \in [Key -> [Part -> SheetRow]]
  /\ \A k \in Key, p \in Part : sheet[k][p].status = "complete" =>
       /\ sheet[k][p].result.verdict = "valid" /\ sheet[k][p].incoming = Handed(k, p)
       /\ p > 1 => sheet[k][p - 1].status = "complete"
  /\ \A k \in Key : board[k] = "complete" => \A p \in Part : sheet[k][p].status = "complete"
  /\ at \in StoryboardPlace =>
       /\ part \in 1..(Parts + 1) /\ incoming = Handed(key, part)
       /\ \A p \in Part : p < part => sheet[key][p].status = "complete"
       /\ at # "part" => part \in Part /\ attempt \in Nat /\ Sheet.status # "complete"
       /\ at \in {"direct", "answered", "validate"} => Sheet.incoming = incoming
       /\ at = "answered" => answer \in Result
       /\ at = "validate" => answer = Sheet.result

\* An attempt asks for what no attempt of its number has answered, and replaces an
\* answer only behind a verdict.
AskInv ==
  /\ \A k \in Key, p \in Part : sheet[k][p].report = "valid" => sheet[k][p].status = "complete"
  /\ at = "attempt" => /\ attempt # 0
                       /\ Sheet.attempt = 0 \/ Sheet.report # "none" \/ Sheet.attempt = attempt
  /\ at = "direct" => Sheet.attempt # attempt /\ (Sheet.attempt = 0 \/ Sheet.report # "none")

StoryboardInv == BoardInv /\ AskInv

FinalRow == [status : {"none", "running", "passed", "review", "failed"}, measured : {"unknown"} \cup Measured,
             settled : {"open", "accept", "reject", "escalate"}, selected : BOOLEAN]
LookRow == [first : {"none"} \cup FirstLook, second : {"none"} \cup SecondLook]

EditorialInv ==
  /\ inputs \in Input /\ final \in [Input -> FinalRow] /\ looked \in [Input -> LookRow]
  /\ PassIsEarned
  /\ \A i \in Input : final[i].status = "review" =>
       final[i].measured = "sound" /\ looked[i].first = "unsure" /\ looked[i].second = "undecided"
  /\ at \in EditorialPlace => qa \in Input /\ final[qa].status = "running"
  /\ at \in {"first", "first_seen", "second", "second_seen"} => final[qa].measured = "sound"
  /\ at \in {"second", "second_seen"} => looked[qa].first = "unsure"
  /\ at = "gate" => \/ final[qa].measured = "broken"
                    \/ /\ final[qa].measured = "sound"
                       /\ \/ looked[qa].first \in {"clear", "blocking"}
                          \/ looked[qa].first = "unsure" /\ looked[qa].second # "none"

StagesInv ==
  /\ PlaceInv /\ AcquisitionInv /\ AnalysisInv /\ ScriptInv
  /\ NarrationInv /\ StoryboardInv /\ EditorialInv

-----------------------------------------------------------------------------
(* The places. *)

\* The worker's own steps, whatever the stage's rows are.
LEMMA PlaceStep ==
  ASSUME PlaceInv, Works
  PROVE  PlaceInv' /\ UNCHANGED <<stage, key>>
<1> USE DEF PlaceInv, Resting
<1>1. CASE stage = "acquisition" /\ AcquisitionNext
  BY <1>1 DEF AcquisitionPlace, Listening, AcquisitionNext, AcquisitionBegins, SubtitleFails, LookAtKept, Search,
    Import, Unavailable, Recall, Fetch, KeepFile, Score, NextChunk, Transcribe, KeepTranscript, Diarize,
    TranscriptionFails, Merge, Starts, Begins, Goes, Raises
<1>2. CASE stage = "analysis" /\ AnalysisNext
  BY <1>2 DEF AnalysisPlace, AnalysisNext, AnalysisBegins, Mapped, ReduceRefused, RecordAnalysis, MapCall,
    MapAnswer, MapDenied, MapRefused, Starts, Begins, Goes, Raises
<1>3. CASE stage = "script" /\ ScriptNext
  <2>1. CASE ScriptBegins
    BY <1>3, <2>1 DEF ScriptPlace, ScriptBegins, Starts, Begins
  <2>2. CASE ~ScriptBegins
    BY <1>3, <2>2 DEF ScriptPlace, ScriptNext, TakeNext, Waits, LastVersion, StartPass, Exhausted, Ask,
      KeepPlan, KeepDraft, KeepPass, ScriptFails, Goes, Raises
  <2> QED BY <2>1, <2>2
<1>4. CASE stage = "narration" /\ NarrationNext
  BY <1>4 DEF NarrationPlace, NarrationNext, NarrationBegins, NarrationRefused, NextLine, TakeUp, AfterCheckpoint,
    Speak, KeepAnswer, Align, KeepAlignment, Judge, NarrationFails, Preview, NarrationCompletes, Starts, Begins, Goes, Raises
<1>5. CASE stage = "storyboard" /\ StoryboardNext
  BY <1>5 DEF StoryboardPlace, StoryboardNext, StoryboardBegins, SkipFinished, EnterPart, StartAttempt, Direct,
    StoreAnswer, Validate, StoryboardFails, StoryboardCompletes, Starts, Begins, Goes, Raises
<1>6. CASE stage = "editorial" /\ EditorialNext
  BY <1>6 DEF EditorialPlace, EditorialNext, EditorialBegins, Measure, EditorialFails, Gate, Reuse, Evaluate,
    KeepLook, After, Starts, Begins, Goes, Raises
<1> QED BY <1>1, <1>2, <1>3, <1>4, <1>5, <1>6 DEF Works

\* What Temporal and the owner do to an attempt leaves it at rest.
LEMMA HandledRests ==
  ASSUME PlaceInv, Handled
  PROVE  /\ PlaceInv' /\ at' \in Resting /\ UNCHANGED <<stage, stored>>
         /\ key \in Nat /\ key' \in Nat /\ key <= key'
BY WorkerAssumption DEF PlaceInv, Handled, Reports, Goes, Dies, Raises, Continues, Resting, Key

-----------------------------------------------------------------------------
(* The transcript. *)

\* At rest the invariant of a stage is about its rows.
LEMMA AcquisitionRests ==
  ASSUME AcquisitionInv, UNCHANGED <<subtitle, recording, heard, parted, picked, chosen>>,
         UNCHANGED <<at, key, inHand>> \/ at' \notin AcquisitionPlace
  PROVE  AcquisitionInv'
BY DEF AcquisitionInv, AcquisitionPlace, Listening

\* Choosing among the candidates changes no row that is kept.
LEMMA LooksStep ==
  ASSUME PlaceInv, AcquisitionInv,
         \/ LookAtKept \/ Search \/ KeepFile \/ Score
         \/ \E c \in Candidate : Recall(c) \/ Fetch(c)
  PROVE  AcquisitionInv'
<1>1. /\ UNCHANGED <<subtitle, recording, heard, parted, picked, chosen, key>>
      /\ at \in {"look", "fetched", "score"} /\ at' \in {"look", "fetched", "score"}
  BY DEF LookAtKept, Search, KeepFile, Score, Recall, Fetch, Goes, LookedAtAll
<1> QED BY <1>1 DEF AcquisitionInv, Listening

LEMMA AcquisitionStep ==
  ASSUME PlaceInv, AcquisitionInv, AcquisitionNext
  PROVE  AcquisitionInv'
<1> USE AcquisitionAssumption DEF PlaceInv, AcquisitionInv, Listening, SubtitleStatus, RecordingStatus, Chunk
<1>1. CASE AcquisitionBegins
  BY <1>1 DEF AcquisitionBegins, Begins, Subtitle
<1>2. CASE SubtitleFails
  <2>1. /\ subtitle' = [subtitle EXCEPT ![key] = "failed"] /\ subtitle[key] = "validating"
        /\ UNCHANGED <<recording, heard, parted, picked, chosen, key>> /\ at' = "idle"
    BY <1>2 DEF SubtitleFails, LookedAtAll, Raises, Subtitle
  <2> QED BY <2>1
<1>3. CASE LookAtKept \/ Search \/ KeepFile \/ Score \/ \E c \in Candidate : Recall(c) \/ Fetch(c)
  BY <1>3, LooksStep
<1>4. CASE Import
  <2>1. /\ subtitle' = [subtitle EXCEPT ![key] = "imported"]
        /\ picked' = {<<"subtitle", key>>} /\ chosen' = {<<"subtitle", key>>}
        /\ UNCHANGED <<recording, heard, parted, key>> /\ at' = "reporting"
    BY <1>4 DEF Import, Goes, Subtitle, Select, Others
  <2> QED BY <2>1
<1>5. CASE Unavailable
  <2>1. /\ subtitle' = [subtitle EXCEPT ![key] = "unavailable"] /\ subtitle[key] = "validating"
        /\ UNCHANGED <<heard, parted, picked, chosen, key>> /\ inHand' = 1
        /\ \/ at' \in {"reporting", "idle"} /\ UNCHANGED recording
           \/ /\ recording[key] # "transcribed" /\ at' = "listen"
              /\ recording' = [recording EXCEPT ![key] = "transcribing"]
    BY <1>5 DEF Unavailable, LookedAtAll, Goes, Raises, Subtitle, Recording, Forgets
  <2> QED BY <2>1
<1>6. CASE NextChunk
  <2>1. /\ UNCHANGED <<subtitle, recording, heard, parted, picked, chosen, key>>
        /\ at = "listen" /\ inHand \in Chunk
        /\ \/ inHand \in parted[key] /\ at' = "listen" /\ inHand' = inHand + 1
           \/ at' = "diarize" /\ inHand' = inHand
           \/ inHand \notin heard[key] /\ at' = "transcribe" /\ inHand' = inHand
    BY <1>6 DEF NextChunk, Goes, Heard
  <2> QED BY <2>1
<1>7. CASE Transcribe \/ KeepTranscript
  <2>1. /\ UNCHANGED <<subtitle, recording, parted, picked, chosen, key, inHand>>
        /\ at \in {"transcribe", "transcript"} /\ at' \in {"transcript", "diarize"}
        /\ heard' \in {heard, [heard EXCEPT ![key] = @ \cup {inHand}]}
    BY <1>7 DEF Transcribe, KeepTranscript, Goes
  <2> QED BY <2>1
<1>8. CASE Diarize
  <2>1. /\ UNCHANGED <<subtitle, recording, heard, picked, chosen, key>>
        /\ at = "diarize" /\ at' = "listen" /\ inHand' = inHand + 1
        /\ parted' = [parted EXCEPT ![key] = @ \cup {inHand}]
    BY <1>8 DEF Diarize, Goes
  <2> QED BY <2>1
<1>9. CASE TranscriptionFails
  <2>1. /\ recording' = [recording EXCEPT ![key] = "failed"] /\ recording[key] = "transcribing"
        /\ UNCHANGED <<subtitle, heard, parted, picked, chosen, key>> /\ at' = "idle"
    BY <1>9 DEF TranscriptionFails, Raises, Recording
  <2> QED BY <2>1
<1>10. CASE Merge
  <2>1. parted[key] = Chunk
    <3>1. at = "listen" /\ inHand \notin Chunk /\ inHand \in 1..(Chunks + 1) BY <1>10 DEF Merge, Goes
    <3>2. \A c \in Chunk : c < inHand BY <3>1
    <3>3. Chunk \subseteq parted[key] BY <3>1, <3>2
    <3> QED BY <3>3
  <2>2. /\ recording' = [recording EXCEPT ![key] = "transcribed"]
        /\ picked' = {<<"audio", key>>} /\ chosen' = {<<"audio", key>>}
        /\ UNCHANGED <<subtitle, heard, parted, key>> /\ at' = "reporting"
    BY <1>10 DEF Merge, Goes, Recording, Select, Others
  <2> QED BY <2>1, <2>2
<1> QED
  BY <1>1, <1>2, <1>3, <1>4, <1>5, <1>6, <1>7, <1>8, <1>9, <1>10 DEF AcquisitionNext

\* What was downloaded or transcribed is in store before anything else happens to it.
LEMMA AcquisitionPaid ==
  ASSUME PlaceInv, AcquisitionInv, AcquisitionNext
  PROVE  AcquiredOnce
BY DEF AcquiredOnce, AcquisitionInv, Listening, AcquisitionNext, AcquisitionBegins, SubtitleFails, LookAtKept, Search,
   Import, Unavailable, Recall, Fetch, KeepFile, Score, NextChunk, Transcribe, KeepTranscript, Diarize, Material, Row,
   TranscriptionFails, Merge, Starts, Begins, Goes, Raises

-----------------------------------------------------------------------------
(* The analysis. *)

LEMMA AnalysisRests ==
  ASSUME AnalysisInv, UNCHANGED <<analysis, scene, record, analysed>>,
         UNCHANGED <<at, key, ask, flying>> \/ at' \notin AnalysisPlace
  PROVE  AnalysisInv'
BY DEF AnalysisInv, AnalysisPlace

LEMMA AnalysisStep ==
  ASSUME PlaceInv, AnalysisInv, AnalysisNext
  PROVE  AnalysisInv'
<1> USE DEF PlaceInv, AnalysisInv, AnalysisPlace, AnalysisStatus, SceneStatus
<1>1. CASE AnalysisBegins
  <2>1. CASE key \in record
    BY <1>1, <2>1 DEF AnalysisBegins, Begins
  <2>2. CASE key \notin record
    <3>1. /\ UNCHANGED <<key, record, analysed>> /\ at' = "map" /\ flying' = {}
          /\ analysis' = [analysis EXCEPT ![key] = "mapping"]
          /\ scene' = [scene EXCEPT ![key] = [s \in Scenes |-> IF scene[key][s] = "none" THEN "pending" ELSE scene[key][s]]]
          /\ ask' = [s \in Scenes |-> IF scene[key][s] = "succeeded" THEN 0 ELSE 1]
      BY <1>1, <2>2 DEF AnalysisBegins, Begins, Analyses, Done
    <3>2. scene' \in [Key -> [Scenes -> SceneStatus]] BY <3>1
    <3>3. \A k \in Key, s \in Scenes : scene'[k][s] = "succeeded" <=> scene[k][s] = "succeeded" BY <3>1
    <3> QED BY <2>2, <3>1, <3>2, <3>3
  <2> QED BY <2>1, <2>2
<1>2. ASSUME NEW s \in Scenes, MapCall(s) PROVE AnalysisInv'
  <2>1. /\ UNCHANGED <<key, analysis, scene, record, analysed, ask>> /\ at = "map" /\ at' = "map"
        /\ ask[s] # 0 /\ flying' = flying \cup {s}
    BY <1>2 DEF MapCall, Goes
  <2> QED BY <2>1
<1>3. ASSUME NEW s \in Scenes, MapAnswer(s) PROVE AnalysisInv'
  <2>1. /\ UNCHANGED <<key, analysis, record, analysed>> /\ at = "map" /\ at' = "map"
        /\ scene' = [scene EXCEPT ![key][s] = "succeeded"] /\ ask' = [ask EXCEPT ![s] = 0]
        /\ flying' = flying \ {s}
    BY <1>3 DEF MapAnswer, Goes
  <2> QED BY <2>1
<1>4. ASSUME NEW s \in Scenes, NEW status \in {"failed", "invalid"}, MapRefused(s, status) PROVE AnalysisInv'
  <2>1. /\ UNCHANGED <<key, record, analysed>> /\ at = "map" /\ ask[s] # 0 /\ ask[s] \in Nat
        /\ scene' = [scene EXCEPT ![key][s] = status]
    BY <1>4 DEF MapRefused, Goes, Raises
  <2>2. CASE at' = "map" /\ ask' = [ask EXCEPT ![s] = ask[s] + 1] /\ flying' = flying \ {s} /\ UNCHANGED analysis
    BY <2>1, <2>2
  <2>3. CASE at' = "idle" /\ analysis' = [analysis EXCEPT ![key] = "failed"]
    BY <2>1, <2>3
  <2> QED BY <1>4, <2>2, <2>3 DEF MapRefused, Goes, Raises, NextAsk, Analyses
<1>5. ASSUME NEW s \in Scenes, MapDenied(s) PROVE AnalysisInv'
  <2>1. /\ UNCHANGED <<key, record, analysed>> /\ at = "map" /\ at' = "idle"
        /\ scene' = [scene EXCEPT ![key][s] = "failed"] /\ analysis' = [analysis EXCEPT ![key] = "failed"]
    BY <1>5 DEF MapDenied, Raises, Analyses
  <2> QED BY <2>1
<1>6. CASE Mapped
  BY <1>6 DEF Mapped, Goes, Analyses
<1>7. CASE ReduceRefused
  <2>1. /\ UNCHANGED <<key, scene, record, analysed>> /\ at = "reduce" /\ at' \in {"reduce", "idle"}
        /\ \E status \in {"reducing", "validating", "failed"} : analysis' = [analysis EXCEPT ![key] = status]
    BY <1>7 DEF ReduceRefused, Goes, Raises, Analyses
  <2> QED BY <2>1
<1>8. CASE RecordAnalysis
  <2>1. /\ UNCHANGED <<key, scene>> /\ at = "reduce" /\ at' = "reporting"
        /\ record' = record \cup {key} /\ analysed' = {key}
        /\ analysis' = [analysis EXCEPT ![key] = "analysed"]
    BY <1>8 DEF RecordAnalysis, Goes, Analyses, Deselects
  <2> QED BY <2>1
<1> QED BY <1>1, <1>2, <1>3, <1>4, <1>5, <1>6, <1>7, <1>8 DEF AnalysisNext

\* A scene is asked for while its checkpoint is open, and only those are marked.
LEMMA AnalysisPaid ==
  ASSUME PlaceInv, AnalysisInv, AnalysisNext
  PROVE  SceneKept
<1> USE DEF PlaceInv, AnalysisInv
<1> SUFFICES ASSUME NEW k \in Key, NEW s \in Scenes, scene[k][s] = "succeeded"
             PROVE  scene'[k][s] = "succeeded" /\ (k = key => s \notin flying' \ flying)
  BY DEF SceneKept
<1>1. CASE AnalysisBegins
  BY <1>1 DEF AnalysisBegins, Begins, Analyses
<1>2. ASSUME NEW t \in Scenes, MapCall(t) \/ MapAnswer(t) \/ MapDenied(t)
                               \/ \E status \in {"failed", "invalid"} : MapRefused(t, status)
      PROVE  scene'[k][s] = "succeeded" /\ (k = key => s \notin flying' \ flying)
  BY <1>2 DEF MapCall, MapAnswer, MapDenied, MapRefused, Goes, Raises, Drops
<1>3. CASE Mapped \/ ReduceRefused \/ RecordAnalysis
  BY <1>3 DEF Mapped, ReduceRefused, RecordAnalysis, Drops
<1> QED BY <1>1, <1>2, <1>3 DEF AnalysisNext

-----------------------------------------------------------------------------
(* The narration. *)

LEMMA NarrationRests ==
  ASSUME NarrationInv, key \in Nat, key' \in Nat, key <= key', key' \in Key,
         UNCHANGED <<narration, narrated, row, takes, timed, spoilt>>,
         UNCHANGED <<at, key, line>> \/ at' \notin NarrationPlace
  PROVE  NarrationInv'
<1>1. \A k \in Key : k \in Nat BY DEF Key
<1>2. \A l \in Line : UNCHANGED <<Unfinished(l), Spoken(l)>> BY DEF Unfinished, Spoken
<1>3. \A k \in Key, l \in Line : k > key' => row[k][l] = "none" BY <1>1 DEF NarrationInv
<1>4. \A l \in Line : row[key'][l] = "pending" => ~Spoken(l)
  <2>1. CASE key' = key BY <2>1 DEF NarrationInv
  <2>2. CASE key' # key BY <2>2 DEF NarrationInv
  <2> QED BY <2>1, <2>2
<1> QED BY <1>2, <1>3, <1>4 DEF NarrationInv, NarrationPlace

\* The takes of a line after its open ones are settled.
LEMMA SettledTakes ==
  ASSUME takes \in [Line -> Seq(Take)], NEW l \in Line, NEW state \in Take, Settle(l, state)
  PROVE  /\ takes' \in [Line -> Seq(Take)]
         /\ \A m \in Line : Len(takes'[m]) = Len(takes[m])
         /\ \A m \in Line \ {l} : takes'[m] = takes[m]
         /\ Unfinished(l)' = IF state \in {"asked", "answered"} THEN Unfinished(l) ELSE {}
<1> DEFINE t == [n \in DOMAIN takes[l] |-> IF n \in Unfinished(l) THEN state ELSE takes[l][n]]
<1>1. takes' = [takes EXCEPT ![l] = t] BY DEF Settle
<1>2. takes[l] \in Seq(Take) /\ Len(takes[l]) \in Nat /\ DOMAIN takes[l] = 1..Len(takes[l]) OBVIOUS
<1>3. \A n \in 1..Len(takes[l]) : takes[l][n] \in Take BY <1>2
<1>4. t \in Seq(Take) /\ Len(t) = Len(takes[l])
  <2>1. t \in [1..Len(takes[l]) -> Take] BY <1>2, <1>3
  <2> QED BY <1>2, <2>1
<1>5. \A n \in 1..Len(takes[l]) : t[n] = IF n \in Unfinished(l) THEN state ELSE takes[l][n] BY <1>2
<1> HIDE DEF t
<1>6. takes'[l] = t /\ \A m \in Line \ {l} : takes'[m] = takes[m] BY <1>1
<1>7. takes' \in [Line -> Seq(Take)] BY <1>1, <1>4
<1>8. DOMAIN takes'[l] = 1..Len(takes[l]) BY <1>4, <1>6
<1>9. Unfinished(l)' = {n \in 1..Len(takes[l]) : t[n] \in {"asked", "answered"}} BY <1>6, <1>8 DEF Unfinished
<1>10. Unfinished(l) = {n \in 1..Len(takes[l]) : takes[l][n] \in {"asked", "answered"}} BY <1>2 DEF Unfinished
<1>11. ASSUME state \in {"asked", "answered"} PROVE Unfinished(l)' = Unfinished(l)
  <2>1. \A n \in 1..Len(takes[l]) : t[n] \in {"asked", "answered"} <=> takes[l][n] \in {"asked", "answered"}
    BY <1>5, <1>10, <1>11
  <2>2. {n \in 1..Len(takes[l]) : t[n] \in {"asked", "answered"}}
          = {n \in 1..Len(takes[l]) : takes[l][n] \in {"asked", "answered"}}
    BY <2>1, Zenon
  <2> QED BY <1>9, <1>10, <2>2
<1>12. ASSUME state \notin {"asked", "answered"} PROVE Unfinished(l)' = {}
  <2>1. \A n \in 1..Len(takes[l]) : t[n] \notin {"asked", "answered"}
    BY <1>5, <1>10, <1>12
  <2>2. {n \in 1..Len(takes[l]) : t[n] \in {"asked", "answered"}} = {} BY <2>1, Zenon
  <2> QED BY <1>9, <2>2
<1> QED BY <1>4, <1>6, <1>7, <1>11, <1>12

\* A take is added where none is open.
LEMMA TakeAdded ==
  ASSUME takes \in [Line -> Seq(Take)], NEW l \in Line, Unfinished(l) = {}, Len(takes[l]) < MaxTakes,
         MaxTakes \in Nat, takes' = [takes EXCEPT ![l] = Append(takes[l], "asked")],
         \A m \in Line : Len(takes[m]) <= MaxTakes /\ \A i, n \in Unfinished(m) : i = n
  PROVE  /\ takes' \in [Line -> Seq(Take)] /\ \A m \in Line : Len(takes'[m]) <= MaxTakes
         /\ \A m \in Line : \A i, n \in Unfinished(m)' : i = n
         /\ \A n \in DOMAIN takes'[l] : takes'[l][n] # "answered"
<1>1. /\ takes' \in [Line -> Seq(Take)] /\ takes'[l] = Append(takes[l], "asked")
      /\ \A m \in Line \ {l} : takes'[m] = takes[m]
  BY DEF Take
<1>2. DOMAIN takes[l] = 1..Len(takes[l]) /\ Len(takes[l]) \in Nat OBVIOUS
<1>3. /\ DOMAIN takes'[l] = 1..(Len(takes[l]) + 1) /\ Len(takes'[l]) = Len(takes[l]) + 1
      /\ \A n \in DOMAIN takes'[l] : takes'[l][n] = IF n = Len(takes[l]) + 1 THEN "asked" ELSE takes[l][n]
  BY <1>1
<1>4. \A n \in DOMAIN takes[l] : takes[l][n] \notin {"asked", "answered"} BY DEF Unfinished
<1>5. \A n \in DOMAIN takes'[l] : takes'[l][n] \in {"asked", "answered"} => n = Len(takes[l]) + 1
  BY <1>2, <1>3, <1>4
<1>6. \A i, n \in Unfinished(l)' : i = n BY <1>5 DEF Unfinished
<1>7. \A m \in Line \ {l} : Unfinished(m)' = Unfinished(m) BY <1>1 DEF Unfinished
<1>8. \A n \in DOMAIN takes'[l] : takes'[l][n] # "answered" BY <1>2, <1>3, <1>4
<1>9. \A m \in Line : Len(takes'[m]) <= MaxTakes BY <1>1, <1>2, <1>3
<1>10. ASSUME NEW m \in Line PROVE \A i, n \in Unfinished(m)' : i = n
  <2>1. CASE m = l BY <1>6, <2>1
  <2>2. CASE m # l
    <3>1. Unfinished(m)' = Unfinished(m) BY <1>7, <2>2
    <3> QED BY <3>1
  <2> QED BY <2>1, <2>2
<1> QED BY <1>1, <1>8, <1>9, <1>10

\* One row of a run is written.
LEMMA RowWritten ==
  ASSUME row \in [Key -> [Line -> RowStatus]], NEW k \in Key, NEW l \in Line, NEW status \in RowStatus,
         row' = [row EXCEPT ![k][l] = status]
  PROVE  /\ row' \in [Key -> [Line -> RowStatus]]
         /\ \A j \in Key, m \in Line : row'[j][m] = IF j = k /\ m = l THEN status ELSE row[j][m]
BY DEF RowStatus

\* A row that a take is made for becomes pending and no line is spoken by that.
LEMMA RowTaken ==
  ASSUME row \in [Key -> [Line -> RowStatus]], NEW k \in Key, NEW l \in Line, row[k][l] # "complete",
         row' = [row EXCEPT ![k][l] = "pending"]
  PROVE  /\ row' \in [Key -> [Line -> RowStatus]] /\ row'[k][l] = "pending"
         /\ \A j \in Key, m \in Line : row'[j][m] = "complete" <=> row[j][m] = "complete"
         /\ \A j \in Key, m \in Line : j # k \/ m # l => row'[j][m] = row[j][m]
         /\ \A m \in Line : Spoken(m)' = Spoken(m)
<1>1. /\ row' \in [Key -> [Line -> RowStatus]] /\ row'[k][l] = "pending"
      /\ \A j \in Key, m \in Line : j # k \/ m # l => row'[j][m] = row[j][m]
  BY DEF RowStatus
<1>2. \A j \in Key, m \in Line : row'[j][m] = "complete" <=> row[j][m] = "complete" BY <1>1
<1>3. \A m \in Line : Spoken(m)' = Spoken(m) BY <1>2 DEF Spoken
<1> QED BY <1>1, <1>2, <1>3

LEMMA NarrationStep ==
  ASSUME PlaceInv, NarrationInv, NarrationNext
  PROVE  NarrationInv'
<1> USE NarrationAssumption DEF PlaceInv, NarrationInv, NarrationPlace
<1>0. Key \subseteq Nat /\ Line = 1..Lines BY DEF Key, Line
<1>1. CASE NarrationBegins
  <2>1. /\ UNCHANGED <<narrated, row, takes, timed, spoilt, key>> /\ line' = 1
        /\ \/ at' = "reporting" /\ UNCHANGED narration
           \/ /\ at' = "line" /\ narration[key] # "complete"
              /\ narration' = [narration EXCEPT ![key] = "generating"]
    BY <1>1 DEF NarrationBegins, Begins
  <2>2. \A l \in Line : UNCHANGED <<Unfinished(l), Spoken(l)>> BY <2>1 DEF Unfinished, Spoken
  <2>3. /\ narration' \in [Key -> NarrationStatus]
        /\ \A k \in Key : narration'[k] = "complete" <=> narration[k] = "complete"
    BY <2>1 DEF NarrationStatus
  <2>4. line' \in 1..(Lines + 1) /\ \A l \in Line : ~(l < line') BY <1>0, <2>1
  <2> QED BY <2>1, <2>2, <2>3, <2>4
<1>2. CASE NextLine
  <2>1. /\ UNCHANGED <<narration, narrated, takes, spoilt, key>> /\ line' = line + 1
        /\ line \in Line /\ at = "line" /\ at' = "line" /\ Reusable(line)
        /\ row' = [row EXCEPT ![key][line] = "complete"]
        /\ timed' = [timed EXCEPT ![key][line] = TRUE]
    BY <1>2 DEF NextLine, Goes
  <2>2. \A j \in Key, m \in Line : row'[j][m] = IF j = key /\ m = line THEN "complete" ELSE row[j][m]
    BY <2>1, RowWritten DEF RowStatus
  <2>3. row' \in [Key -> [Line -> RowStatus]] BY <2>1, RowWritten DEF RowStatus
  <2>4. \A m \in Line : row'[key][m] = "pending" => ~Spoken(m)'
    <3>1. \A m \in Line : row'[key][m] = "pending" => m # line /\ row[key][m] = "pending" /\ ~Spoken(m) BY <2>2
    <3> QED BY <2>2, <3>1 DEF Spoken
  <2>5. \A m \in Line : UNCHANGED Unfinished(m) BY <2>1 DEF Unfinished
  <2>6. \A k \in Key : narration[k] = "complete" \/ k \in narrated => \A l \in Line : row'[k][l] = "complete"
    BY <2>2
  <2>10. /\ timed' \in [Key -> [Line -> BOOLEAN]]
         /\ \A k \in Key, l \in Line : row'[k][l] = "complete" => timed'[k][l]
    <3>1. /\ timed' \in [Key -> [Line -> BOOLEAN]]
          /\ timed'[key][line] = TRUE
          /\ \A j \in Key, m \in Line : j # key \/ m # line => timed'[j][m] = timed[j][m]
      BY <2>1
    <3>2. ASSUME NEW k \in Key, NEW l \in Line, row'[k][l] = "complete" PROVE timed'[k][l]
      <4>1. CASE k = key /\ l = line BY <3>1, <4>1
      <4>2. CASE k # key \/ l # line
        <5>1. row[k][l] = "complete" BY <2>2, <3>2, <4>2
        <5> QED BY <3>1, <4>2, <5>1
      <4> QED BY <4>1, <4>2
    <3> QED BY <3>1, <3>2
  <2>7. ASSUME NEW k \in Key, NEW l \in Line, k > key PROVE row'[k][l] = "none"
    <3>1. k # key BY <1>0, <2>7
    <3>2. row[k][l] = "none" BY <2>7
    <3> QED BY <2>2, <3>1, <3>2
  <2>8. /\ line' \in 1..(Lines + 1)
        /\ \A l \in Line : l < line' => row'[key][l] = "complete"
    <3>1. at \in NarrationPlace BY <2>1
    <3>2. line' \in 1..(Lines + 1) BY <1>0, <2>1
    <3>3. ASSUME NEW l \in Line, l < line' PROVE row'[key][l] = "complete"
      <4>1. l = line \/ l < line BY <1>0, <2>1, <3>3
      <4> QED BY <2>2, <3>1, <4>1
    <3> QED BY <3>2, <3>3
  <2> HIDE DEF NarrationInv
  <2>9. /\ narration \in [Key -> NarrationStatus] /\ takes \in [Line -> Seq(Take)] /\ narrated \subseteq Key
        /\ \A a, b \in narrated : a = b
        /\ \A k \in narrated : narration[k] = "complete" \/ k \in spoilt
        /\ \A l \in Line : Len(takes[l]) <= MaxTakes /\ \A m, n \in Unfinished(l) : m = n
        /\ narration[key] # "complete"
    BY <2>1 DEF NarrationInv
  <2> QED BY <2>1, <2>3, <2>4, <2>5, <2>6, <2>7, <2>8, <2>9, <2>10 DEF NarrationInv
<1>3. CASE TakeUp
  <2>0. PICK l \in Line : l = line BY <1>3 DEF TakeUp
  <2>1. /\ UNCHANGED <<narrated, timed, spoilt, line, key>> /\ line \in Line /\ at = "line" /\ ~Reusable(line)
        /\ row' = [row EXCEPT ![key][line] = "pending"]
    BY <1>3 DEF TakeUp, Goes, Raises
  <2>4. row[key][line] # "complete" /\ ~Spoken(line)
    <3>1. row[key][line] \in {"none", "pending"} BY <2>1 DEF Reusable, RowStatus
    <3> QED BY <2>1, <3>1 DEF Reusable
  <2>2. /\ row' \in [Key -> [Line -> RowStatus]] /\ row'[key][l] = "pending"
        /\ \A j \in Key, m \in Line : row'[j][m] = "complete" <=> row[j][m] = "complete"
        /\ \A j \in Key, m \in Line : j # key \/ m # l => row'[j][m] = row[j][m]
        /\ \A m \in Line : Spoken(m)' = Spoken(m)
    <3>1. /\ row \in [Key -> [Line -> RowStatus]] /\ key \in Key /\ row[key][l] # "complete"
          /\ row' = [row EXCEPT ![key][l] = "pending"]
      BY <2>0, <2>1, <2>4
    <3> HIDE DEF NarrationInv
    <3> QED BY <3>1, RowTaken
  <2>3. \A m \in Line : row'[key'][m] = "pending" => ~Spoken(m)'
    BY <2>0, <2>1, <2>2, <2>4
  <2>5. /\ \A m \in Line : m < line' => row'[key'][m] = "complete"
        /\ \A k \in Key, m \in Line : k > key' => row'[k][m] = "none"
        /\ \A k \in Key : narration[k] = "complete" \/ k \in narrated => \A m \in Line : row'[k][m] = "complete"
        /\ \A k \in Key, m \in Line : row'[k][m] = "complete" => timed'[k][m]
        /\ row'[key'][line'] = "pending"
    BY <1>0, <2>0, <2>1, <2>2
  <2>6. CASE Unfinished(line) # {} /\ Goes("line", AfterCheckpoint(line)) /\ UNCHANGED <<takes, narration>>
    <3>1. at' \in {"align", "call"} /\ (at' = "call" => \A n \in Unfinished(line) : takes[line][n] # "answered")
      BY <2>6 DEF AfterCheckpoint, Goes
    <3>2. at' = "call" => \A n \in DOMAIN takes'[line] : takes'[line][n] # "answered"
      BY <2>6, <3>1 DEF Unfinished
    <3>3. \A m \in Line : UNCHANGED Unfinished(m) BY <2>6 DEF Unfinished
    <3> QED BY <2>1, <2>2, <2>3, <2>5, <2>6, <3>1, <3>2, <3>3
  <2>7. CASE /\ Unfinished(line) = {} /\ Len(takes[line]) < MaxTakes /\ Goes("line", "call")
             /\ takes' = [takes EXCEPT ![line] = Append(takes[line], "asked")] /\ UNCHANGED narration
    <3>1. /\ takes' \in [Line -> Seq(Take)] /\ \A m \in Line : Len(takes'[m]) <= MaxTakes
          /\ \A m \in Line : \A i, n \in Unfinished(m)' : i = n
          /\ \A n \in DOMAIN takes'[l] : takes'[l][n] # "answered"
      BY <2>0, <2>7, TakeAdded
    <3> QED BY <2>0, <2>1, <2>2, <2>3, <2>5, <2>7, <3>1 DEF Goes
  <2>8. CASE Raises /\ narration' = [narration EXCEPT ![key] = "failed"] /\ UNCHANGED takes
    <3>1. \A m \in Line : UNCHANGED Unfinished(m) BY <2>8 DEF Unfinished
    <3> QED BY <2>1, <2>2, <2>3, <2>5, <2>8, <3>1 DEF Raises, NarrationStatus
  <2> QED BY <1>3, <2>6, <2>7, <2>8 DEF TakeUp
<1>4. CASE Speak
  <2>1. /\ UNCHANGED <<narration, narrated, row, takes, timed, spoilt, line, key>>
        /\ at = "call" /\ at' = "spoken"
    BY <1>4 DEF Speak, Goes
  <2>2. \A l \in Line : UNCHANGED <<Unfinished(l), Spoken(l)>> BY <2>1 DEF Unfinished, Spoken
  <2> QED BY <2>1, <2>2
<1>5. CASE KeepAnswer
  <2>1. /\ UNCHANGED <<narration, narrated, row, timed, spoilt, line, key>>
        /\ at = "spoken" /\ at' = "align" /\ Settle(line, "answered")
    BY <1>5 DEF KeepAnswer, Goes
  <2>2. PICK l \in Line : l = line BY <2>1
  <2>3. \A m \in Line : UNCHANGED Spoken(m) BY <2>1 DEF Spoken
  <2>4. /\ takes' \in [Line -> Seq(Take)] /\ \A m \in Line : Len(takes'[m]) = Len(takes[m])
        /\ \A m \in Line : Unfinished(m)' = Unfinished(m)
    <3>1. /\ takes' \in [Line -> Seq(Take)] /\ \A m \in Line : Len(takes'[m]) = Len(takes[m])
          /\ \A m \in Line \ {l} : takes'[m] = takes[m]
          /\ Unfinished(l)' = Unfinished(l)
      BY <2>1, <2>2, SettledTakes DEF Take
    <3>2. \A m \in Line \ {l} : Unfinished(m)' = Unfinished(m) BY <3>1 DEF Unfinished
    <3> QED BY <3>1, <3>2
  <2> QED BY <2>1, <2>3, <2>4
<1>6. CASE Judge
  <2>1. /\ UNCHANGED <<narration, narrated, timed, spoilt, line, key>> /\ at = "judge" /\ at' = "line" /\ line \in Line
        /\ Settle(line, "accepted") \/ Settle(line, "refused")
        /\ row' = [row EXCEPT ![key][line] = "complete"] \/ row' = row
    BY <1>6 DEF Judge, Goes
  <2>2. /\ takes' \in [Line -> Seq(Take)] /\ \A m \in Line : Len(takes'[m]) = Len(takes[m])
        /\ \A m \in Line : Unfinished(m)' \subseteq Unfinished(m)
    <3>0. PICK l \in Line : l = line BY <2>1
    <3>1. /\ takes' \in [Line -> Seq(Take)] /\ \A m \in Line : Len(takes'[m]) = Len(takes[m])
          /\ \A m \in Line \ {l} : takes'[m] = takes[m]
          /\ Unfinished(l)' = {}
      <4>1. PICK state \in {"accepted", "refused"} : Settle(l, state) BY <2>1, <3>0
      <4>2. takes \in [Line -> Seq(Take)] /\ state \in Take /\ state \notin {"asked", "answered"} BY DEF Take
      <4> HIDE DEF NarrationInv, PlaceInv
      <4>3. /\ takes' \in [Line -> Seq(Take)]
            /\ \A m \in Line : Len(takes'[m]) = Len(takes[m])
            /\ \A m \in Line \ {l} : takes'[m] = takes[m]
            /\ Unfinished(l)' = IF state \in {"asked", "answered"} THEN Unfinished(l) ELSE {}
        BY <4>1, <4>2, SettledTakes
      <4>4. Unfinished(l)' = {} BY <4>2, <4>3
      <4> QED BY <4>3, <4>4
    <3>2. \A m \in Line \ {l} : Unfinished(m)' = Unfinished(m) BY <3>1 DEF Unfinished
    <3> HIDE DEF NarrationInv, PlaceInv
    <3>3. ASSUME NEW m \in Line PROVE Unfinished(m)' \subseteq Unfinished(m)
      <4>1. CASE m = l BY <3>1, <4>1
      <4>2. CASE m # l BY <3>2, <4>2
      <4> QED BY <4>1, <4>2
    <3> QED BY <3>1, <3>3
  <2>3. PICK status \in RowStatus : /\ status \in {"complete", row[key][line]}
                                    /\ row' = [row EXCEPT ![key][line] = status]
    BY <2>1 DEF RowStatus
  <2>4. /\ row' \in [Key -> [Line -> RowStatus]]
        /\ \A j \in Key, m \in Line : row'[j][m] = IF j = key /\ m = line THEN status ELSE row[j][m]
    BY <2>1, <2>3, RowWritten
  <2>5. \A m \in Line : row'[key][m] = "pending" => ~Spoken(m)'
    <3>1. \A m \in Line : row'[key][m] = "pending" => row[key][m] = "pending" /\ ~Spoken(m) BY <2>1, <2>3, <2>4
    <3>2. \A m \in Line : row'[key][m] = "pending" => \A j \in Key : row'[j][m] = row[j][m] BY <2>1, <2>3, <2>4
    <3> QED BY <3>1, <3>2 DEF Spoken
  <2> QED BY <1>0, <2>1, <2>2, <2>3, <2>4, <2>5
<1>7. CASE NarrationFails \/ Preview
  <2>1. /\ UNCHANGED <<narrated, row, takes, timed, spoilt, line, key>>
        /\ at \in NarrationPlace /\ at' \in {"idle", "preview"}
        /\ at' = "preview" => line \notin Line
        /\ \E status \in {"failed", "previewing"} : narration' = [narration EXCEPT ![key] = status]
    BY <1>7 DEF NarrationFails, Preview, Goes, Raises
  <2>2. \A l \in Line : UNCHANGED <<Unfinished(l), Spoken(l)>> BY <2>1 DEF Unfinished, Spoken
  <2> QED BY <2>1, <2>2 DEF NarrationStatus
<1>8. CASE NarrationCompletes
  <2>1. /\ UNCHANGED <<row, takes, timed, spoilt, line, key>> /\ at = "preview" /\ at' = "reporting"
        /\ narration' = [narration EXCEPT ![key] = "complete"] /\ narrated' = {key}
    BY <1>8 DEF NarrationCompletes, Goes, Deselected
  <2>2. \A l \in Line : UNCHANGED <<Unfinished(l), Spoken(l)>> BY <2>1 DEF Unfinished, Spoken
  <2>3. \A l \in Line : row[key][l] = "complete" BY <1>0, <2>1
  <2> QED BY <2>1, <2>2, <2>3 DEF NarrationStatus
<1>9. CASE NarrationRefused
  <2>1. /\ UNCHANGED <<narrated, row, takes, timed, key>> /\ at' = "idle"
        /\ narration' = narration \/ narration' = [narration EXCEPT ![key] = "failed"]
        /\ spoilt \subseteq spoilt'
        /\ narration[key] = "complete" => key \in spoilt'
    BY <1>9 DEF NarrationRefused, Begins
  <2>2. \A l \in Line : UNCHANGED <<Unfinished(l), Spoken(l)>> BY <2>1 DEF Unfinished, Spoken
  <2>3. /\ narration' \in [Key -> NarrationStatus]
        /\ \A k \in Key : narration'[k] = "complete" => narration[k] = "complete"
    BY <2>1 DEF NarrationStatus
  <2>4. ASSUME NEW k \in narrated PROVE narration'[k] = "complete" \/ k \in spoilt'
    <3>1. CASE k = key BY <2>1, <3>1
    <3>2. CASE k # key
      <4>1. narration'[k] = narration[k] BY <2>1, <3>2
      <4> QED BY <2>1, <4>1
    <3> QED BY <3>1, <3>2
  <2> HIDE DEF NarrationInv
  <2>5. /\ row \in [Key -> [Line -> RowStatus]] /\ takes \in [Line -> Seq(Take)]
        /\ timed \in [Key -> [Line -> BOOLEAN]] /\ narrated \subseteq Key /\ \A a, b \in narrated : a = b
        /\ \A k \in Key : narration[k] = "complete" \/ k \in narrated => \A l \in Line : row[k][l] = "complete"
        /\ \A k \in Key, l \in Line : row[k][l] = "complete" => timed[k][l]
        /\ \A l \in Line : Len(takes[l]) <= MaxTakes /\ \A m, n \in Unfinished(l) : m = n
        /\ \A k \in Key, l \in Line : k > key => row[k][l] = "none"
        /\ \A l \in Line : row[key][l] = "pending" => ~Spoken(l)
    BY DEF NarrationInv
  <2> QED BY <2>1, <2>2, <2>3, <2>4, <2>5 DEF NarrationInv
<1>10. CASE Align
  <2>1. /\ UNCHANGED <<narration, narrated, row, takes, timed, spoilt, line, key>>
        /\ at = "align" /\ at' \in {"judge", "aligned"}
        /\ at' = "judge" => timed[key][line]
    BY <1>10 DEF Align, Goes, narrationVars
  <2>2. \A l \in Line : UNCHANGED <<Unfinished(l), Spoken(l)>> BY <2>1 DEF Unfinished, Spoken
  <2> QED BY <2>1, <2>2
<1>11. CASE KeepAlignment
  <2>1. /\ UNCHANGED <<narration, narrated, row, takes, spoilt, line, key>>
        /\ at = "aligned" /\ at' = "judge" /\ timed' = [timed EXCEPT ![key][line] = TRUE]
    BY <1>11 DEF KeepAlignment, Goes
  <2>2. \A l \in Line : UNCHANGED <<Unfinished(l), Spoken(l)>> BY <2>1 DEF Unfinished, Spoken
  <2>3. /\ timed' \in [Key -> [Line -> BOOLEAN]] /\ timed'[key][line] = TRUE
        /\ \A k \in Key, l \in Line : k # key \/ l # line => timed'[k][l] = timed[k][l]
    BY <2>1
  <2>4. ASSUME NEW k \in Key, NEW l \in Line, row[k][l] = "complete" PROVE timed'[k][l]
    <3>1. CASE k = key /\ l = line BY <2>3, <3>1
    <3>2. CASE k # key \/ l # line
      <4>1. timed[k][l] BY <2>4
      <4> QED BY <2>3, <3>2, <4>1
    <3> QED BY <3>1, <3>2
  <2>5. timed'[key][line] BY <2>3
  <2> HIDE DEF NarrationInv
  <2>6. /\ narration \in [Key -> NarrationStatus] /\ row \in [Key -> [Line -> RowStatus]]
        /\ takes \in [Line -> Seq(Take)] /\ narrated \subseteq Key /\ \A a, b \in narrated : a = b
        /\ \A k \in narrated : narration[k] = "complete" \/ k \in spoilt
        /\ \A k \in Key : narration[k] = "complete" \/ k \in narrated => \A l \in Line : row[k][l] = "complete"
        /\ \A l \in Line : Len(takes[l]) <= MaxTakes /\ \A m, n \in Unfinished(l) : m = n
        /\ \A k \in Key, l \in Line : k > key => row[k][l] = "none"
        /\ \A l \in Line : row[key][l] = "pending" => ~Spoken(l)
        /\ narration[key] # "complete" /\ line \in 1..(Lines + 1) /\ line \in Line
        /\ \A l \in Line : l < line => row[key][l] = "complete"
    BY <2>1 DEF NarrationInv
  <2> QED BY <2>1, <2>2, <2>3, <2>4, <2>5, <2>6 DEF NarrationInv
<1> QED BY <1>1, <1>2, <1>3, <1>4, <1>5, <1>6, <1>7, <1>8, <1>9, <1>10, <1>11 DEF NarrationNext

\* The provider is called for a line that nobody has spoken or answered.
LEMMA NarrationPaid ==
  ASSUME PlaceInv, NarrationInv, NarrationNext
  PROVE  NarrationKept
<1>1. ASSUME at = "call" PROVE ~LineKept(line)
  <2>1. /\ line \in Line /\ ~Spoken(line)
        /\ \A n \in DOMAIN takes[line] : takes[line][n] # "answered"
    BY <1>1 DEF NarrationInv, NarrationPlace
  <2> QED BY <2>1 DEF LineKept
<1>2. ASSUME at = "align", at' = "aligned" PROVE ~timed[key][line]
  <2>1. Align
    BY <1>2 DEF NarrationNext, NarrationBegins, NarrationRefused, NextLine, TakeUp, Speak, KeepAnswer, KeepAlignment,
      Judge, NarrationFails, Preview, NarrationCompletes, Starts, Begins, Goes, Raises
  <2> QED BY <1>2, <2>1 DEF Align, Goes
<1> QED BY <1>1, <1>2 DEF NarrationKept

-----------------------------------------------------------------------------
(* The storyboard. *)

LEMMA BoardRests ==
  ASSUME BoardInv, UNCHANGED <<board, sheet>>,
         UNCHANGED <<at, key, part, incoming, attempt, answer>> \/ at' \notin StoryboardPlace
  PROVE  BoardInv'
<1>1. \A k \in Key, p \in Nat : Handed(k, p)' = Handed(k, p) BY DEF Handed
<1>2. CASE UNCHANGED <<at, key, part, incoming, attempt, answer>>
  BY <1>2 DEF BoardInv, StoryboardPlace, Handed, Sheet
<1>3. CASE at' \notin StoryboardPlace
  BY <1>3 DEF BoardInv, StoryboardPlace, Handed
<1> QED BY <1>2, <1>3

\* What the checkpoints promise: the finished ones of a run are its first ones, each
\* opens with what the one before it hands on, and a complete run has all of them.
SheetsChain ==
  /\ sheet \in [Key -> [Part -> SheetRow]]
  /\ \A k \in Key, p \in Part : sheet[k][p].status = "complete" =>
       /\ sheet[k][p].result.verdict = "valid" /\ sheet[k][p].incoming = Handed(k, p)
       /\ p > 1 => sheet[k][p - 1].status = "complete"

\* Writing the checkpoint of a segment that is not finished.
LEMMA SheetWritten ==
  ASSUME SheetsChain, NEW k \in Key, NEW p \in Part, NEW x \in SheetRow,
         sheet[k][p].status # "complete", sheet' = [sheet EXCEPT ![k][p] = x],
         x.status = "complete" =>
           /\ x.result.verdict = "valid" /\ x.incoming = Handed(k, p)
           /\ \A q \in Part : q < p => sheet[k][q].status = "complete"
  PROVE  /\ SheetsChain' /\ sheet'[k][p] = x
         /\ \A j \in Key, q \in Part : j # k \/ q # p => sheet'[j][q] = sheet[j][q]
         /\ \A j \in Key, q \in Part : sheet[j][q].status = "complete" => sheet'[j][q] = sheet[j][q]
<1> USE StoryboardAssumption
<1>1. /\ sheet' \in [Key -> [Part -> SheetRow]] /\ sheet'[k][p] = x
      /\ \A j \in Key, q \in Part : j # k \/ q # p => sheet'[j][q] = sheet[j][q]
  BY DEF SheetsChain
<1>2. \A j \in Key, q \in Part : sheet[j][q].status = "complete" => sheet'[j][q] = sheet[j][q]
  BY <1>1
<1>3. \A q \in Part : q > 1 => q - 1 \in Part BY DEF Part
<1>4. ASSUME NEW j \in Key, NEW q \in Part, sheet'[j][q].status = "complete"
      PROVE  /\ sheet'[j][q].result.verdict = "valid" /\ sheet'[j][q].incoming = Handed(j, q)'
             /\ q > 1 => sheet'[j][q - 1].status = "complete"
  <2>1. /\ sheet'[j][q].result.verdict = "valid" /\ sheet'[j][q].incoming = Handed(j, q)
        /\ q > 1 => sheet[j][q - 1].status = "complete"
    <3>1. CASE j = k /\ q = p
      <4>1. q > 1 => q - 1 < p /\ q - 1 \in Part BY <1>3, <3>1 DEF Part
      <4> QED BY <1>1, <1>4, <3>1, <4>1
    <3>2. CASE j # k \/ q # p
      BY <1>1, <1>4, <3>2 DEF SheetsChain
    <3> QED BY <3>1, <3>2
  <2>2. q > 1 => sheet'[j][q - 1] = sheet[j][q - 1] BY <1>2, <1>3, <2>1
  <2>3. q = 1 \/ q > 1 BY DEF Part
  <2>4. Handed(j, q)' = Handed(j, q) BY <2>2, <2>3 DEF Handed
  <2> QED BY <2>1, <2>2, <2>4
<1>5. SheetsChain' BY <1>1, <1>4 DEF SheetsChain
<1> QED BY <1>1, <1>2, <1>5

LEMMA BoardStep ==
  ASSUME PlaceInv, BoardInv, StoryboardNext
  PROVE  BoardInv' /\ \A k \in Key, p \in Part : sheet[k][p].status = "complete" => sheet'[k][p] = sheet[k][p]
<1> USE StoryboardAssumption DEF PlaceInv, StoryboardPlace
<1>0. /\ SheetsChain /\ key \in Key /\ Part = 1..Parts /\ Parts \in Nat
      /\ board \in [Key -> {"none", "directing", "complete", "failed"}]
      /\ \A k \in Key : board[k] = "complete" => \A p \in Part : sheet[k][p].status = "complete"
  BY DEF BoardInv, SheetsChain, Part
\* The steps that write no checkpoint.
<1>1. ASSUME UNCHANGED <<sheet, key>>,
             \/ board' = board
             \/ \E status \in {"directing", "failed"} : board' = [board EXCEPT ![key] = status]
             \/ board' = [board EXCEPT ![key] = "complete"] /\ \A p \in Part : sheet[key][p].status = "complete",
             at' \in StoryboardPlace =>
               /\ part' \in 1..(Parts + 1) /\ incoming' = Handed(key, part')
               /\ \A p \in Part : p < part' => sheet[key][p].status = "complete"
               /\ at' # "part" => part' \in Part /\ attempt' \in Nat /\ sheet[key][part'].status # "complete"
               /\ at' \in {"direct", "answered", "validate"} => sheet[key][part'].incoming = incoming'
               /\ at' = "answered" => answer' \in Result
               /\ at' = "validate" => answer' = sheet[key][part'].result
      PROVE  BoardInv'
  <2>1. \A k \in Key, p \in Nat : Handed(k, p)' = Handed(k, p) BY <1>1 DEF Handed
  <2>2. /\ board' \in [Key -> {"none", "directing", "complete", "failed"}]
        /\ \A k \in Key : board'[k] = "complete" => \A p \in Part : sheet'[k][p].status = "complete"
    BY <1>0, <1>1
  <2>3. Handed(key, part)' = Handed(key', part') BY <1>1 DEF Handed
  <2> QED BY <1>0, <1>1, <2>1, <2>2, <2>3 DEF BoardInv, SheetsChain, Sheet, Handed
<1>2. ASSUME UNCHANGED <<sheet, key>>
      PROVE  \A k \in Key, p \in Part : sheet[k][p].status = "complete" => sheet'[k][p] = sheet[k][p]
  BY <1>2
\* The steps that write the checkpoint in hand.
<1>3. ASSUME NEW p \in Part, p = part, NEW x \in SheetRow, at \in {"attempt", "answered", "validate"}, UNCHANGED key,
             sheet' = [sheet EXCEPT ![key][p] = x],
             \/ board' = board
             \/ board' = [board EXCEPT ![key] = "failed"],
             x.status = "complete" => x.result.verdict = "valid" /\ x.incoming = incoming
      PROVE  /\ SheetsChain' /\ sheet'[key][p] = x
             /\ \A k \in Key, q \in Part : sheet[k][q].status = "complete" => sheet'[k][q] = sheet[k][q]
             /\ \A q \in Part : q < p => sheet'[key][q].status = "complete"
             /\ board' \in [Key -> {"none", "directing", "complete", "failed"}]
             /\ \A k \in Key : board'[k] = "complete" => \A q \in Part : sheet'[k][q].status = "complete"
             /\ Handed(key, p)' = Handed(key, p)
  <2>1. /\ sheet[key][p].status # "complete" /\ incoming = Handed(key, p)
        /\ \A q \in Part : q < p => sheet[key][q].status = "complete"
    BY <1>3 DEF BoardInv, Sheet
  <2>2. /\ SheetsChain' /\ sheet'[key][p] = x
        /\ \A k \in Key, q \in Part : k # key \/ q # p => sheet'[k][q] = sheet[k][q]
        /\ \A k \in Key, q \in Part : sheet[k][q].status = "complete" => sheet'[k][q] = sheet[k][q]
    <3>1. SheetsChain /\ key \in Key /\ sheet' = [sheet EXCEPT ![key][p] = x] BY <1>0, <1>3
    <3>2. x.status = "complete" =>
            /\ x.result.verdict = "valid" /\ x.incoming = Handed(key, p)
            /\ \A q \in Part : q < p => sheet[key][q].status = "complete"
      BY <1>3, <2>1
    <3> HIDE DEF PlaceInv
    <3> QED BY <2>1, <3>1, <3>2, SheetWritten
  <2>3. \A q \in Part : q < p => sheet'[key][q].status = "complete" BY <2>1, <2>2
  <2>4. board' \in [Key -> {"none", "directing", "complete", "failed"}] BY <1>0, <1>3
  <2>5. \A k \in Key : board'[k] = "complete" => \A q \in Part : sheet'[k][q].status = "complete"
    <3>1. \A k \in Key : board'[k] = "complete" => board[k] = "complete" BY <1>0, <1>3
    <3> QED BY <1>0, <2>2, <3>1
  <2>6. Handed(key, p)' = Handed(key, p)
    <3>1. p # 1 => p - 1 \in Part /\ p - 1 # p BY <1>0
    <3> QED BY <1>3, <2>2, <3>1 DEF Handed
  <2> QED BY <2>2, <2>3, <2>4, <2>5, <2>6
<1>4. CASE StoryboardBegins
  <2>1. /\ UNCHANGED <<sheet, key>>
        /\ \/ at' = "reporting" /\ UNCHANGED board
           \/ at' = "part" /\ board' = [board EXCEPT ![key] = "directing"]
    BY <1>4 DEF StoryboardBegins, Begins
  <2>2. part' = 1 /\ incoming' = Opening BY <1>4 DEF StoryboardBegins, LaysDown
  <2> QED BY <1>0, <1>1, <1>2, <2>1, <2>2 DEF Handed
<1>5. CASE SkipFinished
  <2>1. /\ UNCHANGED <<board, sheet, key>> /\ at = "part" /\ at' = "part" /\ part \in Part
        /\ Sheet.status = "complete" /\ incoming' = Sheet.result.outgoing /\ part' = part + 1
    BY <1>5 DEF SkipFinished, Goes, Finished, HandedOn
  <2>2. incoming' = Handed(key, part') BY <1>0, <2>1 DEF Handed, Sheet
  <2>3. \A p \in Part : p < part' => sheet[key][p].status = "complete" BY <1>0, <2>1 DEF BoardInv, Sheet
  <2> QED BY <1>0, <1>1, <1>2, <2>1, <2>2, <2>3
<1>6. CASE EnterPart
  <2>1. UNCHANGED <<sheet, key>> /\ at = "part" /\ part \in Part /\ Sheet.status # "complete"
    BY <1>6 DEF EnterPart, Goes, Raises, Finished
  <2>2. CASE at' = "attempt" /\ attempt' \in Allowed /\ UNCHANGED <<board, part, incoming>>
    <3>1. attempt' \in Nat BY <2>2 DEF Allowed
    <3>2. /\ part \in 1..(Parts + 1) /\ incoming = Handed(key, part)
          /\ \A p \in Part : p < part => sheet[key][p].status = "complete"
      BY <2>1 DEF BoardInv
    <3> QED BY <1>1, <1>2, <2>1, <2>2, <3>1, <3>2 DEF Sheet
  <2>3. CASE at' = "idle" /\ board' = [board EXCEPT ![key] = "failed"]
    BY <1>1, <1>2, <2>1, <2>3
  <2> QED BY <1>6, <2>2, <2>3 DEF EnterPart, Goes, Raises
<1>7. CASE Direct
  <2>1. /\ UNCHANGED <<board, sheet, key, part, incoming, attempt>> /\ at = "direct" /\ at' = "answered"
        /\ answer' \in Result
    BY <1>7 DEF Direct, Goes
  <2>2. /\ part \in 1..(Parts + 1) /\ incoming = Handed(key, part)
        /\ \A p \in Part : p < part => sheet[key][p].status = "complete"
        /\ part \in Part /\ attempt \in Nat /\ sheet[key][part].status # "complete"
        /\ sheet[key][part].incoming = incoming
    BY <2>1 DEF BoardInv, Sheet
  <2> QED BY <1>1, <1>2, <2>1, <2>2
<1>8. CASE StoryboardFails \/ StoryboardCompletes
  <2>1. /\ UNCHANGED <<sheet, key>> /\ at' \in {"idle", "reporting"}
        /\ \/ board' = [board EXCEPT ![key] = "failed"]
           \/ board' = [board EXCEPT ![key] = "complete"] /\ at = "part" /\ part \notin Part
    BY <1>8 DEF StoryboardFails, StoryboardCompletes, Goes, Raises
  <2>2. at = "part" /\ part \notin Part => \A p \in Part : sheet[key][p].status = "complete"
    BY <1>0 DEF BoardInv
  <2> QED BY <1>1, <1>2, <2>1, <2>2
<1>9. CASE StartAttempt
  <2>0. PICK p \in Part : p = part BY <1>9 DEF StartAttempt, BoardInv
  <2>1. PICK x : x = [sheet[key][p] EXCEPT !.status = "open", !.incoming = incoming] OBVIOUS
  <2>2. /\ UNCHANGED <<board, key, part, incoming, attempt>> /\ at = "attempt"
        /\ sheet' = [sheet EXCEPT ![key][p] = x]
        /\ at' \in {"validate", "direct"}
        /\ at' = "validate" => answer' = Sheet.result
    BY <1>9, <2>0, <2>1 DEF StartAttempt, Goes
  <2>3. x \in SheetRow /\ x.status = "open" /\ x.incoming = incoming /\ x.result = sheet[key][p].result
    <3>1. sheet[key][p] \in SheetRow BY <1>0 DEF SheetsChain
    <3>2. incoming \in Handoff \cup {Opening} BY <1>0, <2>0, <2>2 DEF BoardInv, SheetsChain, SheetRow, Handed
    <3> QED BY <2>1, <3>1, <3>2 DEF SheetRow
  <2>4. /\ part \in 1..(Parts + 1) /\ incoming = Handed(key, p) /\ attempt \in Nat
    BY <2>0, <2>2 DEF BoardInv
  <2>5. /\ SheetsChain' /\ sheet'[key][p] = x
        /\ \A k \in Key, q \in Part : sheet[k][q].status = "complete" => sheet'[k][q] = sheet[k][q]
        /\ \A q \in Part : q < p => sheet'[key][q].status = "complete"
        /\ board' \in [Key -> {"none", "directing", "complete", "failed"}]
        /\ \A k \in Key : board'[k] = "complete" => \A q \in Part : sheet'[k][q].status = "complete"
        /\ Handed(key, p)' = Handed(key, p)
    BY <1>3, <2>0, <2>2, <2>3
  <2>6. /\ part' = p /\ key' = key /\ Sheet' = x /\ incoming' = Handed(key, p)'
        /\ at' = "validate" => answer' = x.result
    BY <2>0, <2>2, <2>3, <2>4, <2>5 DEF Sheet
  <2>7. Handed(key, part)' = Handed(key, p)' BY <2>2, <2>6 DEF Handed
  <2>8. /\ part' \in 1..(Parts + 1) /\ incoming' = Handed(key, part)'
        /\ \A q \in Part : q < part' => sheet'[key'][q].status = "complete"
        /\ part' \in Part /\ attempt' \in Nat /\ Sheet'.status # "complete" /\ Sheet'.incoming = incoming'
        /\ at' \in {"direct", "validate"}
        /\ at' = "validate" => answer' = Sheet'.result
    <3>1. incoming' = Handed(key, part)' BY <2>6, <2>7
    <3>2. \A q \in Part : q < part' => sheet'[key'][q].status = "complete" BY <2>5, <2>6
    <3>3. part' \in 1..(Parts + 1) /\ part' \in Part /\ attempt' \in Nat BY <2>0, <2>2, <2>4
    <3>4. Sheet'.status # "complete" /\ Sheet'.incoming = incoming' BY <2>2, <2>3, <2>6
    <3>5. at' \in {"direct", "validate"} /\ (at' = "validate" => answer' = Sheet'.result) BY <2>2, <2>6
    <3> QED BY <3>1, <3>2, <3>3, <3>4, <3>5
  <2> QED BY <2>5, <2>8 DEF BoardInv, SheetsChain
<1>10. CASE StoreAnswer
  <2>0. PICK p \in Part : p = part BY <1>10 DEF StoreAnswer, Goes, BoardInv
  <2>1. PICK x : x = [sheet[key][p] EXCEPT !.status = "open", !.attempt = attempt,
                                             !.result = answer, !.validated = FALSE] OBVIOUS
  <2>2. /\ UNCHANGED <<board, key, part, incoming, attempt, answer>> /\ at = "answered" /\ at' = "validate"
        /\ sheet' = [sheet EXCEPT ![key][p] = x]
    BY <1>10, <2>0, <2>1 DEF StoreAnswer, Goes
  <2>4. /\ part \in 1..(Parts + 1) /\ incoming = Handed(key, p) /\ attempt \in Nat
        /\ answer \in Result /\ sheet[key][p].incoming = incoming
    BY <2>0, <2>2 DEF BoardInv, Sheet
  <2>3. x \in SheetRow /\ x.status = "open" /\ x.incoming = incoming /\ x.result = answer
    <3>1. sheet[key][p] \in SheetRow BY <1>0 DEF SheetsChain
    <3>2. answer \in [verdict : Verdict, outgoing : Handoff \cup {Opening}] BY <2>4 DEF Result
    <3> QED BY <2>1, <2>4, <3>1, <3>2 DEF SheetRow
  <2>5. /\ SheetsChain' /\ sheet'[key][p] = x
        /\ \A k \in Key, q \in Part : sheet[k][q].status = "complete" => sheet'[k][q] = sheet[k][q]
        /\ \A q \in Part : q < p => sheet'[key][q].status = "complete"
        /\ board' \in [Key -> {"none", "directing", "complete", "failed"}]
        /\ \A k \in Key : board'[k] = "complete" => \A q \in Part : sheet'[k][q].status = "complete"
        /\ Handed(key, p)' = Handed(key, p)
    BY <1>3, <2>0, <2>2, <2>3
  <2> QED BY <2>0, <2>2, <2>3, <2>4, <2>5 DEF BoardInv, SheetsChain, Sheet
<1>11. CASE Validate
  <2>0. PICK p \in Part : p = part BY <1>11 DEF Validate, BoardInv
  <2>1. /\ part \in 1..(Parts + 1) /\ incoming = Handed(key, p) /\ attempt \in Nat
        /\ answer = sheet[key][p].result /\ sheet[key][p].incoming = incoming
        /\ sheet[key][p] \in SheetRow /\ at = "validate"
    BY <1>0, <1>11, <2>0 DEF Validate, BoardInv, SheetsChain, Sheet
  <2>2. CASE answer.verdict = "valid"
    <3>1. PICK x : x = [sheet[key][p] EXCEPT !.status = "complete", !.report = "valid", !.validated = TRUE] OBVIOUS
    <3>2. /\ UNCHANGED <<board, key>> /\ at' = "part" /\ sheet' = [sheet EXCEPT ![key][p] = x]
          /\ incoming' = answer.outgoing /\ part' = p + 1
      BY <1>11, <2>0, <2>2, <3>1 DEF Validate, Goes
    <3>3. x \in SheetRow /\ x.status = "complete" /\ x.incoming = incoming /\ x.result = answer
      BY <2>1, <3>1 DEF SheetRow, Verdict
    <3>4. /\ SheetsChain' /\ sheet'[key][p] = x
          /\ \A k \in Key, q \in Part : sheet[k][q].status = "complete" => sheet'[k][q] = sheet[k][q]
          /\ \A q \in Part : q < p => sheet'[key][q].status = "complete"
          /\ board' \in [Key -> {"none", "directing", "complete", "failed"}]
          /\ \A k \in Key : board'[k] = "complete" => \A q \in Part : sheet'[k][q].status = "complete"
      BY <1>3, <2>0, <2>1, <2>2, <3>2, <3>3
    <3>5. /\ part' \in 1..(Parts + 1) /\ \A q \in Part : q < part' => sheet'[key'][q].status = "complete"
      BY <1>0, <3>2, <3>3, <3>4
    <3>6. incoming' = Handed(key, part)' BY <1>0, <3>2, <3>3, <3>4 DEF Handed
    <3> QED BY <3>2, <3>4, <3>5, <3>6 DEF BoardInv, SheetsChain, Handed
  <2>3. CASE answer.verdict # "valid"
    <3>1. PICK x : x = [sheet[key][p] EXCEPT !.status = "open", !.report = answer.verdict] OBVIOUS
    <3>2. /\ key' = key /\ sheet' = [sheet EXCEPT ![key][p] = x]
          /\ \/ at' = "attempt" /\ attempt' = attempt + 1 /\ UNCHANGED <<board, part, incoming>>
             \/ at' = "idle" /\ board' = [board EXCEPT ![key] = "failed"]
      BY <1>11, <2>0, <2>3, <3>1 DEF Validate, Goes, Raises
    <3>3. x \in SheetRow /\ x.status = "open" BY <2>1, <3>1 DEF SheetRow
    <3>4. /\ SheetsChain' /\ sheet'[key][p] = x
          /\ \A k \in Key, q \in Part : sheet[k][q].status = "complete" => sheet'[k][q] = sheet[k][q]
          /\ \A q \in Part : q < p => sheet'[key][q].status = "complete"
          /\ board' \in [Key -> {"none", "directing", "complete", "failed"}]
          /\ \A k \in Key : board'[k] = "complete" => \A q \in Part : sheet'[k][q].status = "complete"
          /\ Handed(key, p)' = Handed(key, p)
      BY <1>3, <2>0, <2>1, <3>2, <3>3
    <3> QED BY <2>0, <2>1, <3>2, <3>3, <3>4 DEF BoardInv, SheetsChain, Sheet
  <2> QED BY <2>2, <2>3
<1> QED BY <1>4, <1>5, <1>6, <1>7, <1>8, <1>9, <1>10, <1>11 DEF StoryboardNext

LEMMA AskStep ==
  ASSUME PlaceInv, BoardInv, AskInv, StoryboardNext
  PROVE  AskInv'
<1> USE StoryboardAssumption
<1>0. /\ key \in Key /\ sheet \in [Key -> [Part -> SheetRow]]
      /\ at \in {"attempt", "direct", "answered", "validate"} =>
           part \in Part /\ attempt \in Nat /\ Sheet.status # "complete"
  BY DEF PlaceInv, BoardInv, StoryboardPlace
\* The steps that leave the checkpoints and ask for nothing.
<1>1. ASSUME sheet' = sheet, at' \notin {"attempt", "direct"} PROVE AskInv'
  BY <1>1 DEF AskInv
<1>2. CASE StoryboardBegins \/ SkipFinished \/ Direct \/ StoryboardFails \/ StoryboardCompletes
  BY <1>1, <1>2 DEF StoryboardBegins, SkipFinished, Direct, StoryboardFails, StoryboardCompletes, Begins, Goes, Raises
<1>3. CASE EnterPart
  <2>1. CASE ResumePoint(Sheet) \in Allowed
    <3>1. /\ UNCHANGED <<sheet, key, part>> /\ at' = "attempt" /\ attempt' = ResumePoint(Sheet)
      BY <1>3, <2>1 DEF EnterPart, Goes
    <3>2. ResumePoint(Sheet) # 0 BY <2>1 DEF Allowed
    <3>3. Sheet.attempt = 0 \/ Sheet.report # "none" \/ Sheet.attempt = ResumePoint(Sheet) BY DEF ResumePoint
    <3>4. Sheet' = Sheet BY <3>1 DEF Sheet
    <3> QED BY <3>1, <3>2, <3>3, <3>4 DEF AskInv
  <2>2. CASE ResumePoint(Sheet) \notin Allowed
    BY <1>1, <1>3, <2>2 DEF EnterPart, Raises
  <2> QED BY <2>1, <2>2
\* The steps that write the checkpoint of the segment in hand.
<1>4. ASSUME NEW x \in SheetRow, at \in {"attempt", "validate", "answered"}, key' = key,
             sheet' = [sheet EXCEPT ![key][part] = x], x.report = "valid" => x.status = "complete"
      PROVE  /\ \A k \in Key, p \in Part : sheet'[k][p].report = "valid" => sheet'[k][p].status = "complete"
             /\ sheet'[key][part] = x
  <2>1. \A k \in Key, p \in Part : sheet'[k][p] = IF k = key /\ p = part THEN x ELSE sheet[k][p]
    BY <1>0, <1>4
  <2> QED BY <1>0, <1>4, <2>1 DEF AskInv
<1>5. CASE StartAttempt
  <2>0. PICK s \in SheetRow : s = Sheet BY <1>0, <1>5 DEF StartAttempt, Sheet
  <2>1. PICK x : x = [[s EXCEPT !.status = "open"] EXCEPT !.incoming = incoming] OBVIOUS
  <2>2. /\ at = "attempt" /\ UNCHANGED <<key, part, attempt>> /\ sheet' = [sheet EXCEPT ![key][part] = x]
        /\ (at' = "direct" /\ ~Recovers(s, attempt)) \/ at' = "validate"
    BY <1>5, <2>0, <2>1 DEF StartAttempt, Goes, Sheet
  <2>3. x \in SheetRow /\ x.report = s.report /\ x.attempt = s.attempt
    <3>1. incoming \in Handoff \cup {Opening} 
      <4>1. /\ incoming = Handed(key, part) /\ part \in 1..Parts
            /\ \A p \in Part : p < part => sheet[key][p].status = "complete"
        BY <1>0, <2>2 DEF BoardInv, StoryboardPlace, Part
      <4>2. part = 1 \/ part - 1 \in Part BY <4>1 DEF Part
      <4> QED BY <1>0, <4>1, <4>2 DEF Handed, SheetRow
    <3> QED BY <2>0, <2>1, <3>1 DEF SheetRow
  <2>4. s.report # "valid" BY <1>0, <2>0, <2>2 DEF AskInv, Sheet
  <2>5. /\ \A k \in Key, p \in Part : sheet'[k][p].report = "valid" => sheet'[k][p].status = "complete"
        /\ sheet'[key][part] = x
    BY <1>4, <2>2, <2>3, <2>4
  <2>6. Sheet' = x BY <2>2, <2>5 DEF Sheet
  <2>7. at' = "direct" => s.attempt # attempt /\ (s.attempt = 0 \/ s.report # "none")
    BY <2>0, <2>2 DEF AskInv, Recovers
  <2> QED BY <2>2, <2>3, <2>5, <2>6, <2>7 DEF AskInv
<1>6. CASE StoreAnswer
  <2>0. PICK s \in SheetRow : s = Sheet BY <1>0, <1>6 DEF StoreAnswer, Goes, Sheet
  <2>1. PICK x : x = [s EXCEPT !.status = "open", !.attempt = attempt, !.result = answer, !.validated = FALSE]
    OBVIOUS
  <2>2. /\ at = "answered" /\ at' = "validate" /\ key' = key /\ sheet' = [sheet EXCEPT ![key][part] = x]
    BY <1>6, <2>0, <2>1 DEF StoreAnswer, Goes, Sheet
  <2>3. x \in SheetRow /\ x.report = s.report
    <3>1. answer \in Result /\ attempt \in Nat BY <1>0, <2>2 DEF BoardInv, StoryboardPlace
    <3> QED BY <2>0, <2>1, <3>1 DEF SheetRow, Result
  <2>4. s.report # "valid" BY <1>0, <2>0, <2>2 DEF AskInv, Sheet
  <2> QED BY <1>4, <2>2, <2>3, <2>4 DEF AskInv
<1>7. CASE Validate
  <2>0. PICK s \in SheetRow : s = Sheet BY <1>0, <1>7 DEF Validate, Sheet
  <2>1. answer.verdict \in Verdict BY <1>0, <1>7 DEF Validate, BoardInv, StoryboardPlace, SheetRow, Sheet
  <2>2. CASE answer.verdict = "valid"
    <3>1. PICK x : x = [s EXCEPT !.status = "complete", !.report = "valid", !.validated = TRUE] OBVIOUS
    <3>2. /\ at = "validate" /\ at' = "part" /\ key' = key /\ sheet' = [sheet EXCEPT ![key][part] = x]
      BY <1>7, <2>0, <2>2, <3>1 DEF Validate, Goes, Sheet
    <3>3. x \in SheetRow /\ x.status = "complete" BY <2>0, <3>1 DEF SheetRow, Verdict
    <3> QED BY <1>4, <3>2, <3>3 DEF AskInv
  <2>3. CASE answer.verdict # "valid"
    <3>1. PICK x : x = [s EXCEPT !.status = "open", !.report = answer.verdict] OBVIOUS
    <3>2. /\ at = "validate" /\ key' = key /\ sheet' = [sheet EXCEPT ![key][part] = x]
          /\ (at' = "attempt" /\ attempt' = attempt + 1 /\ part' = part) \/ at' = "idle"
      BY <1>7, <2>0, <2>3, <3>1 DEF Validate, Goes, Raises, Sheet
    <3>3. x \in SheetRow /\ x.report = answer.verdict BY <2>0, <2>1, <3>1 DEF SheetRow
    <3>4. /\ \A k \in Key, p \in Part : sheet'[k][p].report = "valid" => sheet'[k][p].status = "complete"
          /\ sheet'[key][part] = x
      BY <1>4, <2>3, <3>2, <3>3
    <3>5. at' = "attempt" => Sheet' = x /\ attempt' # 0 BY <1>0, <3>2, <3>4 DEF Sheet
    <3> QED BY <2>1, <3>2, <3>3, <3>4, <3>5 DEF AskInv, Verdict
  <2> QED BY <2>2, <2>3
<1> QED BY <1>2, <1>3, <1>5, <1>6, <1>7 DEF StoryboardNext

LEMMA StoryboardRests ==
  ASSUME StoryboardInv, UNCHANGED <<board, sheet>>,
         UNCHANGED <<at, key, part, incoming, attempt, answer>> \/ at' \notin StoryboardPlace
  PROVE  StoryboardInv'
<1>1. BoardInv' BY BoardRests DEF StoryboardInv
<1>2. AskInv'
  <2>1. AskInv /\ sheet' = sheet BY DEF StoryboardInv
  <2>2. CASE UNCHANGED <<at, key, part, attempt>>
    <3>1. Sheet' = Sheet BY <2>1, <2>2 DEF Sheet
    <3> QED BY <2>1, <2>2, <3>1 DEF AskInv
  <2>3. CASE at' \notin StoryboardPlace BY <2>1, <2>3 DEF AskInv, StoryboardPlace
  <2> QED BY <2>2, <2>3
<1> QED BY <1>1, <1>2 DEF StoryboardInv

LEMMA StoryboardStep ==
  ASSUME PlaceInv, StoryboardInv, StoryboardNext
  PROVE  StoryboardInv' /\ \A k \in Key, p \in Part : sheet[k][p].status = "complete" => sheet'[k][p] = sheet[k][p]
BY BoardStep, AskStep DEF StoryboardInv

\* The provider is called for a segment that is open, and its answer replaces none
\* that is of the same attempt or without a verdict.
LEMMA StoryboardPaid ==
  ASSUME PlaceInv, StoryboardInv, StoryboardNext
  PROVE  SegmentKept
<1>1. \A k \in Key, p \in Part : sheet[k][p].status = "complete" => sheet'[k][p] = sheet[k][p] BY StoryboardStep
<1>2. ASSUME at = "direct"
      PROVE  /\ ~Finished(Sheet) /\ Sheet.attempt # attempt
             /\ Sheet.attempt = 0 \/ Sheet.report \in {"repairable", "hopeless"}
  <2>1. /\ key \in Key /\ part \in Part /\ Sheet.status # "complete" /\ Sheet \in SheetRow
    BY <1>2 DEF PlaceInv, StoryboardInv, BoardInv, StoryboardPlace, Sheet
  <2>2. Sheet.report # "valid" BY <2>1 DEF StoryboardInv, AskInv, Sheet
  <2>3. Sheet.report \in {"none", "repairable", "hopeless"} BY <2>1, <2>2 DEF SheetRow, Verdict
  <2> QED BY <1>2, <2>1, <2>3 DEF StoryboardInv, AskInv, Finished
<1> QED BY <1>1, <1>2 DEF SegmentKept

-----------------------------------------------------------------------------
(* The final check. *)

LEMMA EditorialRests ==
  ASSUME EditorialInv, UNCHANGED <<inputs, final, looked>>,
         UNCHANGED <<at, qa>> \/ at' \notin EditorialPlace
  PROVE  EditorialInv'
BY DEF EditorialInv, EditorialPlace, PassIsEarned, Unselected

\* One run's row is written, its selection apart.
LEMMA FinalWritten ==
  ASSUME EditorialInv, NEW i \in Input, NEW x \in FinalRow, final' = [final EXCEPT ![i] = x],
         x.selected = final[i].selected, UNCHANGED looked,
         x.status = "passed" =>
           /\ x.measured = "sound"
           /\ \/ looked[i].first = "clear"
              \/ looked[i].first = "unsure" /\ looked[i].second \in {"dismissed", "minor"}
              \/ looked[i].first = "unsure" /\ x.settled = "accept",
         x.status = "review" =>
           x.measured = "sound" /\ looked[i].first = "unsure" /\ looked[i].second = "undecided"
  PROVE  /\ final' \in [Input -> FinalRow] /\ final'[i] = x
         /\ \A j \in Input : j # i => final'[j] = final[j]
         /\ PassIsEarned'
         /\ \A j \in Input : final'[j].status = "review" =>
              final'[j].measured = "sound" /\ looked'[j].first = "unsure" /\ looked'[j].second = "undecided"
<1>1. /\ final' \in [Input -> FinalRow] /\ final'[i] = x /\ \A j \in Input : j # i => final'[j] = final[j]
  BY DEF EditorialInv
<1>2. \A j \in Input : final'[j].selected = final[j].selected BY <1>1
<1>3. \A j \in Input : Unselected(j)' = Unselected(j) /\ Unselected(j) \subseteq Input BY DEF Unselected
<1>4. PassIsEarned'
  <2>1. \A j \in Input : final'[j].selected => \A k \in Unselected(j)' : ~final'[k].selected
    BY <1>2, <1>3 DEF EditorialInv, PassIsEarned
  <2>2. \A j \in Input : final'[j].status = "passed" =>
          /\ final'[j].measured = "sound"
          /\ \/ looked'[j].first = "clear"
             \/ looked'[j].first = "unsure" /\ looked'[j].second \in {"dismissed", "minor"}
             \/ looked'[j].first = "unsure" /\ final'[j].settled = "accept"
    BY <1>1 DEF EditorialInv, PassIsEarned
  <2> QED BY <2>1, <2>2 DEF PassIsEarned
<1>5. \A j \in Input : final'[j].status = "review" =>
        final'[j].measured = "sound" /\ looked'[j].first = "unsure" /\ looked'[j].second = "undecided"
  BY <1>1 DEF EditorialInv
<1> QED BY <1>1, <1>4, <1>5

\* An opinion is kept for a run that is still running.
LEMMA LookKept ==
  ASSUME EditorialInv, NEW x \in LookRow, looked' = [looked EXCEPT ![qa] = x], UNCHANGED final,
         at \in EditorialPlace
  PROVE  /\ looked' \in [Input -> LookRow] /\ looked'[qa] = x /\ PassIsEarned'
         /\ \A j \in Input : final'[j].status = "review" =>
              final'[j].measured = "sound" /\ looked'[j].first = "unsure" /\ looked'[j].second = "undecided"
<1>1. /\ looked' \in [Input -> LookRow] /\ looked'[qa] = x /\ \A j \in Input : j # qa => looked'[j] = looked[j]
      /\ final[qa].status = "running"
  BY DEF EditorialInv
<1>2. \A j \in Input : Unselected(j)' = Unselected(j) BY DEF Unselected
<1>3. PassIsEarned' BY <1>1, <1>2 DEF EditorialInv, PassIsEarned
<1> QED BY <1>1, <1>3 DEF EditorialInv

\* What the gate decides.
LEMMA GateDecides ==
  ASSUME NEW r \in FinalRow, NEW l \in LookRow,
         \/ r.measured = "broken"
         \/ /\ r.measured = "sound"
            /\ l.first \in {"clear", "blocking"} \/ (l.first = "unsure" /\ l.second # "none")
  PROVE  /\ GateOf(r, l) \in {"passed", "review", "failed"}
         /\ GateOf(r, l) = "passed" =>
              /\ r.measured = "sound"
              /\ \/ l.first = "clear"
                 \/ l.first = "unsure" /\ l.second \in {"dismissed", "minor"}
                 \/ l.first = "unsure" /\ r.settled = "accept"
         /\ GateOf(r, l) = "review" =>
              r.measured = "sound" /\ l.first = "unsure" /\ l.second = "undecided"
BY DEF GateOf, Blocks, Open, FinalRow, LookRow, FirstLook, SecondLook

LEMMA EditorialStep ==
  ASSUME PlaceInv, EditorialInv, EditorialNext
  PROVE  EditorialInv' /\ \A i \in Input : final[i].status \in {"passed", "failed"} => final'[i].status = final[i].status
<1> USE DEF PlaceInv, EditorialPlace
<1>1. CASE EditorialBegins
  <2>1. /\ UNCHANGED <<inputs, looked>> /\ qa' = inputs /\ inputs \in Input
        /\ \/ at' = "reporting" /\ UNCHANGED final
           \/ /\ at' = "measure" /\ final[inputs].status \notin {"passed", "review", "failed"}
              /\ final' = [final EXCEPT ![inputs].status = "running"]
    BY <1>1 DEF EditorialBegins, Begins, IsDecided, EditorialInv
  <2>2. CASE at' = "reporting" /\ UNCHANGED final BY <2>1, <2>2, EditorialRests
  <2>3. CASE final[inputs].status \notin {"passed", "review", "failed"} /\ at' = "measure"
             /\ final' = [final EXCEPT ![inputs].status = "running"]
    <3>1. PICK x : x = [final[inputs] EXCEPT !.status = "running"] OBVIOUS
    <3>2. final' = [final EXCEPT ![inputs] = x] BY <2>3, <3>1
    <3>3. x \in FinalRow /\ x.status = "running" /\ x.selected = final[inputs].selected
      BY <2>1, <3>1 DEF EditorialInv, FinalRow
    <3>4. /\ final' \in [Input -> FinalRow] /\ final'[inputs] = x
          /\ \A j \in Input : j # inputs => final'[j] = final[j]
          /\ PassIsEarned'
          /\ \A j \in Input : final'[j].status = "review" =>
               final'[j].measured = "sound" /\ looked'[j].first = "unsure" /\ looked'[j].second = "undecided"
      BY <2>1, <3>2, <3>3, FinalWritten
    <3> QED BY <2>1, <2>3, <3>3, <3>4 DEF EditorialInv
  <2> QED BY <2>1, <2>2, <2>3
<1>2. CASE Measure
  <2>1. PICK m \in Measured : /\ final' = [final EXCEPT ![qa].measured = m] /\ at = "measure"
                              /\ at' = IF m = "sound" THEN "first" ELSE "gate"
    BY <1>2 DEF Measure, Goes
  <2>2. UNCHANGED <<inputs, looked, qa>> /\ qa \in Input /\ final[qa].status = "running" /\ final[qa] \in FinalRow
    BY <1>2, <2>1 DEF Measure, EditorialInv
  <2>3. PICK x : x = [final[qa] EXCEPT !.measured = m] OBVIOUS
  <2>4. final' = [final EXCEPT ![qa] = x] BY <2>1, <2>3
  <2>5. x \in FinalRow /\ x.status = "running" /\ x.selected = final[qa].selected /\ x.measured = m
    BY <2>2, <2>3 DEF FinalRow
  <2>6. /\ final' \in [Input -> FinalRow] /\ final'[qa] = x
        /\ \A j \in Input : j # qa => final'[j] = final[j]
        /\ PassIsEarned'
        /\ \A j \in Input : final'[j].status = "review" =>
             final'[j].measured = "sound" /\ looked'[j].first = "unsure" /\ looked'[j].second = "undecided"
    BY <2>2, <2>4, <2>5, FinalWritten
  <2> QED BY <2>1, <2>2, <2>5, <2>6 DEF EditorialInv, Measured
<1>3. CASE EditorialFails
  <2>1. UNCHANGED <<inputs, final, looked>> /\ at' = "idle" BY <1>3 DEF EditorialFails, Raises
  <2> QED BY <2>1, EditorialRests
<1>4. CASE Gate
  <2>1. UNCHANGED <<inputs, looked, qa>> /\ at = "gate" /\ at' = "reporting" BY <1>4 DEF Gate, Goes
  <2>2. qa \in Input /\ final[qa].status = "running" /\ final \in [Input -> FinalRow] /\ looked \in [Input -> LookRow]
    BY <2>1 DEF EditorialInv
  <2>3. PICK g : g = GateOf(final[qa], looked[qa]) OBVIOUS
  <2>4. /\ g \in {"passed", "review", "failed"}
        /\ g = "passed" =>
             /\ final[qa].measured = "sound"
             /\ \/ looked[qa].first = "clear"
                \/ looked[qa].first = "unsure" /\ looked[qa].second \in {"dismissed", "minor"}
                \/ looked[qa].first = "unsure" /\ final[qa].settled = "accept"
        /\ g = "review" =>
             final[qa].measured = "sound" /\ looked[qa].first = "unsure" /\ looked[qa].second = "undecided"
    <3>1. \/ final[qa].measured = "broken"
          \/ /\ final[qa].measured = "sound"
             /\ \/ looked[qa].first \in {"clear", "blocking"}
                \/ looked[qa].first = "unsure" /\ looked[qa].second # "none"
      BY <2>1 DEF EditorialInv
    <3>2. final[qa] \in FinalRow /\ looked[qa] \in LookRow BY <2>2
    <3> QED BY <2>3, <3>1, <3>2, GateDecides
  <2>5. final' = [i \in Input |-> CASE i = qa -> [final[i] EXCEPT !.status = g, !.selected = TRUE]
                                    [] i # qa /\ i \in Unselected(qa) -> [final[i] EXCEPT !.selected = FALSE]
                                    [] OTHER -> final[i]]
    <3>1. \A i \in Input : i = qa => GateOf(final[i], looked[i]) = g BY <2>3
    <3> QED BY <1>4, <3>1 DEF Gate
  <2>6. \A i \in Input :
          final'[i] = CASE i = qa -> [final[i] EXCEPT !.status = g, !.selected = TRUE]
                        [] i # qa /\ i \in Unselected(qa) -> [final[i] EXCEPT !.selected = FALSE]
                        [] OTHER -> final[i]
    BY <2>5
  <2>7. /\ \A i \in Input : final'[i].measured = final[i].measured /\ final'[i].settled = final[i].settled
        /\ \A i \in Input : final'[i].status = IF i = qa THEN g ELSE final[i].status
        /\ \A i \in Input : final'[i].selected = IF i = qa THEN TRUE
                                                 ELSE final[i].selected /\ i \notin Unselected(qa)
        /\ \A i \in Input : final'[i] \in FinalRow
    <3> SUFFICES ASSUME NEW i \in Input
                 PROVE  /\ final'[i].measured = final[i].measured /\ final'[i].settled = final[i].settled
                        /\ final'[i].status = IF i = qa THEN g ELSE final[i].status
                        /\ final'[i].selected = IF i = qa THEN TRUE ELSE final[i].selected /\ i \notin Unselected(qa)
                        /\ final'[i] \in FinalRow
      OBVIOUS
    <3>0. final[i] \in FinalRow BY <2>2
    <3>1. CASE i = qa
      <4>1. final'[i] = [final[i] EXCEPT !.status = g, !.selected = TRUE] BY <2>6, <3>1
      <4> QED BY <2>4, <3>0, <3>1, <4>1 DEF FinalRow
    <3>2. CASE i # qa /\ i \in Unselected(qa)
      <4>1. final'[i] = [final[i] EXCEPT !.selected = FALSE] BY <2>6, <3>2
      <4> QED BY <3>0, <3>2, <4>1 DEF FinalRow
    <3>3. CASE i # qa /\ i \notin Unselected(qa)
      <4>1. final'[i] = final[i] BY <2>6, <3>3
      <4> QED BY <3>0, <3>3, <4>1 DEF FinalRow
    <3> QED BY <3>1, <3>2, <3>3
  <2>8. final' \in [Input -> FinalRow] BY <2>5, <2>7
  <2>9. \A i \in Input : Unselected(i)' = Unselected(i) BY DEF Unselected
  <2>10. PassIsEarned'
    <3>1. ASSUME NEW i \in Input, NEW j \in Unselected(i), final'[i].selected PROVE ~final'[j].selected
      <4>1. j \in Input /\ j # i /\ RenderOf[j] = RenderOf[i] BY DEF Unselected
      <4>2. CASE i = qa BY <2>7, <4>1, <4>2
      <4>3. CASE j = qa
        <5>1. i \in Unselected(qa) BY <4>1, <4>3 DEF Unselected
        <5> QED BY <2>7, <3>1, <4>1, <4>3, <5>1
      <4>4. CASE i # qa /\ j # qa
        <5>1. final[i].selected BY <2>7, <3>1, <4>4
        <5>2. ~final[j].selected BY <5>1 DEF EditorialInv, PassIsEarned
        <5> QED BY <2>7, <4>1, <4>4, <5>2
      <4> QED BY <4>2, <4>3, <4>4
    <3>2. \A i \in Input : final'[i].status = "passed" =>
            /\ final'[i].measured = "sound"
            /\ \/ looked'[i].first = "clear"
               \/ looked'[i].first = "unsure" /\ looked'[i].second \in {"dismissed", "minor"}
               \/ looked'[i].first = "unsure" /\ final'[i].settled = "accept"
      BY <2>1, <2>4, <2>7 DEF EditorialInv, PassIsEarned
    <3> QED BY <2>9, <3>1, <3>2 DEF PassIsEarned
  <2>11. \A i \in Input : final'[i].status = "review" =>
           final'[i].measured = "sound" /\ looked'[i].first = "unsure" /\ looked'[i].second = "undecided"
    BY <2>1, <2>4, <2>7 DEF EditorialInv
  <2>12. \A i \in Input : final[i].status \in {"passed", "failed"} => final'[i].status = final[i].status
    BY <2>2, <2>7
  <2> QED BY <2>1, <2>8, <2>10, <2>11, <2>12 DEF EditorialInv
<1>5. ASSUME NEW pass \in {"first", "second"}, Reuse(pass) \/ Evaluate(pass)
      PROVE  EditorialInv' /\ UNCHANGED final
  <2>1. UNCHANGED <<inputs, final, looked, qa>> /\ at = pass BY <1>5 DEF Reuse, Evaluate, finalVars
  <2>2. /\ pass = "first" => \/ at' = "first_seen"
                             \/ looked[qa].first = "unsure" /\ at' = "second"
                             \/ looked[qa].first \notin {"none", "unsure"} /\ at' = "gate"
        /\ pass = "second" => \/ at' = "second_seen"
                              \/ looked[qa].second # "none" /\ at' = "gate"
    BY <1>5 DEF Reuse, Evaluate, InHand, After, Goes
  <2>3. looked[qa] \in LookRow BY <2>1 DEF EditorialInv
  <2>4. PassIsEarned' BY <2>1 DEF EditorialInv, PassIsEarned, Unselected
  <2> QED BY <2>1, <2>2, <2>3, <2>4 DEF EditorialInv, LookRow, FirstLook
<1>6. CASE KeepLook("first", FirstLook)
  <2>1. PICK r \in FirstLook : looked' = [looked EXCEPT ![qa]["first"] = r] /\ at = "first_seen"
                               /\ at' = IF r = "unsure" THEN "second" ELSE "gate"
    BY <1>6 DEF KeepLook, Goes, After
  <2>2. UNCHANGED <<inputs, final, qa>> /\ qa \in Input /\ looked[qa] \in LookRow
    BY <1>6, <2>1 DEF KeepLook, EditorialInv
  <2>3. PICK x : x = [looked[qa] EXCEPT !["first"] = r] OBVIOUS
  <2>4. looked' = [looked EXCEPT ![qa] = x] BY <2>1, <2>3
  <2>5. x \in LookRow /\ x.first = r BY <2>2, <2>3 DEF LookRow
  <2>6. /\ looked' \in [Input -> LookRow] /\ looked'[qa] = x /\ PassIsEarned'
        /\ \A j \in Input : final'[j].status = "review" =>
             final'[j].measured = "sound" /\ looked'[j].first = "unsure" /\ looked'[j].second = "undecided"
    BY <2>1, <2>2, <2>4, <2>5, LookKept
  <2> QED BY <2>1, <2>2, <2>5, <2>6 DEF EditorialInv, FirstLook
<1>7. CASE KeepLook("second", SecondLook)
  <2>1. PICK r \in SecondLook : looked' = [looked EXCEPT ![qa]["second"] = r] /\ at = "second_seen" /\ at' = "gate"
    BY <1>7 DEF KeepLook, Goes, After
  <2>2. UNCHANGED <<inputs, final, qa>> /\ qa \in Input /\ looked[qa] \in LookRow
    BY <1>7, <2>1 DEF KeepLook, EditorialInv
  <2>3. PICK x : x = [looked[qa] EXCEPT !["second"] = r] OBVIOUS
  <2>4. looked' = [looked EXCEPT ![qa] = x] BY <2>1, <2>3
  <2>5. x \in LookRow /\ x.second = r /\ x.first = looked[qa].first BY <2>2, <2>3 DEF LookRow
  <2>6. /\ looked' \in [Input -> LookRow] /\ looked'[qa] = x /\ PassIsEarned'
        /\ \A j \in Input : final'[j].status = "review" =>
             final'[j].measured = "sound" /\ looked'[j].first = "unsure" /\ looked'[j].second = "undecided"
    BY <2>1, <2>2, <2>4, <2>5, LookKept
  <2> QED BY <2>1, <2>2, <2>5, <2>6 DEF EditorialInv, SecondLook
<1> QED BY <1>1, <1>2, <1>3, <1>4, <1>5, <1>6, <1>7 DEF EditorialNext

\* The owner settles a run that waits, or moves the project to other inputs.
LEMMA EditorialOwned ==
  ASSUME PlaceInv, EditorialInv, EditorialOwner
  PROVE  EditorialInv' /\ \A i \in Input : final[i].status \in {"passed", "failed"} => final'[i].status = final[i].status
<1>1. ASSUME NEW i \in Input, NEW d \in {"accept", "reject", "escalate"}, Settles(i, d)
      PROVE  EditorialInv' /\ \A j \in Input : final[j].status \in {"passed", "failed"} => final'[j].status = final[j].status
  <2>1. PICK r : r = [final[i] EXCEPT !.settled = d] OBVIOUS
  <2>2. PICK g : g = GateOf(r, looked[i]) OBVIOUS
  <2>3. PICK x : x = [r EXCEPT !.status = g] OBVIOUS
  <2>4. /\ final' = [final EXCEPT ![i] = x] /\ final[i].status = "review"
        /\ UNCHANGED <<inputs, looked, qa, at>>
    BY <1>1, <2>1, <2>2, <2>3 DEF Settles, workerVars
  <2>5. /\ final[i] \in FinalRow /\ looked[i] \in LookRow /\ final[i].measured = "sound"
        /\ looked[i].first = "unsure" /\ looked[i].second = "undecided"
    BY <2>4 DEF EditorialInv
  <2>6. r \in FinalRow /\ r.measured = "sound" /\ r.settled = d /\ r.selected = final[i].selected
    BY <2>1, <2>5 DEF FinalRow
  <2>7. /\ g \in {"passed", "review", "failed"}
        /\ g = "passed" => r.settled = "accept"
    BY <2>2, <2>5, <2>6, GateDecides
  <2>8. /\ x \in FinalRow /\ x.status = g /\ x.measured = "sound" /\ x.selected = final[i].selected
        /\ x.settled = d
    BY <2>3, <2>6, <2>7 DEF FinalRow
  <2>9. /\ final' \in [Input -> FinalRow] /\ final'[i] = x
        /\ \A j \in Input : j # i => final'[j] = final[j]
        /\ PassIsEarned'
        /\ \A j \in Input : final'[j].status = "review" =>
             final'[j].measured = "sound" /\ looked'[j].first = "unsure" /\ looked'[j].second = "undecided"
    BY <2>4, <2>5, <2>6, <2>7, <2>8, FinalWritten
  <2>10. at \in EditorialPlace => i # qa BY <2>4 DEF EditorialInv
  <2> QED BY <2>4, <2>9, <2>10 DEF EditorialInv, EditorialPlace
<1>2. ASSUME NEW i \in Input, InputsMove(i)
      PROVE  EditorialInv' /\ \A j \in Input : final[j].status \in {"passed", "failed"} => final'[j].status = final[j].status
  <2>1. inputs' = i /\ UNCHANGED <<final, looked, qa, at>> BY <1>2 DEF InputsMove, workerVars
  <2>2. PassIsEarned' BY <2>1 DEF EditorialInv, PassIsEarned, Unselected
  <2> QED BY <2>1, <2>2 DEF EditorialInv, EditorialPlace
<1> QED BY <1>1, <1>2 DEF EditorialOwner

\* A provider is asked only where its attempt has no result in store.
LEMMA EditorialPaid ==
  ASSUME PlaceInv, EditorialInv, EditorialNext
  PROVE  JudgedOnce
<1>1. \A i \in Input : final[i].status \in {"passed", "failed"} => final'[i].status = final[i].status
  BY EditorialStep
<1>2. at = "first" /\ at' = "first_seen" => looked[qa].first = "none"
  BY DEF EditorialNext, EditorialBegins, Measure, EditorialFails, Gate, Reuse, Evaluate, KeepLook, After, InHand,
    Starts, Begins, Goes, Raises
<1>3. at = "second" /\ at' = "second_seen" => looked[qa].second = "none"
  BY DEF EditorialNext, EditorialBegins, Measure, EditorialFails, Gate, Reuse, Evaluate, KeepLook, After, InHand,
    Starts, Begins, Goes, Raises
<1> QED BY <1>1, <1>2, <1>3 DEF JudgedOnce

-----------------------------------------------------------------------------
(* The script. *)

\* A set of numbers that has a bound has a greatest one.
LEMMA Greatest ==
  ASSUME NEW n \in Nat, NEW S \in SUBSET (1..n), S # {}
  PROVE  \E m \in S : \A k \in S : k <= m
<1> DEFINE T == {n + 1 - k : k \in S}
<1>1. T \subseteq Nat /\ T # {}
  <2>1. \A k \in S : n + 1 - k \in Nat OBVIOUS
  <2> QED BY <2>1
<1> HIDE DEF T
<1>2. \E x \in T : \A y \in T : ~(<<y, x>> \in OpToRel(<, Nat))
  BY <1>1, WFMin, NatLessThanWellFounded, Zenon
<1>3. PICK x \in T : \A y \in T : ~(<<y, x>> \in OpToRel(<, Nat)) BY <1>2
<1>4. \A y \in T : ~(y < x)
  <2> SUFFICES ASSUME NEW y \in T, y < x PROVE FALSE OBVIOUS
  <2>1. y \in Nat /\ x \in Nat BY <1>1
  <2>2. <<y, x>> \in OpToRel(<, Nat) BY <2>1, Zenon DEF OpToRel
  <2> QED BY <1>3, <2>2
<1>5. PICK m \in S : x = n + 1 - m BY DEF T
<1>6. ASSUME NEW k \in S PROVE k <= m
  <2>1. n + 1 - k \in T BY DEF T
  <2>2. ~(n + 1 - k < n + 1 - m) BY <1>4, <1>5, <2>1
  <2>3. k \in Int /\ m \in Int BY SMT
  <2> QED BY <2>2, <2>3
<1> QED BY <1>6

\* The newest of some runs, and the last version of one.
LEMMA NewestIs ==
  ASSUME NEW rs \in SUBSET Key, rs # {}
  PROVE  Newest(rs) \in rs /\ \A s \in rs : s <= Newest(rs)
<1>1. \E r \in rs : \A s \in rs : s <= r BY Greatest, WorkerAssumption DEF Key
<1> QED BY <1>1 DEF Newest

LEMMA LatestIs ==
  ASSUME version \in Seq(VersionRow), NEW r, OfRun(r) # {}
  PROVE  Latest(r) \in OfRun(r) /\ \A w \in OfRun(r) : w <= Latest(r)
<1>1. Len(version) \in Nat /\ Version = 1..Len(version) BY DEF Version
<1>2. OfRun(r) \subseteq 1..Len(version) BY <1>1 DEF OfRun
<1>3. \E v \in OfRun(r) : \A w \in OfRun(r) : w <= v BY <1>1, <1>2, Greatest
<1> QED BY <1>3 DEF Latest

LEMMA ScriptRests ==
  ASSUME ScriptInv, key \in Nat, key' \in Nat, key <= key',
         UNCHANGED <<writing, plan, version, favoured, desk>>,
         UNCHANGED <<at, run, edited>> \/ at' \notin ScriptPlace
  PROVE  ScriptInv'
<1>1. VersionsInv' BY DEF ScriptInv, VersionsInv, Version
<1>2. \A s \in Key : s > key' => writing[s] = "none" BY DEF ScriptInv, Key
<1>3. favoured = {} => UndecidedInv' BY DEF ScriptInv, UndecidedInv, Version, ScriptPlace
<1>4. CASE UNCHANGED <<at, run, edited>>
  BY <1>1, <1>2, <1>3, <1>4 DEF ScriptInv, Version, OfRun, Successor, PassLeft, Approved, ScriptPlace
<1>5. CASE at' \notin ScriptPlace
  BY <1>1, <1>2, <1>3, <1>5 DEF ScriptInv, Version, Approved, ScriptPlace
<1> QED BY <1>4, <1>5

\* The run in hand changes its status; no run that waits is older than it.
LEMMA RunWritten ==
  ASSUME ScriptInv, at \in ScriptPlace, NEW status \in RunStatus \ {"none", "approved"}, Writes(status),
         key \in Key
  PROVE  /\ writing' \in [Key -> RunStatus] /\ writing'[run] = status /\ run \in Key
         /\ \A s \in Key : s # run => writing'[s] = writing[s]
         /\ \A s \in Key : s > key => writing'[s] = "none"
         /\ favoured = {} =>
              /\ \A r \in Key : /\ writing'[r] # "approved"
                                /\ writing'[r] = "review" => \A s \in Key : s > r => writing'[s] = "none"
              /\ \A s \in Key : s > run => writing'[s] = "none"
<1>1. /\ writing' \in [Key -> RunStatus] /\ writing'[run] = status /\ run \in Key /\ writing[run] # "none"
      /\ \A s \in Key : s # run => writing'[s] = writing[s]
  BY DEF ScriptInv, Writes
<1>2. \A s \in Key : s \in Nat BY DEF Key
<1>3. ~(run > key) BY <1>1 DEF ScriptInv
<1>4. \A s \in Key : s > key => writing'[s] = "none" BY <1>1, <1>3 DEF ScriptInv
<1>5. ASSUME favoured = {}
      PROVE  /\ \A r \in Key : /\ writing'[r] # "approved"
                               /\ writing'[r] = "review" => \A s \in Key : s > r => writing'[s] = "none"
             /\ \A s \in Key : s > run => writing'[s] = "none"
  <2>1. \A s \in Key : s > run => writing[s] = "none" BY <1>5 DEF ScriptInv, UndecidedInv
  <2>2. \A s \in Key : s > run => writing'[s] = "none" BY <1>1, <1>2, <2>1
  <2>3. \A r \in Key : /\ writing[r] # "approved"
                       /\ writing[r] = "review" => \A s \in Key : s > r => writing[s] = "none"
    BY <1>5 DEF ScriptInv, UndecidedInv
  <2>4. \A r \in Key : writing'[r] # "approved" BY <1>1, <2>3
  <2>5. ASSUME NEW r \in Key, writing'[r] = "review", NEW s \in Key, s > r PROVE writing'[s] = "none"
    <3>1. CASE r = run BY <2>2, <2>5, <3>1
    <3>2. CASE r # run
      <4>1. writing[r] = "review" BY <1>1, <2>5, <3>2
      <4>2. writing[s] = "none" BY <2>3, <2>5, <4>1
      <4> QED BY <1>1, <4>2
    <3> QED BY <3>1, <3>2
  <2> QED BY <2>2, <2>4, <2>5
<1> QED BY <1>1, <1>4, <1>5

\* A version is added to a run whose plan is in store.
LEMMA VersionAdded ==
  ASSUME VersionsInv, NEW x \in VersionRow, version' = Append(version, x), UNCHANGED plan,
         x.run \in plan, x.parent <= Len(version),
         x.pass > 0 => /\ x.parent \in Version /\ version[x.parent].run = x.run
                       /\ Successor(x.parent) = {},
         favoured' \subseteq favoured \cup {Len(version) + 1}
  PROVE  /\ VersionsInv' /\ Len(version) \in Nat
         /\ Version = 1..Len(version) /\ Version' = 1..(Len(version) + 1)
         /\ \A v \in Version : version'[v] = version[v]
         /\ version'[Len(version) + 1] = x
<1> DEFINE n == Len(version)
<1>1. /\ n \in Nat /\ Version = 1..n /\ Version' = 1..(n + 1) /\ version' \in Seq(VersionRow)
      /\ \A v \in Version : version'[v] = version[v]
      /\ version'[n + 1] = x
  BY DEF VersionsInv, Version
<1> HIDE DEF n
<1>2. favoured' \subseteq Version'
  <2>1. favoured' \subseteq 1..n \cup {n + 1} BY <1>1 DEF VersionsInv, n
  <2> QED BY <1>1, <2>1
<1>3. \A v \in Version' : v \in Version \/ v = n + 1 BY <1>1
<1>8. Version \subseteq Version'
  <2>1. 1..n \subseteq 1..(n + 1) BY <1>1
  <2> QED BY <1>1, <2>1
<1>4. \A v \in Version : version[v].parent \in Nat /\ version[v].parent # n + 1
  <2>1. \A v \in Version : version[v] \in VersionRow BY DEF VersionsInv, Version
  <2>2. \A v \in Version : version[v].parent \in Nat /\ version[v].parent < v
    BY <2>1 DEF VersionsInv, VersionRow
  <2> QED BY <1>1, <2>2
<1>5. \A v \in Version' : version'[v].run \in plan /\ version'[v].parent < v
  <2>1. x.parent \in Nat BY DEF VersionRow
  <2>2. x.parent < n + 1 BY <1>1, <2>1 DEF n
  <2> QED BY <1>1, <1>3, <2>2 DEF VersionsInv
<1>6. \A v \in Version' : version'[v].pass > 0 =>
        /\ version'[v].parent \in Version'
        /\ version'[version'[v].parent].run = version'[v].run
  <2> SUFFICES ASSUME NEW v \in Version', version'[v].pass > 0
               PROVE  /\ version'[v].parent \in Version'
                      /\ version'[version'[v].parent].run = version'[v].run
    OBVIOUS
  <2>1. CASE v \in Version
    <3>1. version'[v] = version[v] BY <1>1, <2>1
    <3>2. PICK p : p = version[v].parent OBVIOUS
    <3>3. version[v].pass > 0 BY <3>1
    <3>4. p \in Version /\ version[p].run = version[v].run BY <2>1, <3>2, <3>3 DEF VersionsInv
    <3>5. p \in Version' /\ version'[p] = version[p] BY <1>1, <1>8, <3>4
    <3> QED BY <3>1, <3>2, <3>4, <3>5
  <2>2. CASE v = n + 1
    <3>1. PICK p : p = x.parent OBVIOUS
    <3>2. version'[v] = x BY <1>1, <2>2
    <3>3. p \in Version /\ version[p].run = x.run BY <3>1, <3>2
    <3>4. p \in Version' /\ version'[p] = version[p] BY <1>1, <1>8, <3>3
    <3> QED BY <3>1, <3>2, <3>3, <3>4
  <2> QED BY <1>3, <2>1, <2>2
<1>7. ASSUME NEW v \in Version', NEW w \in Version', version'[v].pass > 0, version'[w].pass > 0,
             version'[v].parent = version'[w].parent
      PROVE  v = w
  <2>1. \A u \in Version : version[u].pass > 0 /\ x.pass > 0 => version[u].parent # x.parent
    BY DEF Successor
  <2>2. CASE v \in Version /\ w \in Version
    BY <1>1, <1>7, <2>2 DEF VersionsInv
  <2>3. CASE v \in Version /\ w = n + 1
    BY <1>1, <1>7, <2>1, <2>3
  <2>4. CASE v = n + 1 /\ w \in Version
    BY <1>1, <1>7, <2>1, <2>4
  <2> QED BY <1>3, <2>2, <2>3, <2>4
<1> QED BY <1>1, <1>2, <1>5, <1>6, <1>7 DEF VersionsInv, n

\* The owner decides on a version: every other field stays.
LEMMA VersionJudged ==
  ASSUME VersionsInv, NEW v \in Version, NEW status \in {"draft", "pending", "approved", "rejected"},
         version' = [version EXCEPT ![v].status = status], UNCHANGED plan, favoured' \subseteq Version
  PROVE  /\ VersionsInv' /\ Version' = Version
         /\ \A w \in Version : /\ version'[w].run = version[w].run /\ version'[w].parent = version[w].parent
                               /\ version'[w].pass = version[w].pass
                               /\ version'[w].status = IF w = v THEN status ELSE version[w].status
<1>0. PICK n \in Nat : n = Len(version) BY DEF VersionsInv
<1>1. /\ version \in [1..n -> VersionRow] /\ Version = 1..n /\ version[v] \in VersionRow
  BY <1>0 DEF VersionsInv, Version
<1>2. PICK x : x = [version[v] EXCEPT !.status = status] OBVIOUS
<1>3. /\ x \in VersionRow /\ x.run = version[v].run /\ x.parent = version[v].parent
      /\ x.pass = version[v].pass /\ x.status = status
  BY <1>1, <1>2 DEF VersionRow
<1>4. version' = [version EXCEPT ![v] = x] BY <1>2
<1>5. /\ version' \in [1..n -> VersionRow] /\ version'[v] = x
      /\ \A w \in Version : w # v => version'[w] = version[w]
  BY <1>1, <1>3, <1>4
<1>6. version' \in Seq(VersionRow) /\ Version' = Version BY <1>1, <1>5 DEF Version
<1>7. \A w \in Version : /\ version'[w].run = version[w].run /\ version'[w].parent = version[w].parent
                         /\ version'[w].pass = version[w].pass
                         /\ version'[w].status = IF w = v THEN status ELSE version[w].status
  BY <1>3, <1>5
<1>8. VersionsInv'
  <2>1. \A u \in Version' : version'[u].run \in plan' /\ version'[u].parent < u
    BY <1>6, <1>7 DEF VersionsInv
  <2>2. \A u \in Version' : version'[u].pass > 0 =>
          /\ version'[u].parent \in Version'
          /\ version'[version'[u].parent].run = version'[u].run
    <3> SUFFICES ASSUME NEW u \in Version, version'[u].pass > 0
                 PROVE  /\ version'[u].parent \in Version
                        /\ version'[version'[u].parent].run = version'[u].run
      BY <1>6
    <3>1. version[u].parent \in Version /\ version[version[u].parent].run = version[u].run
      BY <1>7 DEF VersionsInv
    <3> QED BY <1>7, <3>1
  <2>3. \A u, w \in Version' : version'[u].pass > 0 /\ version'[w].pass > 0
                               /\ version'[u].parent = version'[w].parent => u = w
    BY <1>6, <1>7 DEF VersionsInv
  <2> QED BY <1>6, <2>1, <2>2, <2>3 DEF VersionsInv
<1> QED BY <1>6, <1>7, <1>8

\* The run in hand changes its status, and no version changes.
LEMMA RunMoves ==
  ASSUME ScriptInv, key \in Key, at \in ScriptPlace, NEW status \in RunStatus \ {"none", "approved"}, Writes(status),
         UNCHANGED <<version, favoured, key>>, plan' \in {plan, plan \cup {run}}, desk' \in BOOLEAN,
         run' = run \/ at' \notin ScriptPlace,
         favoured = {} /\ (status # "review" \/ at' \in {"edit", "revised"}) =>
           \A v \in OfRun(run) : version[v].status # "pending",
         at' \in {"compress", "compressed"} => run \notin plan',
         at' \in {"write", "written", "edit", "revised"} => run \in plan',
         at' \in {"write", "written"} => OfRun(run) = {},
         at' \in {"edit", "revised"} =>
           edited' \in OfRun(run) /\ Successor(edited') = {} /\ version[edited'].pass + 1 <= MaxPasses
  PROVE  ScriptInv'
<1>1. /\ writing' \in [Key -> RunStatus] /\ writing'[run] = status /\ run \in Key
      /\ \A s \in Key : s # run => writing'[s] = writing[s]
      /\ \A s \in Key : s > key => writing'[s] = "none"
      /\ favoured = {} =>
           /\ \A r \in Key : /\ writing'[r] # "approved"
                             /\ writing'[r] = "review" => \A s \in Key : s > r => writing'[s] = "none"
           /\ \A s \in Key : s > run => writing'[s] = "none"
  BY RunWritten
<1>2. VersionsInv' /\ Version' = Version BY <1>1 DEF ScriptInv, VersionsInv, Version
<1>3. \A r : OfRun(r)' = OfRun(r) BY DEF OfRun, Version
<1>4. plan' \subseteq Key BY <1>1 DEF ScriptInv
<1>5. /\ \A a, b \in favoured' : a = b
      /\ \A v \in favoured' : Approved(v)' \/ (version'[v].parent # 0 /\ Approved(version[v].parent)')
  BY DEF ScriptInv, Approved
<1>6. ASSUME favoured = {} PROVE UndecidedInv'
  <2>1. UndecidedInv BY <1>6 DEF ScriptInv
  <2>2. ASSUME NEW v \in Version, version[v].status = "pending"
        PROVE  /\ writing'[version[v].run] = "review"
               /\ \A w \in Version : version[w].run = version[v].run => w <= v
    <3>1. /\ writing[version[v].run] = "review"
          /\ \A w \in Version : version[w].run = version[v].run => w <= v
      BY <2>1, <2>2 DEF UndecidedInv
    <3>2. version[v].run \in Key BY DEF ScriptInv, VersionsInv
    <3>3. CASE version[v].run = run
      <4>1. v \in OfRun(run) BY <3>3 DEF OfRun
      <4>2. status = "review" BY <1>6, <2>2, <4>1
      <4> QED BY <1>1, <3>1, <3>3, <4>2
    <3>4. CASE version[v].run # run BY <1>1, <3>1, <3>2, <3>4
    <3> QED BY <3>3, <3>4
  <2>3. at' \in ScriptPlace => \A s \in Key : s > run' => writing'[s] = "none" BY <1>1, <1>6
  <2>4. at' \in {"edit", "revised"} => \A v \in Version : version[v].run = run' => version[v].status # "pending"
    <3> SUFFICES ASSUME at' \in {"edit", "revised"}, NEW v \in Version, version[v].run = run'
                 PROVE  version[v].status # "pending"
      OBVIOUS
    <3>1. run' = run BY DEF ScriptPlace
    <3>2. v \in OfRun(run) BY <3>1 DEF OfRun
    <3> QED BY <1>6, <3>2
  <2>5. \A v \in Version : version[v].status # "approved" BY <2>1 DEF UndecidedInv
  <2> QED BY <1>1, <1>2, <1>6, <2>2, <2>3, <2>4, <2>5 DEF UndecidedInv
<1>7. at' \in ScriptPlace => run' = run /\ run' \in Key /\ writing'[run'] # "none" BY <1>1
<1>8. /\ at' \in {"compress", "compressed"} => run' \notin plan'
      /\ at' \in {"write", "written", "edit", "revised"} => run' \in plan'
      /\ at' \in {"write", "written"} => OfRun(run)' = {}
  <2>1. OfRun(run)' = {v \in Version' : version'[v].run = run'} BY DEF OfRun
  <2>2. run' = run => OfRun(run)' = OfRun(run) BY <2>1 DEF OfRun, Version
  <2> QED BY <1>7, <2>2 DEF ScriptPlace
<1>9. at' \in {"edit", "revised"} =>
        edited' \in OfRun(run)' /\ Successor(edited)' = {} /\ PassLeft(edited)'
  <2>1. run' = run => OfRun(run)' = OfRun(run) BY DEF OfRun, Version
  <2>2. Successor(edited') = {} => Successor(edited)' = {} BY DEF Successor, Version
  <2> QED BY <1>7, <2>1, <2>2 DEF ScriptPlace, PassLeft
<1> QED BY <1>1, <1>2, <1>4, <1>5, <1>6, <1>7, <1>8, <1>9 DEF ScriptInv

LEMMA ScriptBegun ==
  ASSUME PlaceInv, ScriptInv, ScriptBegins
  PROVE  /\ ScriptInv' /\ run' \in Key
         /\ favoured = {} => \A v \in Version : version[v].status = "pending" => version[v].run = run'
<1> DEFINE found == IF writing[key] # "none" THEN key
                    ELSE IF Resumable(key) # {} THEN Newest(Resumable(key)) ELSE key
<1>1. /\ run' = found /\ at' \in {"reporting", "take"}
      /\ writing' = IF writing[found] = "none" THEN [writing EXCEPT ![found] = "pending"] ELSE writing
      /\ UNCHANGED <<plan, version, favoured, desk, key>>
  BY DEF ScriptBegins, Begins
<1>2. /\ writing \in [Key -> RunStatus] /\ key \in Key /\ \A s \in Key : s > key => writing[s] = "none"
      /\ \A s \in Key : s \in Nat
  BY DEF ScriptInv, PlaceInv, Key
<1>3. Resumable(key) # {} =>
        /\ Newest(Resumable(key)) \in Resumable(key) /\ \A s \in Resumable(key) : s <= Newest(Resumable(key))
  BY NewestIs DEF Resumable
<1>4. /\ found \in Key
      /\ found = key \/ writing[found] \in {"review", "approved"}
      /\ found = key /\ writing[found] = "none" => \A r \in Key : writing[r] \notin {"review", "approved"}
      /\ found # key => \A r \in Key : writing[r] \in {"review", "approved"} => r <= found
  BY <1>2, <1>3 DEF Resumable
<1> HIDE DEF found
<1>5. PICK f \in Key : f = found BY <1>4
<1>6. /\ writing' \in [Key -> RunStatus] /\ writing'[f] # "none"
      /\ \A s \in Key : s # f => writing'[s] = writing[s]
      /\ writing[f] # "none" => writing' = writing
      /\ writing[f] = "none" => f = key /\ writing'[f] = "pending"
  BY <1>1, <1>2, <1>4, <1>5 DEF RunStatus
<1>7. \A s \in Key : s > key => writing'[s] = "none" BY <1>2, <1>6
<1>8. VersionsInv' /\ Version' = Version BY <1>1 DEF ScriptInv, VersionsInv, Version
<1>9. ASSUME favoured = {}
      PROVE  UndecidedInv' /\ \A v \in Version : version[v].status = "pending" => version[v].run = run'
  <2>1. UndecidedInv BY <1>9 DEF ScriptInv
  <2>2. \A r \in Key : /\ writing[r] # "approved"
                       /\ writing[r] = "review" => \A s \in Key : s > r => writing[s] = "none"
    BY <2>1 DEF UndecidedInv
  <2>3. \A s \in Key : s > f => writing'[s] = "none"
    <3>1. CASE f = key BY <1>7, <3>1
    <3>2. CASE f # key
      <4>1. writing[f] = "review" /\ writing' = writing BY <1>4, <1>5, <1>6, <2>2, <3>2
      <4> QED BY <2>2, <4>1
    <3> QED BY <3>1, <3>2
  <2>4. \A r \in Key : writing'[r] # "approved" BY <1>6, <2>2
  <2>5. ASSUME NEW r \in Key, writing'[r] = "review" PROVE writing[r] = "review" /\ writing' = writing
    <3>1. writing[f] # "none"
      <4> SUFFICES ASSUME writing[f] = "none" PROVE FALSE OBVIOUS
      <4>1. f = key /\ writing'[f] = "pending" BY <1>6
      <4>2. r # f BY <2>5, <4>1
      <4>3. writing[r] = "review" BY <1>6, <2>5, <4>2
      <4> QED BY <1>4, <1>5, <4>1, <4>3
    <3> QED BY <1>6, <2>5, <3>1
  <2>6. ASSUME NEW v \in Version, version[v].status = "pending"
        PROVE  /\ writing'[version[v].run] = "review" /\ version[v].run = f
               /\ \A w \in Version : version[w].run = version[v].run => w <= v
    <3>1. PICK r : r = version[v].run OBVIOUS
    <3>2. r \in Key BY <3>1 DEF ScriptInv, VersionsInv
    <3>3. /\ writing[r] = "review"
          /\ \A w \in Version : version[w].run = r => w <= v
      BY <2>1, <2>6, <3>1 DEF UndecidedInv
    <3>4. \A s \in Key : s > r => writing[s] = "none" BY <2>2, <3>2, <3>3
    <3>5. writing[f] # "none"
      <4> SUFFICES ASSUME writing[f] = "none" PROVE FALSE OBVIOUS
      <4>1. f = key BY <1>6
      <4> QED BY <1>4, <1>5, <3>2, <3>3, <4>1
    <3>6. ~(f > r) BY <3>4, <3>5
    <3>7. ~(r > f)
      <4>1. CASE f = key BY <1>2, <3>2, <3>3, <4>1
      <4>2. CASE f # key
        <5>1. r <= f BY <1>4, <1>5, <3>2, <3>3, <4>2
        <5> QED BY <1>2, <3>2, <5>1
      <4> QED BY <4>1, <4>2
    <3>8. r = f BY <1>2, <3>2, <3>6, <3>7
    <3>9. writing'[r] = "review" BY <1>6, <3>3, <3>5
    <3> QED BY <3>1, <3>3, <3>8, <3>9
  <2>7. \A v \in Version : version[v].status # "approved" BY <2>1 DEF UndecidedInv
  <2>8. UndecidedInv' BY <1>1, <1>5, <1>8, <2>2, <2>3, <2>4, <2>5, <2>6, <2>7 DEF UndecidedInv
  <2> QED BY <1>1, <1>5, <2>6, <2>8
<1>10. ScriptInv'
  <2>1. /\ \A a, b \in favoured' : a = b
        /\ \A v \in favoured' : Approved(v)' \/ (version'[v].parent # 0 /\ Approved(version[v].parent)')
    BY <1>1 DEF ScriptInv, Approved
  <2>2. run' \in Key /\ writing'[run'] # "none" BY <1>1, <1>5, <1>6
  <2>3. plan' \subseteq Key /\ desk' \in BOOLEAN BY <1>1 DEF ScriptInv
  <2>4. at' \notin {"compress", "compressed", "write", "written", "edit", "revised"} BY <1>1
  <2>5. \A s \in Key : s > key' => writing'[s] = "none" BY <1>1, <1>7
  <2>6. favoured' = {} => UndecidedInv' BY <1>1, <1>9
  <2> QED BY <1>6, <1>8, <2>1, <2>2, <2>3, <2>4, <2>5, <2>6 DEF ScriptInv
<1> QED BY <1>1, <1>5, <1>9, <1>10

\* The fields of a version in store.
LEMMA VersionFields ==
  ASSUME VersionsInv, NEW v \in Version
  PROVE  /\ Len(version) \in Nat /\ v \in 1..Len(version) /\ v \in Nat
         /\ version[v].parent \in Nat /\ version[v].parent < v
         /\ version[v].parent # 0 => version[v].parent \in Version
         /\ version[v].pass \in Nat /\ version[v].pass <= MaxPasses
<1>1. Len(version) \in Nat /\ Version = 1..Len(version) BY DEF VersionsInv, Version
<1>2. version[v] \in VersionRow BY DEF VersionsInv, Version
<1>3. version[v].parent \in Nat /\ version[v].pass \in 0..MaxPasses BY <1>2 DEF VersionRow
<1>4. version[v].parent < v BY DEF VersionsInv
<1>5. version[v].pass \in Nat /\ version[v].pass <= MaxPasses BY <1>3, ScriptAssumption
<1>6. version[v].parent # 0 => version[v].parent \in 1..Len(version) BY <1>1, <1>3, <1>4
<1> QED BY <1>1, <1>3, <1>4, <1>5, <1>6

\* A version that may be favoured still may where no approval is taken back.
LEMMA StillFavoured ==
  ASSUME ScriptInv,
         \A v \in Version : /\ version'[v].parent = version[v].parent
                            /\ version[v].status = "approved" => version'[v].status = "approved"
  PROVE  \A v \in favoured : Approved(v)' \/ (version'[v].parent # 0 /\ Approved(version[v].parent)')
<1> SUFFICES ASSUME NEW v \in favoured
             PROVE  Approved(v)' \/ (version'[v].parent # 0 /\ Approved(version[v].parent)')
  OBVIOUS
<1>1. v \in Version BY DEF ScriptInv, VersionsInv
<1>2. CASE Approved(v) BY <1>1, <1>2 DEF Approved
<1>3. CASE version[v].parent # 0 /\ Approved(version[v].parent)
  <2>1. PICK p : p = version[v].parent OBVIOUS
  <2>2. p \in Version BY <1>1, <1>3, <2>1, VersionFields DEF ScriptInv
  <2>3. version'[v].parent = p /\ version[p].status = "approved" BY <1>1, <1>3, <2>1 DEF Approved
  <2>4. version'[p].status = "approved" BY <2>2, <2>3
  <2> QED BY <1>3, <2>1, <2>3, <2>4 DEF Approved
<1> QED BY <1>2, <1>3 DEF ScriptInv

\* The activity of the script.
LEMMA ScriptStep ==
  ASSUME PlaceInv, ScriptInv, ScriptNext
  PROVE  ScriptInv'
<1>0. /\ key \in Key /\ key \in Nat /\ version \in Seq(VersionRow) /\ VersionsInv
      /\ \A v \in Version : version[v].run \in plan
  BY DEF PlaceInv, Key, ScriptInv, VersionsInv
<1>1. CASE ScriptBegins BY <1>1, ScriptBegun
\* A last version that is not pending leaves none of its run pending.
<1>2. ASSUME favoured = {}, OfRun(run) # {}, version[Latest(run)].status # "pending"
      PROVE  \A v \in OfRun(run) : version[v].status # "pending"
  <2> SUFFICES ASSUME NEW v \in OfRun(run), version[v].status = "pending" PROVE FALSE OBVIOUS
  <2>1. Latest(run) \in OfRun(run) /\ \A w \in OfRun(run) : w <= Latest(run) BY <1>0, <1>2, LatestIs
  <2>2. \A w \in OfRun(run) : w <= v BY <1>2 DEF ScriptInv, UndecidedInv, OfRun
  <2>3. v \in Int /\ Latest(run) \in Int BY <1>0, <2>1 DEF OfRun, Version
  <2>4. v = Latest(run) BY <2>1, <2>2, <2>3
  <2> QED BY <1>2, <2>4
<1>3. CASE TakeNext
  <2>1. CASE run \notin plan
    <3>1. at = "take" /\ at' = "compress" /\ Writes("compressing") /\ desk' = FALSE
          /\ UNCHANGED <<plan, version, favoured, key, run>>
      BY <1>3, <2>1 DEF TakeNext, Goes
    <3>2. OfRun(run) = {} BY <1>0, <2>1 DEF OfRun
    <3> QED BY <1>0, <2>1, <3>1, <3>2, RunMoves DEF ScriptPlace, RunStatus
  <2>2. CASE run \in plan
    <3>1. at = "take" /\ at' = "write" /\ Writes("writing") /\ desk' = FALSE /\ OfRun(run) = {}
          /\ UNCHANGED <<plan, version, favoured, key, run>>
      BY <1>3, <2>2 DEF TakeNext, Goes
    <3> QED BY <1>0, <2>2, <3>1, RunMoves DEF ScriptPlace, RunStatus
  <2> QED BY <2>1, <2>2
<1>4. CASE Waits
  <2>1. at = "take" /\ at' = "reporting" /\ UNCHANGED <<plan, version, favoured, key, run>>
    BY <1>4 DEF Waits, Goes
  <2>2. CASE UNCHANGED <<writing, desk>> BY <1>0, <2>1, <2>2, ScriptRests DEF ScriptPlace
  <2>3. CASE Writes("review") /\ desk' = TRUE
    BY <1>0, <2>1, <2>3, RunMoves DEF ScriptPlace, RunStatus
  <2> QED BY <1>4, <2>2, <2>3 DEF Waits
<1>5. CASE StartPass
  <2>1. /\ at = "take" /\ at' = "edit" /\ Writes("editing") /\ desk' = FALSE /\ edited' = Latest(run)
        /\ UNCHANGED <<plan, version, favoured, key, run>> /\ run \in plan /\ OfRun(run) # {}
        /\ version[Latest(run)].status \in {"draft", "rejected"} /\ PassLeft(Latest(run))
    BY <1>5 DEF StartPass, Goes, LastVersion
  <2>2. Latest(run) \in OfRun(run) /\ \A w \in OfRun(run) : w <= Latest(run) BY <1>0, <2>1, LatestIs
  <2>3. Successor(Latest(run)) = {}
    <3> SUFFICES ASSUME NEW w \in Successor(Latest(run)) PROVE FALSE OBVIOUS
    <3>1. w \in Version /\ version[w].parent = Latest(run) /\ version[w].pass > 0 BY DEF Successor
    <3>2. version[Latest(run)].run = version[w].run BY <3>1 DEF ScriptInv, VersionsInv
    <3>3. w \in OfRun(run) BY <2>2, <3>1, <3>2 DEF OfRun
    <3>4. Latest(run) < w BY <3>1 DEF ScriptInv, VersionsInv
    <3>5. w \in Int /\ Latest(run) \in Int BY <1>0, <2>2, <3>1 DEF OfRun, Version
    <3> QED BY <2>2, <3>3, <3>4, <3>5
  <2>4. favoured = {} => \A v \in OfRun(run) : version[v].status # "pending" BY <1>2, <2>1
  <2>5. version[edited'].pass + 1 <= MaxPasses BY <2>1 DEF PassLeft
  <2> QED BY <1>0, <2>1, <2>2, <2>3, <2>4, <2>5, RunMoves DEF ScriptPlace, RunStatus
<1>6. CASE Exhausted
  <2>1. /\ at = "take" /\ at' = "idle" /\ Writes("failed") /\ desk' = FALSE
        /\ UNCHANGED <<plan, version, favoured, key>> /\ OfRun(run) # {}
        /\ version[Latest(run)].status \in {"draft", "rejected"}
    BY <1>6 DEF Exhausted, LastVersion
  <2>2. favoured = {} => \A v \in OfRun(run) : version[v].status # "pending" BY <1>2, <2>1
  <2> QED BY <1>0, <2>1, <2>2, RunMoves DEF ScriptPlace, RunStatus
<1>7. CASE Ask
  <2>1. /\ UNCHANGED <<writing, plan, version, favoured, desk, run, edited, key>>
        /\ <<at, at'>> \in {<<"compress", "compressed">>, <<"write", "written">>, <<"edit", "revised">>}
    BY <1>7 DEF Ask, Goes, scriptVars
  <2>2. VersionsInv' /\ Version' = Version /\ OfRun(run)' = OfRun(run)
        /\ Successor(edited)' = Successor(edited) /\ PassLeft(edited)' = PassLeft(edited)
    BY <1>0, <2>1 DEF VersionsInv, Version, OfRun, Successor, PassLeft
  <2>3. favoured = {} => UndecidedInv'
    BY <2>1, <2>2 DEF ScriptInv, UndecidedInv, ScriptPlace
  <2> QED BY <2>1, <2>2, <2>3 DEF ScriptInv, Approved, ScriptPlace
<1>8. CASE KeepPlan
  <2>1. /\ at = "compressed" /\ at' = "take" /\ Writes("compressed") /\ plan' = plan \cup {run}
        /\ UNCHANGED <<version, favoured, desk, key, run>>
    BY <1>8 DEF KeepPlan, Goes
  <2>2. run \notin plan /\ desk \in BOOLEAN BY <2>1 DEF ScriptInv
  <2>3. OfRun(run) = {} BY <1>0, <2>2 DEF OfRun
  <2> QED BY <1>0, <2>1, <2>2, <2>3, RunMoves DEF ScriptPlace, RunStatus
<1>9. CASE KeepDraft
  <2>1. /\ at = "written" /\ at' = "take" /\ UNCHANGED <<writing, plan, favoured, desk, key, run>>
    BY <1>9 DEF KeepDraft, Goes
  <2>2. PICK x : x = NewRow("draft", 0, 0) OBVIOUS
  <2>3. version' = Append(version, x) BY <1>9, <2>2 DEF KeepDraft, Adds
  <2>4. run \in Key /\ writing[run] # "none" /\ run \in plan /\ OfRun(run) = {}
    BY <2>1 DEF ScriptInv, ScriptPlace
  <2>5. x \in VersionRow /\ x.run = run /\ x.parent = 0 /\ x.pass = 0 /\ x.status = "draft"
    BY <2>2, <2>4, ScriptAssumption DEF NewRow, VersionRow
  <2>6. PICK n : n = Len(version) OBVIOUS
  <2>7. /\ VersionsInv' /\ n \in Nat /\ Version = 1..n /\ Version' = 1..(n + 1)
        /\ \A v \in Version : version'[v] = version[v]
        /\ version'[n + 1] = x
    <3>1. x.parent <= Len(version) BY <1>0, <2>5
    <3> QED BY <1>0, <2>1, <2>3, <2>4, <2>5, <2>6, <3>1, VersionAdded
  <2>8. \A v \in Version' : v \in Version \/ v = n + 1 BY <2>7
  <2>9. \A v \in favoured' : Approved(v)' \/ (version'[v].parent # 0 /\ Approved(version[v].parent)')
    BY <2>1, <2>7, StillFavoured
  <2>10. ASSUME favoured = {} PROVE UndecidedInv'
    <3>1. UndecidedInv BY <1>0, <2>10 DEF ScriptInv
    <3>2. \A v \in Version' : version'[v].status # "approved" BY <2>5, <2>7, <2>8, <3>1 DEF UndecidedInv
    <3>3. ASSUME NEW v \in Version', version'[v].status = "pending"
          PROVE  /\ writing'[version'[v].run] = "review"
                 /\ \A w \in Version' : version'[w].run = version'[v].run => w <= v
      <4>1. v \in Version BY <2>5, <2>7, <2>8, <3>3
      <4>2. version'[v] = version[v] BY <2>7, <4>1
      <4>3. version[v].run # run BY <2>4, <4>1 DEF OfRun
      <4>4. ASSUME NEW w \in Version', version'[w].run = version'[v].run PROVE w <= v
        <5>1. w \in Version BY <2>5, <2>7, <2>8, <4>2, <4>3, <4>4
        <5>2. version[w].run = version[v].run BY <2>7, <4>2, <4>4, <5>1
        <5> QED BY <3>1, <3>3, <4>1, <4>2, <5>1, <5>2 DEF UndecidedInv
      <4>5. writing'[version'[v].run] = "review" BY <2>1, <3>1, <3>3, <4>1, <4>2 DEF UndecidedInv
      <4> QED BY <4>4, <4>5
    <3>4. \A r \in Key : /\ writing'[r] # "approved"
                         /\ writing'[r] = "review" => \A s \in Key : s > r => writing'[s] = "none"
      BY <2>1, <3>1 DEF UndecidedInv
    <3>5. \A s \in Key : s > run' => writing'[s] = "none" BY <2>1, <3>1 DEF UndecidedInv, ScriptPlace
    <3> QED BY <2>1, <3>2, <3>3, <3>4, <3>5 DEF UndecidedInv
  <2> QED BY <2>1, <2>4, <2>7, <2>9, <2>10 DEF ScriptInv
<1>11. CASE ScriptFails
  <2>1. /\ at \in {"compress", "write", "edit"} /\ at' = "idle" /\ UNCHANGED <<plan, version, favoured, desk, key>>
        /\ UNCHANGED writing \/ (at # "edit" /\ Writes("failed"))
    BY <1>11 DEF ScriptFails, Raises
  <2>2. CASE UNCHANGED writing BY <1>0, <2>1, <2>2, ScriptRests DEF ScriptPlace
  <2>3. CASE at # "edit" /\ Writes("failed")
    <3>1. OfRun(run) = {}
      <4>1. CASE at = "compress" BY <1>0, <4>1 DEF OfRun, ScriptInv
      <4>2. CASE at = "write" BY <4>2 DEF ScriptInv
      <4> QED BY <2>1, <2>3, <4>1, <4>2
    <3>2. desk \in BOOLEAN BY DEF ScriptInv
    <3> QED BY <1>0, <2>1, <2>3, <3>1, <3>2, RunMoves DEF ScriptPlace, RunStatus
  <2> QED BY <2>1, <2>2, <2>3
<1>10. CASE KeepPass
  <2>1. /\ at = "revised" /\ at' = "reporting" /\ UNCHANGED <<plan, favoured, key, run>>
        /\ Writes("review") /\ desk' = TRUE
    BY <1>10 DEF KeepPass, Goes
  <2>2. PICK x : x = NewRow("pending", edited, version[edited].pass + 1) OBVIOUS
  <2>3. version' = Append(version, x) BY <1>10, <2>2 DEF KeepPass, Adds
  <2>4. /\ run \in Key /\ run \in plan /\ edited \in OfRun(run) /\ Successor(edited) = {} /\ PassLeft(edited)
    BY <2>1 DEF ScriptInv, ScriptPlace
  <2>5. /\ edited \in Version /\ version[edited].run = run /\ version[edited].pass \in Nat
        /\ version[edited].pass + 1 <= MaxPasses /\ edited \in Nat /\ edited <= Len(version) /\ Len(version) \in Nat
    BY <1>0, <2>4, VersionFields DEF OfRun, PassLeft
  <2>6. /\ x \in VersionRow /\ x.run = run /\ x.parent = edited /\ x.pass > 0 /\ x.status = "pending"
    BY <2>2, <2>4, <2>5, ScriptAssumption DEF NewRow, VersionRow
  <2>7. PICK n : n = Len(version) OBVIOUS
  <2>8. /\ VersionsInv' /\ n \in Nat /\ Version = 1..n /\ Version' = 1..(n + 1)
        /\ \A v \in Version : version'[v] = version[v]
        /\ version'[n + 1] = x
    BY <1>0, <2>1, <2>3, <2>4, <2>5, <2>6, <2>7, VersionAdded
  <2>9. \A v \in Version' : v \in Version \/ v = n + 1 BY <2>8
  <2>10. /\ writing' \in [Key -> RunStatus] /\ writing'[run] = "review"
         /\ \A s \in Key : s # run => writing'[s] = writing[s]
         /\ \A s \in Key : s > key => writing'[s] = "none"
         /\ favoured = {} =>
              /\ \A r \in Key : /\ writing'[r] # "approved"
                                /\ writing'[r] = "review" => \A s \in Key : s > r => writing'[s] = "none"
              /\ \A s \in Key : s > run => writing'[s] = "none"
    BY <1>0, <2>1, RunWritten DEF ScriptPlace, RunStatus
  <2>11. \A v \in favoured' : Approved(v)' \/ (version'[v].parent # 0 /\ Approved(version[v].parent)')
    BY <2>1, <2>8, StillFavoured
  <2>12. ASSUME favoured = {} PROVE UndecidedInv'
    <3>1. UndecidedInv BY <1>0, <2>12 DEF ScriptInv
    <3>2. \A v \in Version' : version'[v].status # "approved" BY <2>6, <2>8, <2>9, <3>1 DEF UndecidedInv
    <3>3. ASSUME NEW v \in Version', version'[v].status = "pending"
          PROVE  /\ writing'[version'[v].run] = "review"
                 /\ \A w \in Version' : version'[w].run = version'[v].run => w <= v
      <4>1. CASE v = n + 1
        <5>1. \A w \in Version' : w <= v BY <2>8, <4>1
        <5> QED BY <2>6, <2>8, <2>10, <4>1, <5>1
      <4>2. CASE v \in Version
        <5>1. version'[v] = version[v] BY <2>8, <4>2
        <5>2. version[v].run # run BY <2>1, <3>1, <3>3, <4>2, <5>1 DEF UndecidedInv
        <5>3. version[v].run \in Key BY <4>2 DEF ScriptInv, VersionsInv
        <5>4. writing'[version'[v].run] = "review" BY <2>10, <3>1, <3>3, <4>2, <5>1, <5>2, <5>3 DEF UndecidedInv
        <5>5. ASSUME NEW w \in Version', version'[w].run = version'[v].run PROVE w <= v
          <6>1. w \in Version BY <2>6, <2>8, <2>9, <5>1, <5>2, <5>5
          <6>2. version[w].run = version[v].run BY <2>8, <5>1, <5>5, <6>1
          <6> QED BY <3>1, <3>3, <4>2, <5>1, <6>1, <6>2 DEF UndecidedInv
        <5> QED BY <5>4, <5>5
      <4> QED BY <2>9, <4>1, <4>2
    <3>4. at' \notin ScriptPlace BY <2>1 DEF ScriptPlace
    <3> QED BY <2>1, <2>10, <2>12, <3>2, <3>3, <3>4 DEF UndecidedInv
  <2>13. desk' \in BOOLEAN /\ at' \notin ScriptPlace /\ plan' \subseteq Key
    BY <2>1 DEF ScriptInv, ScriptPlace
  <2> QED BY <2>1, <2>8, <2>10, <2>11, <2>12, <2>13 DEF ScriptInv, ScriptPlace
<1> QED BY <1>1, <1>3, <1>4, <1>5, <1>6, <1>7, <1>8, <1>9, <1>10, <1>11 DEF ScriptNext

\* The owner opines on a version, whatever the activity is doing.
LEMMA ScriptOwned ==
  ASSUME PlaceInv, ScriptInv, ScriptOwner
  PROVE  ScriptInv'
<1>0. /\ key \in Key /\ VersionsInv /\ favoured \subseteq Version
  BY DEF PlaceInv, ScriptInv, VersionsInv
\* A decision changes the status of one version alone.
<1>1. ASSUME NEW v \in Version, NEW status \in {"approved", "rejected"},
             version' = [version EXCEPT ![v].status = status],
             UNCHANGED <<at, key, plan, run, edited>>, favoured' \subseteq Version, desk' \in BOOLEAN,
             \/ UNCHANGED writing
             \/ writing[version[v].run] # "none" /\ writing' = [writing EXCEPT ![version[v].run] = "approved"],
             \A a, b \in favoured' : a = b,
             \A w \in favoured' : Approved(w)' \/ (version'[w].parent # 0 /\ Approved(version[w].parent)'),
             favoured' = {} => UndecidedInv'
      PROVE  ScriptInv'
  <2>1. /\ VersionsInv' /\ Version' = Version
        /\ \A w \in Version : /\ version'[w].run = version[w].run /\ version'[w].parent = version[w].parent
                              /\ version'[w].pass = version[w].pass
                              /\ version'[w].status = IF w = v THEN status ELSE version[w].status
    <3>1. status \in {"draft", "pending", "approved", "rejected"} BY <1>1
    <3>2. /\ VersionsInv /\ version' = [version EXCEPT ![v].status = status]
          /\ UNCHANGED plan /\ favoured' \subseteq Version
      BY <1>0, <1>1
    <3> QED BY <3>1, <3>2, VersionJudged
  <2>2. /\ writing' \in [Key -> RunStatus]
        /\ \A s \in Key : writing'[s] = "none" <=> writing[s] = "none"
    <3>1. PICK r : r = version[v].run OBVIOUS
    <3>2. r \in Key BY <3>1 DEF ScriptInv, VersionsInv
    <3>3. UNCHANGED writing \/ (writing[r] # "none" /\ writing' = [writing EXCEPT ![r] = "approved"]) BY <1>1, <3>1
    <3> QED BY <3>2, <3>3 DEF ScriptInv, RunStatus
  <2>3. \A r : OfRun(r)' = OfRun(r)
    <3>1. \A r : {w \in Version : version'[w].run = r} = {w \in Version : version[w].run = r} BY <2>1, Zenon
    <3> QED BY <2>1, <3>1 DEF OfRun
  <2>4. OfRun(run)' = OfRun(run)
    <3>1. OfRun(run)' = {w \in Version' : version'[w].run = run'} BY DEF OfRun
    <3>2. {w \in Version : version'[w].run = run} = {w \in Version : version[w].run = run} BY <2>1, Zenon
    <3> QED BY <1>1, <2>1, <3>1, <3>2 DEF OfRun
  <2>5. at \in {"edit", "revised"} => Successor(edited)' = {} /\ PassLeft(edited)'
    <3> SUFFICES ASSUME at \in {"edit", "revised"} PROVE Successor(edited)' = {} /\ PassLeft(edited)' OBVIOUS
    <3>1. edited \in Version /\ Successor(edited) = {} /\ PassLeft(edited) BY DEF ScriptInv, OfRun
    <3>2. \A w \in Version' : ~(version'[w].parent = edited' /\ version'[w].pass > 0)
      BY <1>1, <2>1, <3>1 DEF Successor
    <3>3. Successor(edited)' = {} BY <3>2 DEF Successor
    <3>4. version'[edited'].pass = version[edited].pass BY <1>1, <2>1, <3>1
    <3> QED BY <3>1, <3>3, <3>4 DEF PassLeft
  <2> QED BY <1>1, <2>1, <2>2, <2>4, <2>5 DEF ScriptInv, ScriptPlace
<1>2. ASSUME NEW v \in Version, SelectScript(v) PROVE ScriptInv'
  <2>1. /\ version' = [version EXCEPT ![v].status = "approved"]
        /\ UNCHANGED <<at, key, plan, run, edited>> /\ favoured' = {v} /\ desk' = FALSE
        /\ \/ UNCHANGED writing
           \/ writing[version[v].run] # "none" /\ writing' = [writing EXCEPT ![version[v].run] = "approved"]
    BY <1>2 DEF SelectScript, Opines, InsteadOf, workerVars
  <2>2. version'[v].status = "approved"
    <3>1. PICK status \in {"draft", "pending", "approved", "rejected"} : status = "approved" OBVIOUS
    <3>2. /\ VersionsInv /\ version' = [version EXCEPT ![v].status = status]
          /\ UNCHANGED plan /\ favoured' \subseteq Version
      BY <1>0, <2>1, <3>1
    <3>3. /\ VersionsInv' /\ Version' = Version
          /\ \A w \in Version : /\ version'[w].run = version[w].run /\ version'[w].parent = version[w].parent
                                /\ version'[w].pass = version[w].pass
                                /\ version'[w].status = IF w = v THEN status ELSE version[w].status
      BY <3>2, VersionJudged
    <3> QED BY <3>1, <3>3
  <2>3. \A w \in favoured' : Approved(w)' \/ (version'[w].parent # 0 /\ Approved(version[w].parent)')
    BY <2>1, <2>2 DEF Approved
  <2>4. \A a, b \in favoured' : a = b BY <2>1
  <2>5. favoured' \subseteq Version /\ favoured' # {} BY <2>1
  <2> QED BY <1>1, <2>1, <2>3, <2>4, <2>5
<1>3. ASSUME NEW v \in Version, RejectScript(v) PROVE ScriptInv'
  <2>1. /\ version' = [version EXCEPT ![v].status = "rejected"] /\ v \notin favoured /\ version[v].status # "approved"
        /\ UNCHANGED <<at, key, plan, run, edited, writing, favoured, desk>>
    BY <1>3 DEF RejectScript, Opines, Approved, workerVars
  <2>2. /\ Version' = Version
        /\ \A w \in Version : /\ version'[w].run = version[w].run /\ version'[w].parent = version[w].parent
                              /\ version'[w].status = IF w = v THEN "rejected" ELSE version[w].status
    BY <1>0, <2>1, VersionJudged
  <2>3. \A w \in favoured' : Approved(w)' \/ (version'[w].parent # 0 /\ Approved(version[w].parent)')
    BY <2>1, <2>2, StillFavoured
  <2>4. ASSUME favoured = {} PROVE UndecidedInv'
    <3>1. UndecidedInv BY <2>4 DEF ScriptInv
    <3>2. \A w \in Version' : version'[w].status \in {"approved", "pending"} => version'[w].status = version[w].status
      BY <2>2
    <3>3. \A w \in Version' : version'[w].status = "pending" =>
            /\ writing'[version'[w].run] = "review"
            /\ \A u \in Version' : version'[u].run = version'[w].run => u <= w
      BY <2>1, <2>2, <3>1, <3>2 DEF UndecidedInv
    <3>4. at' \in {"edit", "revised"} => \A w \in Version' : version'[w].run = run' => version'[w].status # "pending"
      BY <2>1, <2>2, <3>1, <3>2 DEF UndecidedInv
    <3> QED BY <2>1, <2>2, <3>1, <3>2, <3>3, <3>4 DEF UndecidedInv, ScriptPlace
  <2>5. desk' \in BOOLEAN /\ \A a, b \in favoured' : a = b BY <2>1 DEF ScriptInv
  <2> QED BY <1>0, <1>1, <2>1, <2>3, <2>4, <2>5
<1>4. ASSUME NEW v \in Version, ReviseScript(v) PROVE ScriptInv'
  <2>1. /\ version' = Append(version, [run |-> version[v].run, status |-> "draft", parent |-> v, pass |-> 0])
        /\ UNCHANGED <<at, key, plan, run, edited, writing, desk>>
        /\ favoured' = {Len(version) + 1} /\ version[v].status = "approved"
    BY <1>4 DEF ReviseScript, Opines, Approved, workerVars
  <2>2. PICK x : x = [run |-> version[v].run, status |-> "draft", parent |-> v, pass |-> 0] OBVIOUS
  <2>3. v \in Nat /\ v \in 1..Len(version) /\ Len(version) \in Nat BY <1>0, VersionFields
  <2>4. version[v].run \in plan /\ version[v].run \in Key BY DEF ScriptInv, VersionsInv
  <2>5. /\ x \in VersionRow /\ x.run = version[v].run /\ x.parent = v /\ x.pass = 0
    BY <2>2, <2>3, <2>4, ScriptAssumption DEF VersionRow
  <2>6. PICK n : n = Len(version) OBVIOUS
  <2>7. /\ VersionsInv' /\ Version = 1..n /\ Version' = 1..(n + 1)
        /\ \A w \in Version : version'[w] = version[w]
        /\ version'[n + 1] = x
    <3>1. x.parent <= Len(version) /\ x.run \in plan /\ ~(x.pass > 0) BY <2>3, <2>4, <2>5
    <3>2. favoured' \subseteq favoured \cup {Len(version) + 1} BY <2>1
    <3>3. version' = Append(version, x) /\ UNCHANGED plan BY <2>1, <2>2
    <3> QED BY <1>0, <2>5, <2>6, <3>1, <3>2, <3>3, VersionAdded
  <2>8. \A w \in Version' : w \in Version \/ w = n + 1 BY <2>3, <2>6, <2>7
  <2>9. \A w \in favoured' : Approved(w)' \/ (version'[w].parent # 0 /\ Approved(version[w].parent)')
    <3>1. version'[v].status = "approved" BY <2>1, <2>7
    <3>2. version'[n + 1].parent = v /\ v # 0 BY <2>3, <2>5, <2>7
    <3> QED BY <2>1, <2>6, <3>1, <3>2 DEF Approved
  <2>10. at \in {"write", "written"} => OfRun(run)' = {}
    <3> SUFFICES ASSUME at \in {"write", "written"}, NEW w \in Version', version'[w].run = run PROVE FALSE
      BY <2>1 DEF OfRun
    <3>1. \A u \in Version : version[u].run # run BY DEF ScriptInv, OfRun
    <3> QED BY <2>5, <2>7, <2>8, <3>1
  <2>11. at \in {"edit", "revised"} => edited' \in OfRun(run)' /\ Successor(edited)' = {} /\ PassLeft(edited)'
    <3> SUFFICES ASSUME at \in {"edit", "revised"}
                 PROVE  edited' \in OfRun(run)' /\ Successor(edited)' = {} /\ PassLeft(edited)'
      OBVIOUS
    <3>1. edited \in Version /\ version[edited].run = run /\ Successor(edited) = {} /\ PassLeft(edited)
      BY DEF ScriptInv, OfRun
    <3>2. edited \in Version' /\ version'[edited] = version[edited]
      <4>1. 1..n \subseteq 1..(n + 1) BY <2>3, <2>6
      <4> QED BY <2>7, <3>1, <4>1
    <3>3. edited' \in OfRun(run)' BY <2>1, <3>1, <3>2 DEF OfRun
    <3>4. \A w \in Version' : ~(version'[w].parent = edited' /\ version'[w].pass > 0)
      <4>1. \A w \in Version : ~(version[w].parent = edited /\ version[w].pass > 0) BY <3>1 DEF Successor
      <4>2. \A w \in Version : ~(version'[w].parent = edited /\ version'[w].pass > 0) BY <2>7, <4>1
      <4>3. ~(version'[n + 1].pass > 0) BY <2>5, <2>7
      <4> QED BY <2>1, <2>8, <4>2, <4>3
    <3>5. Successor(edited)' = {} BY <3>4 DEF Successor
    <3>6. PassLeft(edited)' BY <2>1, <3>1, <3>2 DEF PassLeft
    <3> QED BY <3>3, <3>5, <3>6
  <2>12. favoured' # {} /\ \A a, b \in favoured' : a = b BY <2>1
  <2> QED BY <2>1, <2>7, <2>9, <2>10, <2>11, <2>12 DEF ScriptInv, ScriptPlace
<1> QED BY <1>2, <1>3, <1>4 DEF ScriptOwner

\* A provider is asked for what the run lacks, and the run that waits is the one taken up.
LEMMA ScriptPaid ==
  ASSUME PlaceInv, ScriptInv, ScriptNext
  PROVE  ScriptKept
<1>1. /\ at = "compress" => run \notin plan
      /\ at = "write" => OfRun(run) = {}
      /\ at = "edit" => Successor(edited) = {}
  BY DEF ScriptInv
<1>2. at = "idle" => ScriptBegins
  BY DEF ScriptNext, TakeNext, Waits, LastVersion, StartPass, Exhausted, Ask, KeepPlan, KeepDraft, KeepPass,
    ScriptFails, Goes
<1>3. at = "idle" /\ favoured = {} =>
        \A v \in Version : version[v].status = "pending" => version[v].run = run'
  BY <1>2, ScriptBegun
<1> QED BY <1>1, <1>3 DEF ScriptKept

-----------------------------------------------------------------------------
(* All of them. *)

LEMMA StagesInit ==
  ASSUME Init
  PROVE  StagesInv
<1>0. key = 1 /\ key \in Key /\ stage \in Stage /\ at = "idle" BY WorkerAssumption DEF Init, WorkerInit, Key
<1>1. PlaceInv BY <1>0 DEF PlaceInv, Resting
<1>2. AcquisitionInv
  BY <1>0 DEF Init, AcquisitionInit, AcquisitionInv, SubtitleStatus, RecordingStatus, Listening
<1>3. AnalysisInv
  BY <1>0 DEF Init, AnalysisInit, AnalysisInv, AnalysisStatus, SceneStatus, AnalysisPlace
<1>4. ScriptInv
  <2>1. /\ writing = [k \in Key |-> "none"] /\ plan = {} /\ version = <<>> /\ favoured = {} /\ desk = FALSE
    BY DEF Init, ScriptInit
  <2>2. Version = {} BY <2>1 DEF Version
  <2>3. VersionsInv BY <2>1, <2>2 DEF VersionsInv
  <2>4. UndecidedInv BY <1>0, <2>1, <2>2 DEF UndecidedInv, ScriptPlace
  <2> QED BY <1>0, <2>1, <2>3, <2>4 DEF ScriptInv, ScriptPlace, RunStatus
<1>5. NarrationInv
  <2>1. /\ narration = [k \in Key |-> "none"] /\ narrated = {} /\ row = [k \in Key |-> [l \in Line |-> "none"]]
        /\ takes = [l \in Line |-> <<>>] /\ timed = [k \in Key |-> [l \in Line |-> FALSE]]
    BY DEF Init, NarrationInit
  <2>2. \A l \in Line : Unfinished(l) = {} /\ Len(takes[l]) <= MaxTakes
    BY <2>1, NarrationAssumption DEF Unfinished
  <2>3. takes \in [Line -> Seq(Take)] BY <2>1
  <2> QED BY <1>0, <2>1, <2>2, <2>3 DEF NarrationInv, NarrationPlace, NarrationStatus, RowStatus
<1>6. StoryboardInv
  <2>1. board = [k \in Key |-> "none"] /\ sheet = [k \in Key |-> [p \in Part |-> Blank]]
    BY DEF Init, StoryboardInit
  <2>2. Blank \in SheetRow /\ Blank.status = "none" /\ Blank.report = "none" BY DEF Blank, SheetRow, Verdict
  <2> HIDE DEF Blank
  <2>3. sheet \in [Key -> [Part -> SheetRow]] /\ \A k \in Key, p \in Part : sheet[k][p].status = "none" /\ sheet[k][p].report = "none"
    BY <2>1, <2>2
  <2>4. \A k \in Key : board[k] = "none" BY <2>1
  <2> QED BY <1>0, <2>1, <2>3, <2>4 DEF StoryboardInv, BoardInv, AskInv, StoryboardPlace
<1>7. EditorialInv
  <2>1. inputs = 1 /\ final = [i \in Input |-> NoFinal] /\ looked = [i \in Input |-> NoLook]
    BY DEF Init, FinalInit
  <2>2. NoFinal \in FinalRow /\ NoFinal.status = "none" /\ ~NoFinal.selected /\ NoLook \in LookRow
    BY DEF NoFinal, NoLook, FinalRow, LookRow
  <2>3. PassIsEarned BY <2>1, <2>2 DEF PassIsEarned, Unselected
  <2>4. inputs \in Input BY <2>1, FinalEditorialAssumption DEF Input
  <2> QED BY <1>0, <2>1, <2>2, <2>3, <2>4 DEF EditorialInv, EditorialPlace
<1> QED BY <1>1, <1>2, <1>3, <1>4, <1>5, <1>6, <1>7 DEF StagesInv

\* Outside its own places a stage is at rest.
LEMMA Apart ==
  ASSUME PlaceInv'
  PROVE  /\ stage' # "acquisition" => at' \notin AcquisitionPlace
         /\ stage' # "analysis" => at' \notin AnalysisPlace
         /\ stage' # "script" => at' \notin ScriptPlace
         /\ stage' # "narration" => at' \notin NarrationPlace
         /\ stage' # "storyboard" => at' \notin StoryboardPlace
         /\ stage' # "editorial" => at' \notin EditorialPlace
BY DEF PlaceInv, Resting, AcquisitionPlace, Listening, AnalysisPlace, ScriptPlace, NarrationPlace, StoryboardPlace,
  EditorialPlace

\* What StoredIsNotRepaid asks of a step, stage by stage.
Paid ==
  AcquiredOnce /\ SceneKept /\ ScriptKept /\ NarrationKept /\ SegmentKept /\ JudgedOnce

\* A stage whose variables stay as they are pays for nothing, and keeps its invariant
\* where the worker is elsewhere.
LEMMA OthersRest ==
  ASSUME StagesInv, PlaceInv', key <= key', key \in Nat, key' \in Nat
  PROVE  /\ stage' # "acquisition" /\ UNCHANGED acquisitionVars => AcquisitionInv'
         /\ stage' # "analysis" /\ UNCHANGED analysisVars => AnalysisInv' /\ SceneKept
         /\ stage' # "script" /\ UNCHANGED scriptVars => ScriptInv'
         /\ stage' # "narration" /\ UNCHANGED narrationVars => NarrationInv'
         /\ stage' # "storyboard" /\ UNCHANGED storyboardVars => StoryboardInv' /\ SegmentKept
         /\ stage' # "editorial" /\ UNCHANGED finalVars => EditorialInv'
<1>0. /\ stage' # "acquisition" => at' \notin AcquisitionPlace
      /\ stage' # "analysis" => at' \notin AnalysisPlace
      /\ stage' # "script" => at' \notin ScriptPlace
      /\ stage' # "narration" => at' \notin NarrationPlace
      /\ stage' # "storyboard" => at' \notin StoryboardPlace
      /\ stage' # "editorial" => at' \notin EditorialPlace
  BY Apart
<1>1. stage' # "acquisition" /\ UNCHANGED acquisitionVars => AcquisitionInv'
  BY <1>0, AcquisitionRests DEF StagesInv, acquisitionVars
<1>2. stage' # "analysis" /\ UNCHANGED analysisVars => AnalysisInv' /\ SceneKept
  BY <1>0, AnalysisRests DEF StagesInv, analysisVars, SceneKept
<1>3. stage' # "script" /\ UNCHANGED scriptVars => ScriptInv'
  BY <1>0, ScriptRests DEF StagesInv, scriptVars
<1>4. stage' # "narration" /\ UNCHANGED narrationVars => NarrationInv'
  <2>1. key' \in Key BY DEF PlaceInv
  <2> QED BY <1>0, <2>1, NarrationRests DEF StagesInv, narrationVars
<1>5. stage' # "storyboard" /\ UNCHANGED storyboardVars => StoryboardInv' /\ SegmentKept
  <2> SUFFICES ASSUME stage' # "storyboard", UNCHANGED storyboardVars PROVE StoryboardInv' /\ SegmentKept OBVIOUS
  <2>1. StoryboardInv' BY <1>0, StoryboardRests DEF StagesInv, storyboardVars
  <2>2. ~(at = "direct" /\ at' = "answered") BY <1>0 DEF StoryboardPlace
  <2> QED BY <2>1, <2>2 DEF SegmentKept, storyboardVars
<1>6. stage' # "editorial" /\ UNCHANGED finalVars => EditorialInv'
  BY <1>0, EditorialRests DEF StagesInv, finalVars
<1> QED BY <1>1, <1>2, <1>3, <1>4, <1>5, <1>6

\* Nothing is paid for where no call begins and no row is taken back.
LEMMA NothingPaid ==
  ASSUME UNCHANGED <<scene, sheet, final>>, flying' \subseteq flying, at' = at \/ at' \in Resting
  PROVE  Paid
<1>1. at' # at => at' \notin {"fetched", "transcript", "compressed", "written", "revised", "take", "spoken",
                              "aligned", "answered", "first_seen", "second_seen"}
  BY DEF Resting
<1> QED BY <1>1 DEF Paid, AcquiredOnce, SceneKept, ScriptKept, NarrationKept, SegmentKept, JudgedOnce

LEMMA WorksStep ==
  ASSUME StagesInv, Works
  PROVE  StagesInv' /\ Paid
<1>0. PlaceInv /\ AcquisitionInv /\ AnalysisInv /\ ScriptInv /\ NarrationInv /\ StoryboardInv /\ EditorialInv
  BY DEF StagesInv
<1>1. PlaceInv' /\ UNCHANGED <<stage, key>> BY <1>0, PlaceStep
<1>2. key \in Nat /\ key' \in Nat /\ key <= key' BY <1>0, <1>1 DEF PlaceInv, Key
<1>3. /\ stage # "acquisition" /\ UNCHANGED acquisitionVars => AcquisitionInv'
      /\ stage # "analysis" /\ UNCHANGED analysisVars => AnalysisInv' /\ SceneKept
      /\ stage # "script" /\ UNCHANGED scriptVars => ScriptInv'
      /\ stage # "narration" /\ UNCHANGED narrationVars => NarrationInv'
      /\ stage # "storyboard" /\ UNCHANGED storyboardVars => StoryboardInv' /\ SegmentKept
      /\ stage # "editorial" /\ UNCHANGED finalVars => EditorialInv'
  BY <1>1, <1>2, OthersRest
<1>4. /\ stage # "acquisition" => AcquiredOnce
      /\ stage # "script" => ScriptKept
      /\ stage # "narration" => NarrationKept
      /\ stage # "editorial" /\ UNCHANGED finalVars => JudgedOnce
  BY DEF AcquiredOnce, ScriptKept, NarrationKept, JudgedOnce, finalVars
<1>5. CASE stage = "acquisition" /\ AcquisitionNext
           /\ UNCHANGED <<analysisVars, scriptVars, narrationVars, storyboardVars, finalVars>>
  <2>1. AcquisitionInv' /\ AcquiredOnce BY <1>0, <1>5, AcquisitionStep, AcquisitionPaid
  <2> QED BY <1>1, <1>3, <1>4, <1>5, <2>1 DEF StagesInv, Paid
<1>6. CASE stage = "analysis" /\ AnalysisNext
           /\ UNCHANGED <<acquisitionVars, scriptVars, narrationVars, storyboardVars, finalVars>>
  <2>1. AnalysisInv' /\ SceneKept BY <1>0, <1>6, AnalysisStep, AnalysisPaid
  <2> QED BY <1>1, <1>3, <1>4, <1>6, <2>1 DEF StagesInv, Paid
<1>7. CASE stage = "script" /\ ScriptNext
           /\ UNCHANGED <<acquisitionVars, analysisVars, narrationVars, storyboardVars, finalVars>>
  <2>1. ScriptInv' /\ ScriptKept BY <1>0, <1>7, ScriptStep, ScriptPaid
  <2> QED BY <1>1, <1>3, <1>4, <1>7, <2>1 DEF StagesInv, Paid
<1>8. CASE stage = "narration" /\ NarrationNext
           /\ UNCHANGED <<acquisitionVars, analysisVars, scriptVars, storyboardVars, finalVars>>
  <2>1. NarrationInv' /\ NarrationKept BY <1>0, <1>8, NarrationStep, NarrationPaid
  <2> QED BY <1>1, <1>3, <1>4, <1>8, <2>1 DEF StagesInv, Paid
<1>9. CASE stage = "storyboard" /\ StoryboardNext
            /\ UNCHANGED <<acquisitionVars, analysisVars, scriptVars, narrationVars, finalVars>>
  <2>1. StoryboardInv' /\ SegmentKept BY <1>0, <1>9, StoryboardStep, StoryboardPaid
  <2> QED BY <1>1, <1>3, <1>4, <1>9, <2>1 DEF StagesInv, Paid
<1>10. CASE stage = "editorial" /\ EditorialNext
            /\ UNCHANGED <<acquisitionVars, analysisVars, scriptVars, narrationVars, storyboardVars>>
  <2>1. EditorialInv' /\ JudgedOnce BY <1>0, <1>10, EditorialStep, EditorialPaid
  <2> QED BY <1>1, <1>3, <1>4, <1>10, <2>1 DEF StagesInv, Paid
<1> QED BY <1>5, <1>6, <1>7, <1>8, <1>9, <1>10 DEF Works

LEMMA OwnerStep ==
  ASSUME StagesInv, Owner
  PROVE  StagesInv' /\ Paid
<1>0. PlaceInv /\ AcquisitionInv /\ AnalysisInv /\ ScriptInv /\ NarrationInv /\ StoryboardInv /\ EditorialInv
  BY DEF StagesInv
<1>1. UNCHANGED <<stage, at, key>>
  BY DEF Owner, ScriptOwner, SelectScript, RejectScript, ReviseScript, Opines, EditorialOwner, Settles, InputsMove,
    workerVars
<1>2. PlaceInv' BY <1>0, <1>1 DEF PlaceInv
<1>3. key \in Nat /\ key' \in Nat /\ key <= key' BY <1>0, <1>1 DEF PlaceInv, Key
<1>4. /\ stage # "acquisition" /\ UNCHANGED acquisitionVars => AcquisitionInv'
      /\ stage # "analysis" /\ UNCHANGED analysisVars => AnalysisInv' /\ SceneKept
      /\ stage # "script" /\ UNCHANGED scriptVars => ScriptInv'
      /\ stage # "narration" /\ UNCHANGED narrationVars => NarrationInv'
      /\ stage # "storyboard" /\ UNCHANGED storyboardVars => StoryboardInv' /\ SegmentKept
      /\ stage # "editorial" /\ UNCHANGED finalVars => EditorialInv'
  BY <1>1, <1>2, <1>3, OthersRest
<1>5. CASE ScriptOwner /\ UNCHANGED <<acquisitionVars, analysisVars, narrationVars, storyboardVars, finalVars>>
  <2>1. stage = "script" BY <1>5 DEF ScriptOwner, SelectScript, RejectScript, ReviseScript, Opines
  <2>2. ScriptInv' BY <1>0, <1>5, ScriptOwned
  <2>3. Paid BY <1>1, <1>5, NothingPaid DEF analysisVars, storyboardVars, finalVars
  <2> QED BY <1>2, <1>4, <1>5, <2>1, <2>2, <2>3 DEF StagesInv
<1>6. CASE EditorialOwner /\ UNCHANGED <<acquisitionVars, analysisVars, scriptVars, narrationVars, storyboardVars>>
  <2>1. stage = "editorial" BY <1>6 DEF EditorialOwner, Settles, InputsMove
  <2>2. /\ EditorialInv'
        /\ \A i \in Input : final[i].status \in {"passed", "failed"} => final'[i].status = final[i].status
    BY <1>0, <1>6, EditorialOwned
  <2>3. /\ AcquiredOnce /\ ScriptKept /\ NarrationKept
    BY <2>1 DEF AcquiredOnce, ScriptKept, NarrationKept
  <2>4. SceneKept /\ SegmentKept BY <1>4, <1>6, <2>1
  <2>5. JudgedOnce BY <1>1, <2>2 DEF JudgedOnce
  <2> QED BY <1>2, <1>4, <1>6, <2>1, <2>2, <2>3, <2>4, <2>5 DEF StagesInv, Paid
<1> QED BY <1>5, <1>6 DEF Owner

\* An invariant of a stage needs its stored variables alone while the worker rests.
LEMMA HandledStep ==
  ASSUME StagesInv, Handled \/ UNCHANGED vars
  PROVE  StagesInv' /\ Paid
<1>0. PlaceInv /\ AcquisitionInv /\ AnalysisInv /\ ScriptInv /\ NarrationInv /\ StoryboardInv /\ EditorialInv
  BY DEF StagesInv
<1>1. CASE Handled
  <2>1. /\ PlaceInv' /\ at' \in Resting /\ UNCHANGED <<stage, stored>>
        /\ key \in Nat /\ key' \in Nat /\ key <= key'
    BY <1>0, <1>1, HandledRests
  <2>2. /\ at' \notin AcquisitionPlace /\ at' \notin AnalysisPlace /\ at' \notin ScriptPlace
        /\ at' \notin NarrationPlace /\ at' \notin StoryboardPlace /\ at' \notin EditorialPlace
    BY <2>1 DEF Resting, AcquisitionPlace, Listening, AnalysisPlace, ScriptPlace, NarrationPlace, StoryboardPlace,
      EditorialPlace
  <2>3. AcquisitionInv' BY <1>0, <2>1, <2>2, AcquisitionRests DEF stored
  <2>4. AnalysisInv' BY <1>0, <2>1, <2>2, AnalysisRests DEF stored
  <2>5. ScriptInv' BY <1>0, <2>1, <2>2, ScriptRests DEF stored
  <2>6. NarrationInv'
    <3>1. key' \in Key BY <2>1 DEF PlaceInv
    <3> QED BY <1>0, <2>1, <2>2, <3>1, NarrationRests DEF stored
  <2>7. StoryboardInv' BY <1>0, <2>1, <2>2, StoryboardRests DEF stored
  <2>8. EditorialInv' BY <1>0, <2>1, <2>2, EditorialRests DEF stored
  <2>9. flying' \subseteq flying BY <1>1 DEF Handled, registers, Drops
  <2>10. Paid BY <2>1, <2>9, NothingPaid DEF stored
  <2> QED BY <2>1, <2>3, <2>4, <2>5, <2>6, <2>7, <2>8, <2>10 DEF StagesInv
<1>2. CASE UNCHANGED vars
  <2>1. /\ UNCHANGED <<stage, at, key>> /\ UNCHANGED acquisitionVars /\ UNCHANGED analysisVars /\ UNCHANGED scriptVars
        /\ UNCHANGED narrationVars /\ UNCHANGED storyboardVars /\ UNCHANGED finalVars
    BY <1>2 DEF vars, workerVars
  <2>2. PlaceInv' /\ key \in Nat /\ key' \in Nat /\ key <= key' /\ key' \in Key BY <1>0, <2>1 DEF PlaceInv, Key
  <2>3. AcquisitionInv' BY <1>0, <2>1, AcquisitionRests DEF acquisitionVars
  <2>4. AnalysisInv' BY <1>0, <2>1, AnalysisRests DEF analysisVars
  <2>5. ScriptInv' BY <1>0, <2>1, <2>2, ScriptRests DEF scriptVars
  <2>6. NarrationInv' BY <1>0, <2>1, <2>2, NarrationRests DEF narrationVars
  <2>7. StoryboardInv' BY <1>0, <2>1, StoryboardRests DEF storyboardVars
  <2>8. EditorialInv' BY <1>0, <2>1, EditorialRests DEF finalVars
  <2>9. Paid BY <2>1, NothingPaid DEF analysisVars, storyboardVars, finalVars
  <2> QED BY <2>2, <2>3, <2>4, <2>5, <2>6, <2>7, <2>8, <2>9 DEF StagesInv
<1> QED BY <1>1, <1>2

LEMMA StagesStep ==
  ASSUME StagesInv, [Next]_vars
  PROVE  StagesInv' /\ Paid
BY WorksStep, OwnerStep, HandledStep DEF Next

\* The invariant of the stages holds whatever dies and whoever decides meanwhile.
THEOREM StagesInvariant == Spec => []StagesInv
<1>1. Init => StagesInv BY StagesInit
<1>2. StagesInv /\ [Next]_vars => StagesInv' BY StagesStep
<1> QED BY <1>1, <1>2, PTL DEF Spec

\* A set whose members are all equal has one at most.
LEMMA AtMostOne ==
  ASSUME NEW S, \A a, b \in S : a = b
  PROVE  Cardinality(S) <= 1
<1>1. CASE S = {} BY <1>1, FS_EmptySet
<1>2. CASE S # {}
  <2>1. PICK x \in S : TRUE BY <1>2
  <2>2. S = {x} BY <2>1
  <2> QED BY <2>2, FS_Singleton
<1> QED BY <1>1, <1>2

\* What a stage has selected is one, complete, and made of every piece it should be
\* made of: the transcript of its chunks, the analysis of its scenes, the script that
\* the owner approved, the narration of its lines (which a later attempt that is refused
\* marks failed, and leaves selected), the chained segments of the storyboard and the
\* render that passed.
THEOREM SelectedStaysWhole == Spec => []SelectedIsWhole
<1>1. StagesInv => SelectedIsWhole
  <2> SUFFICES ASSUME StagesInv PROVE SelectedIsWhole OBVIOUS
  <2>1. TranscriptIsOne
    <3>1. Cardinality(chosen) <= 1 BY AtMostOne DEF StagesInv, AcquisitionInv
    <3> QED BY <3>1 DEF StagesInv, AcquisitionInv, TranscriptIsOne
  <2>2. AnalysisIsWhole
    <3>1. Cardinality(analysed) <= 1 BY AtMostOne DEF StagesInv, AnalysisInv
    <3> QED BY <3>1 DEF StagesInv, AnalysisInv, AnalysisIsWhole
  <2>3. ScriptIsDecided
    <3>1. Cardinality(favoured) <= 1 BY AtMostOne DEF StagesInv, ScriptInv
    <3>2. \A v \in Version : Cardinality(Successor(v)) <= 1
      <4> SUFFICES ASSUME NEW v \in Version PROVE Cardinality(Successor(v)) <= 1 OBVIOUS
      <4>1. \A a, b \in Successor(v) : a = b BY DEF StagesInv, ScriptInv, VersionsInv, Successor
      <4> QED BY <4>1, AtMostOne
    <3>3. \A v \in Version : version[v].pass <= MaxPasses BY VersionFields DEF StagesInv, ScriptInv
    <3> QED BY <3>1, <3>2, <3>3 DEF StagesInv, ScriptInv, ScriptIsDecided
  <2>4. NarrationIsWhole
    <3>1. Cardinality(narrated) <= 1 BY AtMostOne DEF StagesInv, NarrationInv
    <3>2. \A l \in Line : Cardinality(Unfinished(l)) <= 1 BY AtMostOne DEF StagesInv, NarrationInv
    <3> QED BY <3>1, <3>2 DEF StagesInv, NarrationInv, NarrationIsWhole
  <2>5. ContinuityChains BY DEF StagesInv, StoryboardInv, BoardInv, Handed, ContinuityChains
  <2>6. PassIsEarned BY DEF StagesInv, EditorialInv
  <2> QED BY <2>1, <2>2, <2>3, <2>4, <2>5, <2>6 DEF SelectedIsWhole
<1> QED BY <1>1, StagesInvariant, PTL

\* Wherever the attempts before it died, an attempt does not pay for what is in store
\* for it: for its own key, for the run it writes, or, as lines and looks are, for all.
THEOREM StoredIsPaidOnce == Spec => StoredIsNotRepaid
<1>1. StagesInv /\ [Next]_vars => [AcquiredOnce /\ SceneKept /\ ScriptKept
                                   /\ NarrationKept /\ SegmentKept /\ JudgedOnce]_vars
  BY StagesStep DEF Paid
<1> QED BY <1>1, StagesInvariant, PTL DEF Spec, StoredIsNotRepaid

-----------------------------------------------------------------------------
(* What the review shows of the commands of a shot (Dashboard).              *)

Displays == INSTANCE Dashboard

\* The commands of a project in the order they were made.
CommandRow == [on: {"shot", "remediation", "other"},
               status: Displays!ActiveCommand \cup Displays!ResolvedCommand \cup {"failed"}]

\* The newest command in flight, and the newest that is not passed over.
LEMMA NewestCommandIs ==
  ASSUME NEW c \in Seq(CommandRow)
  PROVE  LET on == {i \in DOMAIN c : Displays!ActsOn(c[i]) /\ c[i].status \in Displays!ActiveCommand}
             mine == {i \in DOMAIN c : Displays!ActsOn(c[i]) /\ c[i].status \notin Displays!Surfaced}
         IN  /\ IF on = {} THEN Displays!InFlight(c) = 0 ELSE Displays!InFlight(c) \in on
             /\ IF mine = {} THEN Displays!Newest(c) = 0
                ELSE Displays!Newest(c) \in mine /\ \A j \in mine : j <= Displays!Newest(c)
<1> DEFINE on == {i \in DOMAIN c : Displays!ActsOn(c[i]) /\ c[i].status \in Displays!ActiveCommand}
           mine == {i \in DOMAIN c : Displays!ActsOn(c[i]) /\ c[i].status \notin Displays!Surfaced}
<1>0. Len(c) \in Nat /\ DOMAIN c = 1..Len(c) OBVIOUS
<1>1. on \in SUBSET (1..Len(c)) /\ mine \in SUBSET (1..Len(c)) BY <1>0
<1>2. Displays!InFlight(c) = IF on = {} THEN 0 ELSE CHOOSE i \in on : \A j \in on : j <= i BY DEF Displays!InFlight
<1>3. Displays!Newest(c) = IF mine = {} THEN 0 ELSE CHOOSE i \in mine : \A j \in mine : j <= i BY DEF Displays!Newest
<1> HIDE DEF on, mine
<1>4. on # {} => \E i \in on : \A j \in on : j <= i BY <1>0, <1>1, Greatest
<1>5. mine # {} => \E i \in mine : \A j \in mine : j <= i BY <1>0, <1>1, Greatest
<1>6. IF on = {} THEN Displays!InFlight(c) = 0 ELSE Displays!InFlight(c) \in on BY <1>2, <1>4
<1>7. IF mine = {} THEN Displays!Newest(c) = 0
      ELSE Displays!Newest(c) \in mine /\ \A j \in mine : j <= Displays!Newest(c) BY <1>3, <1>5
<1> QED BY <1>6, <1>7 DEF on, mine

\* Whatever commands a project has seen, the one in flight for a shot is shown on it, and a
\* failed one only as long as nothing has happened to the shot since.  (shot_commands)
THEOREM CommandInFlightIsShown ==
  ASSUME NEW q, q.commands \in Seq(CommandRow)
  PROVE  Displays!CommandHolds(q, [view |-> Displays!ShotView(q)])
<1> DEFINE c == q.commands
           v == Displays!ShotView(q)
           n == Displays!ShownCommand(c)
           on == {i \in DOMAIN c : Displays!ActsOn(c[i])}
<1>0. \A i, j \in DOMAIN v.attempts :
        v.attempts[i].selected /\ v.attempts[j].selected => v.attempts[i].asset = v.attempts[j].asset
  BY DEF Displays!ShotView, Displays!ShotAttempts
<1>1. /\ v.command = n
      /\ v.active = (n # 0 /\ c[n].status \in Displays!ActiveCommand)
      /\ v.offered = (Displays!CommandCard(c) \notin {"queued", "running"})
  BY DEF Displays!ShotView
<1>2. DOMAIN c = 1..Len(c) /\ Len(c) \in Nat /\ \A i \in DOMAIN c : c[i] \in CommandRow OBVIOUS
<1>3. CASE \E i \in on : c[i].status \in Displays!ActiveCommand
  <2>1. /\ n \in DOMAIN c /\ Displays!ActsOn(c[n]) /\ c[n].status \in Displays!ActiveCommand
        /\ n # 0
    BY <1>2, <1>3, NewestCommandIs DEF Displays!ShownCommand
  <2>2. v.active BY <1>1, <2>1
  <2>3. v.offered => c[n].status = "awaiting_review"
    BY <1>1, <2>1 DEF Displays!CommandCard, Displays!Reads, Displays!ActiveCommand
  <2> QED BY <1>0, <1>1, <2>1, <2>2, <2>3 DEF Displays!CommandHolds
<1>4. CASE \A i \in on : c[i].status \notin Displays!ActiveCommand
  <2> DEFINE m == Displays!Newest(c)
             mine == {i \in DOMAIN c : Displays!ActsOn(c[i]) /\ c[i].status \notin Displays!Surfaced}
  <2>1. Displays!InFlight(c) = 0 BY <1>4, NewestCommandIs
  <2>2. IF mine = {} THEN m = 0 ELSE m \in mine /\ \A j \in mine : j <= m BY NewestCommandIs
  <2>3. n = IF m # 0 /\ c[m].status \notin Displays!ResolvedCommand THEN m ELSE 0
    BY <2>1 DEF Displays!ShownCommand
  <2>4. n # 0 => n = m /\ m \in mine BY <2>2, <2>3
  <2>5. n # 0 => c[n].status = "failed" /\ \A i \in on : i > n => c[i].status \in Displays!Surfaced
    <3> SUFFICES ASSUME n # 0 PROVE c[n].status = "failed" /\ \A i \in on : i > n => c[i].status \in Displays!Surfaced
      OBVIOUS
    <3>1. n \in on /\ c[n] \in CommandRow /\ c[n].status \notin Displays!ResolvedCommand BY <1>2, <2>3, <2>4
    <3>2. c[n].status = "failed" BY <1>4, <3>1 DEF CommandRow
    <3>3. ASSUME NEW i \in on, i > n, c[i].status \notin Displays!Surfaced PROVE FALSE
      <4>1. i \in mine BY <3>3
      <4>2. i <= n BY <2>2, <2>4, <4>1
      <4> QED BY <1>2, <3>1, <3>3, <4>2
    <3> QED BY <3>2, <3>3
  <2>6. ASSUME NEW i \in on, c[i].status = "failed", \A j \in on : j > i => c[j].status \in Displays!Surfaced
        PROVE  n # 0
    <3>1. i \in mine BY <2>6 DEF Displays!Surfaced
    <3>2. m \in mine /\ i <= m BY <2>2, <3>1
    <3>3. m = i BY <1>2, <2>6, <3>1, <3>2
    <3>4. m # 0 /\ c[m].status \notin Displays!ResolvedCommand BY <1>2, <2>6, <3>2, <3>3 DEF Displays!ResolvedCommand
    <3> QED BY <2>3, <3>4
  <2> QED BY <1>0, <1>1, <1>4, <2>5, <2>6 DEF Displays!CommandHolds
<1> QED BY <1>3, <1>4
=============================================================================
