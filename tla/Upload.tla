------------------------------- MODULE Upload -------------------------------
(***************************************************************************)
(* A source video on its way in: the browser (useResumableUpload.ts) sends *)
(* the parts of a file, several at a time, retries what gets no answer and *)
(* asks to finalise; the API (src/vidgen/uploads/service.py) keeps each    *)
(* part as a file and a row, and assembles, verifies and stores the whole. *)
(***************************************************************************)
EXTENDS Naturals, FiniteSets

CONSTANTS
  Parts,         \* the parts of the file
  Requests,      \* part requests the server can hold at once
  Finalizers,    \* finalise requests
  Slots,         \* UPLOAD_CONCURRENCY
  MaxRetries,    \* MAX_PART_RETRIES
  MaxMishaps     \* bound: lost answers, crashes, lost files, cancellations

ASSUME UploadAssumption == Slots \in Nat \ {0} /\ MaxRetries \in Nat \ {0} /\ MaxMishaps \in Nat

VARIABLES
  upload,      \* UploadSession.status
  kept,        \* UploadPart rows: the content each was accepted with
  file,        \* the part files
  swept,       \* whether the upload's directory is gone
  assembled,   \* the assembled file
  asset,       \* the source videos of this upload, each the content of its asset
  request,     \* the part requests in the server
  finalizer,   \* the finalise requests: where each stands
  phase,       \* the browser's
  sent,        \* completedParts
  retries,     \* of each part in this start
  mishaps

uploadVars == <<upload, kept, file, swept, assembled, asset, request, finalizer, phase, sent, retries, mishaps>>

\* What a part holds: the bytes of the file that was hashed, or of one that has
\* changed since.
Content == {"right", "wrong"}
NoRequest == [at |-> "none", part |-> CHOOSE p \in Parts : TRUE, content |-> "right", awaited |-> FALSE]
Whole == [p \in Parts |-> "right"]
NotAssembled == [p \in Parts |-> "none"]

UploadInit ==
  /\ upload = "uploading" /\ swept = FALSE /\ asset = {} /\ assembled = NotAssembled
  /\ kept = [p \in Parts |-> "none"] /\ file = [p \in Parts |-> "none"]
  /\ request = [r \in Requests |-> NoRequest]
  /\ finalizer = [f \in Finalizers |-> "none"]
  /\ phase = "idle" /\ sent = {} /\ retries = [p \in Parts |-> 0] /\ mishaps = 0

Awaited == {r \in Requests : request[r].awaited}
Moves(r, to) == request' = [request EXCEPT ![r].at = to]
IsOpen == upload \in {"uploading", "finalizing"}

-----------------------------------------------------------------------------

\* start: a resumed upload keeps its completed parts.
StartUpload ==
  /\ phase = "idle" \/ (phase \in {"failed", "cancelled"} /\ mishaps < MaxMishaps)
  /\ Awaited = {}
  /\ phase' = "uploading"
  /\ retries' = [p \in Parts |-> 0]
  /\ mishaps' = IF phase = "idle" THEN mishaps ELSE mishaps + 1
  /\ UNCHANGED <<upload, kept, file, swept, assembled, asset, request, finalizer, sent>>

SendPart(r, p, content) ==
  /\ phase = "uploading" /\ p \notin sent
  /\ Cardinality(Awaited) < Slots /\ \A q \in Awaited : request[q].part # p
  /\ request[r].at = "none"
  /\ content = "wrong" => mishaps < MaxMishaps
  /\ mishaps' = IF content = "wrong" THEN mishaps + 1 ELSE mishaps
  /\ request' = [request EXCEPT ![r] = [at |-> IF IsOpen THEN "streamed" ELSE "refused",
                                        part |-> p, content |-> content, awaited |-> TRUE]]
  /\ UNCHANGED <<upload, kept, file, swept, assembled, asset, finalizer, phase, sent, retries>>

\* The lock file of the part.
Alone(r) == \A q \in Requests : request[q].part = request[r].part => request[q].at \notin {"locked", "placed"}

LockPart(r) ==
  /\ request[r].at = "streamed"
  /\ IF swept THEN Moves(r, "error") ELSE Alone(r) /\ Moves(r, "locked")
  /\ UNCHANGED <<upload, kept, file, swept, assembled, asset, finalizer, phase, sent, retries, mishaps>>

\* A first part is put in place before its row is; a matching retry replaces its
\* file; any other content is refused.  The row is read under the lock.
PlacePart(r) ==
  /\ request[r].at = "locked"
  /\ LET p == request[r].part
         new == request[r].content IN
       CASE swept \/ kept[p] \notin {"none", new} ->
              Moves(r, IF swept THEN "error" ELSE "refused") /\ UNCHANGED file
         [] ~swept /\ kept[p] = "none" -> Moves(r, "placed") /\ file' = [file EXCEPT ![p] = new]
         [] ~swept /\ kept[p] = new    -> Moves(r, "done") /\ file' = [file EXCEPT ![p] = new]
  /\ UNCHANGED <<upload, kept, swept, assembled, asset, finalizer, phase, sent, retries, mishaps>>

CommitPart(r) ==
  /\ request[r].at = "placed"
  /\ kept' = [kept EXCEPT ![request[r].part] = request[r].content]
  /\ Moves(r, "done")
  /\ UNCHANGED <<upload, file, swept, assembled, asset, finalizer, phase, sent, retries, mishaps>>

Retried(p) == retries' = [retries EXCEPT ![p] = @ + 1]
PhaseAfterRetry(p) == IF retries[p] + 1 >= MaxRetries THEN "failed" ELSE phase

\* The browser hears the answer; a refusal ends the upload, an error is retried.
HearPart(r) ==
  /\ request[r].at \in {"done", "refused", "error"}
  /\ request' = [request EXCEPT ![r] = NoRequest]
  /\ LET p == request[r].part IN
       CASE ~request[r].awaited \/ phase # "uploading" ->
              /\ sent' = IF request[r].awaited /\ request[r].at = "done" THEN sent \cup {p} ELSE sent
              /\ UNCHANGED <<phase, retries>>
         [] OTHER ->
              /\ sent' = IF request[r].at = "done" THEN sent \cup {p} ELSE sent
              /\ IF request[r].at = "error" THEN Retried(p) /\ phase' = PhaseAfterRetry(p)
                   ELSE UNCHANGED retries /\ phase' = IF request[r].at = "refused" THEN "failed" ELSE phase
  /\ UNCHANGED <<upload, kept, file, swept, assembled, asset, finalizer, mishaps>>

Mishap == mishaps < MaxMishaps /\ mishaps' = mishaps + 1

\* The connection breaks: the browser retries while the server works on.
LosePart(r) ==
  /\ Mishap
  /\ request[r].awaited
  /\ request' = [request EXCEPT ![r].awaited = FALSE]
  /\ IF phase = "uploading"
       THEN Retried(request[r].part) /\ phase' = PhaseAfterRetry(request[r].part)
       ELSE UNCHANGED <<retries, phase>>
  /\ UNCHANGED <<upload, kept, file, swept, assembled, asset, finalizer, sent>>

\* cancel: the awaited requests are aborted in the browser.
CancelUpload ==
  /\ Mishap
  /\ phase \in {"uploading", "finalizing"}
  /\ phase' = "cancelled"
  /\ request' = [r \in Requests |-> [request[r] EXCEPT !.awaited = FALSE]]
  /\ UNCHANGED <<upload, kept, file, swept, assembled, asset, finalizer, sent, retries>>

\* A part file is lost under its row.
LoseFile(p) ==
  /\ Mishap
  /\ file[p] # "none" /\ kept[p] # "none"
  /\ file' = [file EXCEPT ![p] = "none"]
  /\ UNCHANGED <<upload, kept, swept, assembled, asset, request, finalizer, phase, sent, retries>>

\* The API process dies with every request in it.
ApiDies ==
  /\ Mishap
  /\ request' = [r \in Requests |-> [NoRequest EXCEPT !.part = request[r].part,
                                     !.at = IF request[r].awaited THEN "error" ELSE "none",
                                     !.awaited = request[r].awaited]]
  /\ finalizer' = [f \in Finalizers |-> IF finalizer[f] = "none" THEN "none" ELSE "error"]
  /\ assembled' = NotAssembled
  /\ UNCHANGED <<upload, kept, file, swept, asset, phase, sent, retries>>

-----------------------------------------------------------------------------

FMoves(f, to) == finalizer' = [finalizer EXCEPT ![f] = to]

AskFinalize(f) ==
  /\ phase = "uploading" /\ sent = Parts /\ Awaited = {}
  /\ finalizer[f] = "none"
  /\ FMoves(f, "waiting")
  /\ phase' = "finalizing"
  /\ UNCHANGED <<upload, kept, file, swept, assembled, asset, request, sent, retries, mishaps>>

\* finalize.lock, then the row is read afresh.
LockFinalize(f) ==
  /\ finalizer[f] = "waiting"
  /\ \A g \in Finalizers : finalizer[g] \notin {"assembling", "stored", "sweeping"}
  /\ CASE upload = "complete" -> FMoves(f, "answered") /\ UNCHANGED upload
       [] upload # "complete" /\ \E p \in Parts : kept[p] = "none" ->
            FMoves(f, "refused") /\ UNCHANGED upload
       [] OTHER -> FMoves(f, "assembling") /\ upload' = "finalizing"
  /\ UNCHANGED <<kept, file, swept, assembled, asset, request, phase, sent, retries, mishaps>>

\* Mutant: only the size is compared.
VerifiedBySize == TRUE

\* The assembled file has the size and the hash the session was opened with.
Verified == file = Whole

\* A part whose file is lost fails the request and leaves it finalizing.
Assemble(f) ==
  /\ finalizer[f] = "assembling"
  /\ CASE \E p \in Parts : file[p] = "none" -> FMoves(f, "error") /\ UNCHANGED <<upload, assembled>>
       [] (\A p \in Parts : file[p] # "none") /\ Verified ->
            FMoves(f, "stored") /\ assembled' = file /\ UNCHANGED upload
       [] (\A p \in Parts : file[p] # "none") /\ ~Verified ->
            FMoves(f, "refused") /\ upload' = "uploading" /\ UNCHANGED assembled
  /\ UNCHANGED <<kept, file, swept, asset, request, phase, sent, retries, mishaps>>

\* The asset, its source video and the status are one commit.
CompleteUpload(f) ==
  /\ finalizer[f] = "stored"
  /\ asset' = asset \cup {assembled}
  /\ assembled' = NotAssembled
  /\ upload' = "complete"
  /\ FMoves(f, "sweeping")
  /\ UNCHANGED <<kept, file, swept, request, phase, sent, retries, mishaps>>

Sweep(f) ==
  /\ finalizer[f] = "sweeping"
  /\ swept' = TRUE
  /\ file' = [p \in Parts |-> "none"]
  /\ FMoves(f, "answered")
  /\ UNCHANGED <<upload, kept, assembled, asset, request, phase, sent, retries, mishaps>>

PhaseAfter(answer) == IF answer = "answered" THEN "complete" ELSE "failed"

HearFinalize(f) ==
  /\ finalizer[f] \in {"answered", "refused", "error"}
  /\ phase' = IF phase = "finalizing" THEN PhaseAfter(finalizer[f]) ELSE phase
  /\ FMoves(f, "none")
  /\ UNCHANGED <<upload, kept, file, swept, assembled, asset, request, sent, retries, mishaps>>

\* The answer to a finalisation is lost: the browser gives up, the server goes on.
LoseFinalize ==
  /\ Mishap
  /\ phase = "finalizing"
  /\ phase' = "failed"
  /\ UNCHANGED <<upload, kept, file, swept, assembled, asset, request, finalizer, sent, retries>>

UploadServes ==
  \/ \E r \in Requests : LockPart(r) \/ PlacePart(r) \/ CommitPart(r) \/ HearPart(r)
  \/ \E f \in Finalizers :
       AskFinalize(f) \/ LockFinalize(f) \/ Assemble(f) \/ CompleteUpload(f) \/ Sweep(f)
         \/ HearFinalize(f)

UploadSends == \E r \in Requests, p \in Parts, c \in Content : SendPart(r, p, c)

UploadMishaps ==
  \/ \E r \in Requests : LosePart(r)
  \/ \E p \in Parts : LoseFile(p)
  \/ CancelUpload \/ ApiDies \/ LoseFinalize

UploadNext == StartUpload \/ UploadSends \/ UploadServes \/ UploadMishaps

-----------------------------------------------------------------------------

\* The project gets one source video, and it is the file that was hashed.
UploadIsVerified ==
  /\ asset \subseteq {Whole}
  /\ upload = "complete" <=> asset # {}

\* However requests for a part overlap and wherever one dies, a part's file never
\* holds other bytes than its row was accepted with.
PartIsItsRow ==
  \A p \in Parts : kept[p] # "none" /\ file[p] # "none" => file[p] = kept[p]

\* An upload ends for the browser.
UploadEnds == phase = "uploading" ~> phase \in {"complete", "failed", "cancelled"}
=============================================================================
