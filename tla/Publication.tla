---------------------------- MODULE Publication ----------------------------
(* One publication of one render to one YouTube channel: the row of           *)
(* publication_runs and its upload sessions, the workflow that drives the     *)
(* steps of PublicationPipeline, the workers that run them as activities, the *)
(* owner's requests, and YouTube.                                             *)
(*                                                                            *)
(* An activity loads the run once and keeps that copy to its end: the         *)
(* sessions do not expire on commit and the row has no version, so a flush    *)
(* writes the columns the activity changed over whatever others committed     *)
(* meanwhile.  The same holds of a request.                                   *)
(*                                                                            *)
(* A video is the index of the upload session that made it, 0 is no video.    *)
(* A definition marked `Mutant' is a plausible mistake in the definition      *)
(* below it; it is not part of the specification.                             *)
EXTENDS Integers, FiniteSets

CONSTANTS
  Worker,        \* activity slots of the publisher workers
  None,
  Chunks,        \* chunks of the final render
  MaxSessions,   \* bound on upload sessions, of the model
  MaxRounds,     \* MAX_UPLOAD_ROUNDS and MAX_PROCESSING_ROUNDS
  MaxTries,      \* maximum_attempts of an activity
  MaxRequests,   \* bound on cancel and visibility requests, of the model
  MaxFaults,     \* bound on failed calls, deaths and outside changes, of the model
  MaxOverlaps    \* bound on attempts given up while their worker goes on

ASSUME PublicationAssumption ==
  /\ None \notin Worker
  /\ Chunks \in Nat \ {0}
  /\ MaxSessions \in Nat \ {0}
  /\ MaxRounds \in Nat \ {0}
  /\ MaxTries \in Nat \ {0}
  /\ MaxRequests \in Nat
  /\ MaxFaults \in Nat
  /\ MaxOverlaps \in Nat

VARIABLES
  run,         \* the row: status, video_id, processing_state, visibility_decision_at
  sessions,    \* youtube_upload_sessions
  connection,  \* the channel's connection, `revoked' if Google knows and the row does not
  eligible,    \* the selected render is the one of this publication and passes its gate
  youtube,     \* what YouTube holds of each upload, and the video made of it
  wf,          \* the workflow execution
  att,         \* the attempt in each activity slot
  owner,       \* the owner's request in flight
  requests, faults, overlaps

vars == <<run, sessions, connection, eligible, youtube, wf, att, owner,
          requests, faults, overlaps>>

Session == 1 .. MaxSessions
Video == 0 .. MaxSessions

-----------------------------------------------------------------------------
(* The state machine of a publication. *)

Status == {"DRAFT", "READY", "UPLOAD_INITIALIZING", "UPLOADING", "PROCESSING",
           "UPLOADING_CAPTIONS", "UPLOADING_THUMBNAIL", "PRIVATE_READY",
           "VISIBILITY_UPDATING", "PUBLISHED", "REAUTHORIZATION_REQUIRED",
           "QUOTA_BLOCKED", "PROCESSING_FAILED", "HUMAN_REVIEW_REQUIRED",
           "FAILED", "CANCELLED"}

Parked == {"QUOTA_BLOCKED", "REAUTHORIZATION_REQUIRED"}
Review == {"HUMAN_REVIEW_REQUIRED"}
Dead == {"FAILED", "CANCELLED"}
AfterVideo == {"UPLOADING_CAPTIONS", "UPLOADING_THUMBNAIL", "PRIVATE_READY"}
WithVideo == AfterVideo \cup {"PROCESSING", "PROCESSING_FAILED", "VISIBILITY_UPDATING",
                              "PUBLISHED"}

\* AUTHORIZATION_REQUIRED is left out: only a drive outside the workflow sets it.
Allowed(s) ==
  CASE s = "DRAFT" -> {"READY"} \cup Dead
    [] s = "READY" -> {"UPLOAD_INITIALIZING", "DRAFT"} \cup Parked \cup Dead
    [] s = "UPLOAD_INITIALIZING" -> {"UPLOADING", "READY"} \cup Parked \cup Review \cup Dead
    [] s = "UPLOADING" -> {"PROCESSING", "UPLOAD_INITIALIZING"} \cup Parked \cup Review \cup Dead
    [] s = "PROCESSING" ->
         AfterVideo \cup {"PROCESSING_FAILED", "FAILED"} \cup Parked \cup Review
    [] s = "UPLOADING_CAPTIONS" -> AfterVideo \cup {"FAILED"} \cup Parked \cup Review
    [] s = "UPLOADING_THUMBNAIL" -> {"PRIVATE_READY", "FAILED"} \cup Parked \cup Review
    [] s = "PRIVATE_READY" ->
         {"VISIBILITY_UPDATING", "UPLOADING_CAPTIONS", "UPLOADING_THUMBNAIL", "PUBLISHED",
          "FAILED"} \cup Parked \cup Review
    [] s = "VISIBILITY_UPDATING" ->
         {"PUBLISHED", "PRIVATE_READY", "FAILED"} \cup Parked \cup Review
    [] s = "PUBLISHED" -> {"VISIBILITY_UPDATING"} \cup Review
    [] s = "REAUTHORIZATION_REQUIRED" ->
         {"READY", "UPLOADING", "PROCESSING"} \cup AfterVideo \cup Dead
    [] s = "QUOTA_BLOCKED" ->
         {"READY", "UPLOADING", "PROCESSING", "VISIBILITY_UPDATING"} \cup AfterVideo \cup Dead
    [] s = "PROCESSING_FAILED" -> {"FAILED"} \cup Review
    [] s = "HUMAN_REVIEW_REQUIRED" -> AfterVideo \cup Dead
    [] OTHER -> {}

\* transition() accepts the state the run is in
May(s, t) == s = t \/ t \in Allowed(s)

PreUpload == {"DRAFT", "READY"} \cup Parked
Cancellable == {"DRAFT", "READY", "UPLOAD_INITIALIZING", "UPLOADING"}

\* the workflow stops on these
Waiting == Parked \cup Review \cup Dead \cup {"PROCESSING_FAILED"}

Row == [status: Status, video: Video, decided: BOOLEAN,
        processing: {"none", "processing", "succeeded", "failed"}]

SessionRow == [status: {"none", "active", "completed", "expired", "ambiguous", "cancelled"},
               confirmed: 0 .. Chunks]

\* External: held counts the chunks YouTube has; all of them make the video.
Upload == [held: 0 .. Chunks, gone: BOOLEAN, privacy: {"private", "public"},
           processed: {"processing", "succeeded", "failed"}]

Steps == {"validate", "refresh", "initialize", "upload", "poll", "captions",
          "thumbnail", "verify", "finalize"}

Execution == [state: {"closed", "due", "busy"}, step: Steps, rounds: 0 .. MaxRounds,
              tries: 0 .. MaxTries, worker: Worker \cup {None}, cancelled: BOOLEAN]

\* run, confirmed: the copies, confirmed also the offset of the drive; chunk: the
\* next of its plan; why: the error that interrupted a chunk, if it parks the run
Attempt == [pc: {"idle", "revalidate", "work", "init", "uploading", "query", "send", "sent",
                 "final", "resolve", "park", "record", "answer"},
            step: Steps, run: Row, session: Video, confirmed: 0 .. Chunks,
            chunk: 0 .. Chunks, why: {"none"} \cup Parked]

Request == [pc: {"none", "cancel", "commit", "mark", "update", "updated"}, run: Row, session: Video]

Draft == [status |-> "DRAFT", video |-> 0, decided |-> FALSE, processing |-> "none"]

Idle == [pc |-> "idle", step |-> "validate", run |-> Draft, session |-> 0, confirmed |-> 0,
         chunk |-> 0, why |-> "none"]

NoRequest == [pc |-> "none", run |-> Draft, session |-> 0]

Closed == [state |-> "closed", step |-> "validate", rounds |-> 0, tries |-> 0,
           worker |-> None, cancelled |-> FALSE]

TypeOK ==
  /\ run \in Row
  /\ sessions \in [Session -> SessionRow]
  /\ connection \in {"connected", "revoked", "reauthorization_required"}
  /\ eligible \in BOOLEAN
  /\ youtube \in [Session -> Upload]
  /\ wf \in Execution
  /\ att \in [Worker -> Attempt]
  /\ owner \in Request
  /\ requests \in 0 .. MaxRequests
  /\ faults \in 0 .. MaxFaults
  /\ overlaps \in 0 .. MaxOverlaps

Init ==
  /\ run = Draft
  /\ sessions = [s \in Session |-> [status |-> "none", confirmed |-> 0]]
  /\ connection = "connected"
  /\ eligible = TRUE
  /\ youtube = [s \in Session |-> [held |-> 0, gone |-> FALSE, privacy |-> "private",
                                   processed |-> "processing"]]
  /\ wf = Closed
  /\ att = [w \in Worker |-> Idle]
  /\ owner = NoRequest
  /\ requests = 0
  /\ faults = 0
  /\ overlaps = 0

Fault == faults < MaxFaults /\ faults' = faults + 1

Active == {s \in Session : sessions[s].status = "active"}
Unused == {s \in Session : sessions[s].status = "none"}
Videos == {s \in Session : youtube[s].held = Chunks}

-----------------------------------------------------------------------------
(* Writes. *)

Changed(old, new, committed) == IF new = old THEN committed ELSE new

\* Mutant: a flush writes every column of its copy.
FlushAll(old, new) == run' = new

\* The UPDATE of a flush sets the columns that differ from the copy.
Flush(old, new) ==
  run' = [status     |-> Changed(old.status, new.status, run.status),
          video      |-> Changed(old.video, new.video, run.video),
          decided    |-> Changed(old.decided, new.decided, run.decided),
          processing |-> Changed(old.processing, new.processing, run.processing)]

Commit(w, new, pc) ==
  /\ Flush(att[w].run, new)
  /\ att' = [att EXCEPT ![w].run = new, ![w].pc = pc]

Go(w, pc) == att' = [att EXCEPT ![w].pc = pc] /\ UNCHANGED run

\* _fail: what the machine forbids is recorded as an error code alone
Failed(r, t) == IF t \in Allowed(r.status) THEN [r EXCEPT !.status = t] ELSE r

Park(w, t) == Commit(w, Failed(att[w].run, t), "answer")

Mark(w, status) == sessions' = [sessions EXCEPT ![att[w].session].status = status]

Larger(a, b) == IF a > b THEN a ELSE b

\* Mutant: the checkpoint is the local count of chunks sent.
CheckpointNext(w, n, chunk, pc) ==
  /\ sessions' = [sessions EXCEPT ![att[w].session].confirmed = chunk]
  /\ att' = [att EXCEPT ![w].confirmed = chunk, ![w].chunk = chunk, ![w].pc = pc]

\* confirm_offset, which never rewinds the copy
Checkpoint(w, n, chunk, pc) ==
  LET confirmed == Larger(att[w].confirmed, n)
  IN  /\ sessions' = IF confirmed = att[w].confirmed THEN sessions
                     ELSE [sessions EXCEPT ![att[w].session].confirmed = confirmed]
      /\ att' = [att EXCEPT ![w].confirmed = confirmed, ![w].chunk = chunk, ![w].pc = pc]

\* An attempt that raised or was lost is tried again, then fails the workflow.
Retried(w) ==
  IF wf.worker # w THEN wf
  ELSE IF wf.tries + 1 < MaxTries
       THEN [wf EXCEPT !.state = "due", !.tries = @ + 1, !.worker = None]
       ELSE Closed

Raise(w) ==
  /\ att' = [att EXCEPT ![w] = Idle]
  /\ wf' = Retried(w)
  /\ UNCHANGED run

ownerVars == <<owner, requests>>
worldVars == <<connection, eligible, youtube, overlaps>>

-----------------------------------------------------------------------------
(* The workflow: one activity at a time, the next chosen from the row. *)

Stops == run.status \in Waiting

Scheduled(step, rounds) ==
  [wf EXCEPT !.state = "due", !.step = step, !.rounds = rounds, !.tries = 0, !.worker = None]

AfterUploads ==
  IF Stops \/ run.video = 0 THEN Closed ELSE Scheduled("poll", 0)

UploadLoop(rounds) ==
  IF rounds = MaxRounds THEN AfterUploads
  ELSE IF wf.cancelled THEN Scheduled("finalize", 0)
  ELSE IF Stops \/ run.video # 0 THEN AfterUploads
  ELSE Scheduled("upload", rounds)

PollLoop(rounds) ==
  IF Stops THEN Closed
  ELSE IF run.status # "PROCESSING" \/ rounds = MaxRounds THEN Scheduled("captions", 0)
  ELSE Scheduled("poll", rounds)

Then(step) == IF Stops THEN Closed ELSE Scheduled(step, 0)

AfterStep ==
  CASE wf.step = "validate"   -> Then("refresh")
    [] wf.step = "refresh"    -> Then("initialize")
    [] wf.step = "initialize" -> UploadLoop(0)
    [] wf.step = "upload"     -> UploadLoop(wf.rounds + 1)
    [] wf.step = "poll"       -> PollLoop(wf.rounds + 1)
    [] wf.step = "captions"   -> Then("thumbnail")
    [] wf.step = "thumbnail"  -> Then("verify")
    [] wf.step = "verify"     -> Then("finalize")
    [] OTHER                  -> Closed

\* Mutant: what is uploading is not started again.
StartIdle ==
  /\ wf.state = "closed"
  /\ run.status \in PreUpload
  /\ wf' = [Closed EXCEPT !.state = "due"]
  /\ UNCHANGED <<run, sessions, att, ownerVars, worldVars, faults>>

\* :start and :resume, which adopt a live execution
Start ==
  /\ wf.state = "closed"
  /\ run.status \notin Review \cup Dead
  /\ wf' = [Closed EXCEPT !.state = "due"]
  /\ UNCHANGED <<run, sessions, att, ownerVars, worldVars, faults>>

Take(w) ==
  /\ wf.state = "due"
  /\ att[w].pc = "idle"
  /\ wf' = [wf EXCEPT !.state = "busy", !.worker = w]
  /\ att' = [att EXCEPT ![w].step = wf.step, ![w].run = run,
                        ![w].pc = IF wf.step = "finalize" THEN "answer" ELSE "revalidate"]
  /\ UNCHANGED <<run, sessions, ownerVars, worldVars, faults>>

\* the handler projects the row as it is committed by then
Answer(w) ==
  /\ att[w].pc = "answer"
  /\ att' = [att EXCEPT ![w] = Idle]
  /\ wf' = IF wf.worker = w THEN AfterStep ELSE wf
  /\ UNCHANGED <<run, sessions, ownerVars, worldVars, faults>>

\* The worker dies, or a call ends in an exception nobody catches.
Die(w) ==
  /\ att[w].pc # "idle"
  /\ Raise(w)
  /\ Fault
  /\ UNCHANGED <<sessions, ownerVars, worldVars>>

\* A timeout gives the attempt up; its worker goes on without knowing.
GiveUp(w) ==
  /\ wf.worker = w
  /\ overlaps < MaxOverlaps
  /\ overlaps' = overlaps + 1
  /\ Fault
  /\ wf' = Retried(w)
  /\ UNCHANGED <<run, sessions, connection, eligible, youtube, att, ownerVars>>

-----------------------------------------------------------------------------
(* The steps of run_step. *)

Frame == UNCHANGED <<wf, ownerVars, worldVars, faults>>
FaultFrame == Fault /\ UNCHANGED <<wf, ownerVars, worldVars>>

At(w, steps) == att[w].pc = "work" /\ att[w].step \in steps

Passes == eligible /\ connection # "reauthorization_required"

Revalidate(w) ==
  /\ att[w].pc = "revalidate"
  /\ Passes
  /\ Go(w, "work")
  /\ UNCHANGED sessions
  /\ Frame

Ineligible(w) ==
  /\ att[w].pc = "revalidate"
  /\ ~Passes
  /\ Park(w, IF att[w].run.video = 0 THEN "FAILED" ELSE "HUMAN_REVIEW_REQUIRED")
  /\ UNCHANGED sessions
  /\ Frame

\* _mark_ready
Validate(w) ==
  /\ At(w, {"validate"})
  /\ LET r == att[w].run
     IN  Commit(w, IF r.video = 0 /\ r.status \in PreUpload
                   THEN [r EXCEPT !.status = "READY"] ELSE r, "answer")
  /\ UNCHANGED sessions
  /\ Frame

NeedsToken(w) ==
  \/ At(w, {"refresh"})
  \/ At(w, {"initialize", "upload"}) /\ att[w].run.video = 0
  \/ At(w, {"captions", "thumbnail", "verify"}) /\ att[w].run.video # 0
  \/ /\ At(w, {"poll"})
     /\ att[w].run.video # 0
     /\ att[w].run.processing # "succeeded"

\* OAuthFlowError: the handler catches it and the run keeps its status.
TokenRefused(w) ==
  /\ NeedsToken(w)
  /\ Go(w, "answer")
  /\ \/ /\ connection = "revoked"
        /\ connection' = "reauthorization_required"
        /\ UNCHANGED faults
     \/ /\ connection # "revoked"
        /\ Fault
        /\ UNCHANGED connection
     \/ /\ att[w].step = "refresh"   \* the channel is another one
        /\ Fault
        /\ connection' = "reauthorization_required"
  /\ UNCHANGED <<sessions, wf, ownerVars, eligible, youtube, overlaps>>

\* Nothing to do, or nothing that changes the run: the channel is the one
\* expected; the thumbnail is set, skipped or refused.
Skip(w) ==
  /\ \/ At(w, {"refresh", "thumbnail"})
     \/ At(w, {"initialize", "upload"}) /\ att[w].run.video # 0
     \/ At(w, {"captions", "verify"}) /\ att[w].run.video = 0
     \/ At(w, {"poll"}) /\ (att[w].run.video = 0 \/ att[w].run.processing = "succeeded")
  /\ Go(w, "answer")
  /\ UNCHANGED sessions
  /\ Frame

\* transition(), and what its PublicationStateError does
MoveTo(w, new, pc) ==
  IF May(att[w].run.status, new.status)
  THEN Commit(w, new, pc) /\ UNCHANGED wf
  ELSE Raise(w)

MoveFrame == UNCHANGED <<ownerVars, worldVars, faults>>

BeginUpload(w) ==
  /\ At(w, {"initialize", "upload"})
  /\ att[w].run.video = 0
  /\ Active = {}
  /\ MoveTo(w, [att[w].run EXCEPT !.status = "UPLOAD_INITIALIZING"], "init")
  /\ UNCHANGED sessions
  /\ MoveFrame

ResumeUpload(w) ==
  /\ At(w, {"initialize", "upload"})
  /\ att[w].run.video = 0
  /\ \E s \in Active :
       att' = [att EXCEPT ![w].session = s, ![w].confirmed = sessions[s].confirmed,
                          ![w].pc = "uploading"]
  /\ UNCHANGED <<run, sessions>>
  /\ Frame

\* Initializes at YouTube and persists the session, which the index of the
\* active one refuses if there is another.  A session that is not persisted is
\* never used.
OpenSession(w) ==
  /\ att[w].pc = "init"
  /\ IF Active = {}
     THEN /\ \E s \in Unused :
               /\ \A u \in Unused : s <= u
               /\ sessions' = [sessions EXCEPT ![s] = [status |-> "active", confirmed |-> 0]]
               /\ att' = [att EXCEPT ![w].session = s, ![w].confirmed = 0,
                                     ![w].pc = "uploading"]
          /\ UNCHANGED <<run, wf>>
     ELSE Raise(w) /\ UNCHANGED sessions
  /\ MoveFrame

\* _classify: an error without a state of its own fails a run without video
InitRefused(w) ==
  /\ att[w].pc = "init"
  /\ \E t \in Parked \cup {"FAILED"} : Park(w, t)
  /\ UNCHANGED sessions
  /\ FaultFrame

BeginDrive(w) ==
  /\ att[w].pc = "uploading"
  /\ IF May(att[w].run.status, "UPLOADING")
     THEN /\ Flush(att[w].run, [att[w].run EXCEPT !.status = "UPLOADING"])
          /\ att' = [att EXCEPT ![w].run.status = "UPLOADING",
                                ![w].chunk = att[w].confirmed,
                                ![w].pc = IF att[w].confirmed > 0 THEN "query" ELSE "send"]
          /\ UNCHANGED wf
     ELSE Raise(w)
  /\ UNCHANGED sessions
  /\ MoveFrame

-----------------------------------------------------------------------------
(* ResumableUploader.drive *)

Held(w) == youtube[att[w].session].held
Gone(w) == youtube[att[w].session].gone

\* an answer: the video, or what YouTube holds by then
Answered(w, chunk, pc) ==
  /\ IF Held(w) = Chunks THEN Checkpoint(w, Chunks, Chunks, "record")
                         ELSE Checkpoint(w, Held(w), chunk, pc)
  /\ UNCHANGED run
  /\ Frame

\* The plan starts at what YouTube holds and is not corrected later.
Query(w) ==
  /\ att[w].pc = "query"
  /\ ~Gone(w)
  /\ Answered(w, Held(w), "send")

\* Every chunk was sent and no answer named a video.
QueryFinal(w) ==
  /\ att[w].pc = "final"
  /\ ~Gone(w)
  /\ IF Held(w) = Chunks THEN Checkpoint(w, Chunks, Chunks, "record") /\ UNCHANGED run
                         ELSE Go(w, "answer") /\ UNCHANGED sessions
  /\ Frame

QueryFails(w) ==
  /\ att[w].pc \in {"query", "final"}
  /\ \E t \in Parked \cup {"FAILED"} : Park(w, t)
  /\ UNCHANGED sessions
  /\ FaultFrame

\* YouTube receives a chunk, and keeps it if it is the next ...
Transfer(w) ==
  /\ att[w].pc = "send"
  /\ ~Gone(w)
  /\ youtube' = IF att[w].chunk = Held(w)
                THEN [youtube EXCEPT ![att[w].session].held = @ + 1] ELSE youtube
  /\ Go(w, "sent")
  /\ UNCHANGED <<sessions, wf, ownerVars, connection, eligible, overlaps, faults>>

\* ... or not even then.
Drop(w) ==
  /\ att[w].pc = "send"
  /\ ~Gone(w)
  /\ Go(w, "sent")
  /\ UNCHANGED sessions
  /\ FaultFrame

\* Its answer arrives.  The activity may have sent as many as it may.
Acknowledge(w) ==
  /\ att[w].pc = "sent"
  /\ ~Gone(w)
  /\ LET next == att[w].chunk + 1
     IN  IF next = Chunks THEN Answered(w, next, "final")
         ELSE \E pc \in {"send", "answer"} : Answered(w, next, pc)

\* The chunk failed, or its answer was lost.
ChunkFails(w) ==
  /\ att[w].pc \in {"send", "sent"}
  /\ \E y \in {"none"} \cup Parked :
       att' = [att EXCEPT ![w].why = y, ![w].pc = "resolve"]
  /\ UNCHANGED <<run, sessions>>
  /\ FaultFrame

\* _resolve_after_interruption
Resolve(w) ==
  /\ att[w].pc = "resolve"
  /\ ~Gone(w)
  /\ Answered(w, att[w].chunk, IF att[w].why = "none" THEN "answer" ELSE "park")

Ambiguous(w) == Mark(w, "ambiguous") /\ Park(w, "HUMAN_REVIEW_REQUIRED")

ResolveGone(w) ==
  /\ att[w].pc = "resolve"
  /\ Gone(w)
  /\ Ambiguous(w)
  /\ Frame

ResolveFails(w) ==
  /\ att[w].pc = "resolve"
  /\ Ambiguous(w)
  /\ FaultFrame

ParkUpload(w) ==
  /\ att[w].pc = "park"
  /\ Park(w, att[w].why)
  /\ UNCHANGED sessions
  /\ Frame

\* Mutant: any session that expired is replaced.
ReplaceAny(w) == TRUE

\* nothing was confirmed, so no video can exist
Replaceable(w) == att[w].confirmed = 0

\* The session is gone: with the last chunk in flight nobody can tell whether
\* there is a video.
SessionGone(w) ==
  /\ att[w].pc \in {"query", "send", "sent", "final"}
  /\ Gone(w)
  /\ IF att[w].pc = "final" \/ (att[w].pc # "query" /\ att[w].chunk + 1 = Chunks)
     THEN Ambiguous(w)
     ELSE /\ Mark(w, "expired")
          /\ Park(w, IF Replaceable(w) THEN "UPLOAD_INITIALIZING" ELSE "HUMAN_REVIEW_REQUIRED")
  /\ Frame

Record(w) ==
  /\ att[w].pc = "record"
  /\ sessions' = [sessions EXCEPT ![att[w].session] =
                    [status |-> "completed", confirmed |-> Chunks]]
  /\ Commit(w, [att[w].run EXCEPT !.video = att[w].session, !.status = "PROCESSING"], "answer")
  /\ Frame

-----------------------------------------------------------------------------
(* Processing, captions, verification. *)

OfVideo(w, step) == At(w, {step}) /\ att[w].run.video # 0

\* _await_processing; retryable errors only wait
Poll(w) ==
  /\ OfVideo(w, "poll")
  /\ att[w].run.processing # "succeeded"
  /\ LET seen == youtube[att[w].run.video].processed
         new  == [att[w].run EXCEPT !.processing = seen]
     IN  \/ /\ seen = "succeeded"
            /\ MoveTo(w, [new EXCEPT !.status = "UPLOADING_CAPTIONS"], "answer")
         \/ /\ seen = "failed"
            /\ Commit(w, Failed(new, "PROCESSING_FAILED"), "answer")
            /\ UNCHANGED wf
         \/ /\ seen = "processing"
            /\ Commit(w, new, "answer")
            /\ UNCHANGED wf
  /\ UNCHANGED sessions
  /\ MoveFrame

PollRefused(w) ==
  /\ OfVideo(w, "poll")
  /\ att[w].run.processing # "succeeded"
  /\ \E t \in {"REAUTHORIZATION_REQUIRED", "HUMAN_REVIEW_REQUIRED"} : Park(w, t)
  /\ UNCHANGED sessions
  /\ FaultFrame

\* With or without its caption track the run goes on.
Captions(w) ==
  /\ OfVideo(w, "captions")
  /\ MoveTo(w, [att[w].run EXCEPT !.status = "UPLOADING_THUMBNAIL"], "answer")
  /\ UNCHANGED sessions
  /\ MoveFrame

CaptionChanged(w) ==
  /\ OfVideo(w, "captions")
  /\ Park(w, "HUMAN_REVIEW_REQUIRED")
  /\ UNCHANGED sessions
  /\ FaultFrame

Verify(w) ==
  /\ OfVideo(w, "verify")
  /\ MoveTo(w, [att[w].run EXCEPT !.status = "PRIVATE_READY"], "answer")
  /\ UNCHANGED sessions
  /\ MoveFrame

VerifyRefused(w) ==
  /\ OfVideo(w, "verify")
  /\ \E t \in Parked \cup Review : Park(w, t)
  /\ UNCHANGED sessions
  /\ FaultFrame

-----------------------------------------------------------------------------
(* The owner: cancel and visibility. *)

workerVars == <<wf, att, overlaps>>

Ask(pc, session) ==
  /\ owner.pc = "none"
  /\ requests < MaxRequests
  /\ requests' = requests + 1
  /\ owner' = [pc |-> pc, run |-> run, session |-> session]
  /\ UNCHANGED <<run, sessions, connection, eligible, youtube, workerVars, faults>>

AskCancel ==
  /\ run.status \in Cancellable
  /\ run.video = 0
  /\ IF Active = {} THEN Ask("cancel", 0) ELSE \E s \in Active : Ask("cancel", s)

\* best effort
CancelSession ==
  /\ owner.pc = "cancel"
  /\ owner' = [owner EXCEPT !.pc = "commit"]
  /\ \/ UNCHANGED youtube
     \/ /\ owner.session # 0
        /\ youtube' = [youtube EXCEPT ![owner.session].gone = TRUE]
  /\ UNCHANGED <<run, sessions, connection, eligible, workerVars, requests, faults>>

\* Commits, then signals the workflow.
CommitCancel ==
  /\ owner.pc = "commit"
  /\ owner' = NoRequest
  /\ sessions' = IF owner.session = 0 THEN sessions
                 ELSE [sessions EXCEPT ![owner.session].status = "cancelled"]
  /\ Flush(owner.run, [owner.run EXCEPT !.status = "CANCELLED"])
  /\ wf' = [wf EXCEPT !.cancelled = wf.state # "closed"]
  /\ UNCHANGED <<connection, eligible, youtube, att, overlaps, requests, faults>>

\* Mutant: the processing state is not looked at.
VisibilityWithoutProcessing == run.video # 0

VisibilityOpen == run.video # 0 /\ run.processing = "succeeded"

AskVisibility == VisibilityOpen /\ Ask("mark", 0)

OwnerFrame == UNCHANGED <<sessions, connection, eligible, workerVars, requests>>

\* The decision is committed before YouTube is asked; a state the machine
\* forbids ends the request.
MarkVisibility ==
  /\ owner.pc = "mark"
  /\ IF Passes /\ May(owner.run.status, "VISIBILITY_UPDATING")
     THEN LET new == [owner.run EXCEPT !.status = "VISIBILITY_UPDATING", !.decided = TRUE]
          IN  Flush(owner.run, new) /\ owner' = [owner EXCEPT !.pc = "update", !.run = new]
     ELSE /\ owner' = NoRequest
          /\ IF Passes THEN UNCHANGED run
             ELSE Flush(owner.run, Failed(owner.run, "HUMAN_REVIEW_REQUIRED"))
  /\ UNCHANGED <<youtube, faults>>
  /\ OwnerFrame

UpdateVisibility ==
  /\ owner.pc = "update"
  /\ youtube' = [youtube EXCEPT ![owner.run.video].privacy = "public"]
  /\ owner' = [owner EXCEPT !.pc = "updated"]
  /\ UNCHANGED <<run, faults>>
  /\ OwnerFrame

Publish ==
  /\ owner.pc = "updated"
  /\ Flush(owner.run, [owner.run EXCEPT !.status = "PUBLISHED"])
  /\ owner' = NoRequest
  /\ UNCHANGED <<youtube, faults>>
  /\ OwnerFrame

\* An error answer, whether or not the change took effect.
VisibilityFails ==
  /\ owner.pc \in {"update", "updated"}
  /\ \E t \in Parked \cup {"PRIVATE_READY"} : Flush(owner.run, Failed(owner.run, t))
  /\ owner' = NoRequest
  /\ Fault
  /\ UNCHANGED youtube
  /\ OwnerFrame

\* The request dies, or a call ends in an exception.
RequestDies ==
  /\ owner.pc # "none"
  /\ owner' = NoRequest
  /\ Fault
  /\ UNCHANGED <<run, youtube>>
  /\ OwnerFrame

-----------------------------------------------------------------------------
(* YouTube and the project. *)

programVars == <<run, sessions, wf, att, owner, requests, overlaps>>

Process(s) ==
  /\ s \in Videos
  /\ youtube[s].processed = "processing"
  /\ \/ /\ youtube' = [youtube EXCEPT ![s].processed = "succeeded"]
        /\ UNCHANGED faults
     \/ /\ youtube' = [youtube EXCEPT ![s].processed = "failed"]
        /\ Fault
  /\ UNCHANGED <<programVars, connection, eligible>>

Collect(s) ==
  /\ sessions[s].status # "none"
  /\ ~youtube[s].gone
  /\ youtube' = [youtube EXCEPT ![s].gone = TRUE]
  /\ Fault
  /\ UNCHANGED <<programVars, connection, eligible>>

RevokeGrant ==
  /\ connection = "connected"
  /\ connection' = "revoked"
  /\ Fault
  /\ UNCHANGED <<programVars, eligible, youtube>>

Reconnect ==
  /\ connection # "connected"
  /\ connection' = "connected"
  /\ UNCHANGED <<programVars, eligible, youtube, faults>>

SelectOtherRender ==
  /\ eligible
  /\ eligible' = FALSE
  /\ Fault
  /\ UNCHANGED <<programVars, connection, youtube>>

-----------------------------------------------------------------------------
UploadStep(w) ==
  \/ BeginUpload(w) \/ ResumeUpload(w) \/ OpenSession(w) \/ InitRefused(w)
  \/ BeginDrive(w) \/ Query(w) \/ QueryFinal(w) \/ QueryFails(w) \/ Transfer(w)
  \/ Drop(w) \/ Acknowledge(w) \/ ChunkFails(w) \/ Resolve(w) \/ ResolveGone(w) \/ ResolveFails(w)
  \/ ParkUpload(w) \/ SessionGone(w) \/ Record(w)

VideoStep(w) ==
  \/ Poll(w) \/ PollRefused(w) \/ Captions(w) \/ CaptionChanged(w)
  \/ Verify(w) \/ VerifyRefused(w)

WorkerStep(w) ==
  \/ Take(w) \/ Revalidate(w) \/ Ineligible(w) \/ Validate(w) \/ TokenRefused(w)
  \/ Skip(w) \/ UploadStep(w) \/ VideoStep(w) \/ Answer(w)

OwnerStep ==
  \/ CancelSession \/ CommitCancel \/ MarkVisibility \/ UpdateVisibility
  \/ Publish \/ VisibilityFails \/ RequestDies

Next ==
  \/ Start
  \/ \E w \in Worker : WorkerStep(w) \/ Die(w) \/ GiveUp(w)
  \/ AskCancel \/ AskVisibility \/ OwnerStep
  \/ \E s \in Session : Process(s) \/ Collect(s)
  \/ RevokeGrant \/ Reconnect \/ SelectOtherRender

Spec == Init /\ [][Next]_vars

\* Workers go on, requests end, and the owner starts a publication that stopped
\* until it is finished.  Faults, deaths and outside changes owe nothing.
FairSpec ==
  /\ Spec
  /\ \A w \in Worker : WF_vars(WorkerStep(w))
  /\ WF_vars(CancelSession \/ CommitCancel \/ MarkVisibility \/ UpdateVisibility \/ Publish)
  /\ WF_vars(Start)

-----------------------------------------------------------------------------
(* Properties. *)

\* No attempt was given up while its worker went on, and no session was cancelled
\* under one: what the two do is in the README.
Alone == overlaps = 0 /\ \A s \in Session : sessions[s].status # "cancelled"

\* However an upload is interrupted and resumed, YouTube makes one video of the
\* render, and the row names none but that one.
AtMostOneVideo ==
  Alone => /\ Cardinality(Videos) <= 1
           /\ run.video # 0 => run.video \in Videos

\* A checkpoint counts no chunk that YouTube does not hold, so no resume skips one.
ServerConfirmed ==
  \A s \in Session : sessions[s].confirmed <= youtube[s].held

\* A video is public by a recorded decision of the owner, whichever stale copy of
\* the row is written after it, and only when YouTube had finished processing it.
PublicIsDecided ==
  \A s \in Session :
    youtube[s].privacy = "public" =>
      run.decided /\ (Alone => youtube[s].processed = "succeeded")

\* No stale copy written through makes a row that the CHECKs of publication_runs
\* refuse: a state after the upload has its video, and a published video was
\* processed, unless an attempt that was given up polled another video.
RowIsAccepted ==
  /\ run.status \in WithVideo => run.video # 0
  /\ run.status = "PUBLISHED" /\ overlaps = 0 => run.processing = "succeeded"

\* The recorded video is never lost or replaced, whichever stale copy of the row
\* a request writes after it.
VideoIsKept == [][Alone /\ run.video # 0 => run'.video = run.video]_vars

\* A workflow ends, whatever fails and however long YouTube processes.
WorkflowCloses == wf.state # "closed" ~> wf.state = "closed"

\* An upload that began is not left half done if the owner resumes it: it gets its
\* video, or waits in a state that says for what.
UploadSettles ==
  run.status \in {"UPLOAD_INITIALIZING", "UPLOADING"}
    ~> run.status \notin {"UPLOAD_INITIALIZING", "UPLOADING"}

\* Neither a workflow nor an upload hangs: one closes and the other comes to rest
\* in a state that says what it waits for.
PublicationSettles == WorkflowCloses /\ UploadSettles

=============================================================================
