------------------------- MODULE PublicationProofs -------------------------
(***************************************************************************)
(* Theorems about Publication, for every number of workers, chunks and     *)
(* sessions and every bound: the drive of an upload, then one render, one  *)
(* video and a row that says so.                                           *)
(***************************************************************************)
EXTENDS Publication, FiniteSetTheorems, TLAPS

-----------------------------------------------------------------------------
(* The inductive invariant. *)

Driving == {"uploading", "query", "send", "sent", "final", "resolve", "park", "record"}

\* A drive has a session, believes of it no more than YouTube holds, sends only
\* chunks the render has, records a video that exists, and parks for a reason.
DriveIsSound(w) ==
  /\ att[w].pc \in Driving =>
       /\ att[w].session \in Session
       /\ att[w].confirmed <= youtube[att[w].session].held
  /\ att[w].pc \in {"send", "sent"} => att[w].chunk < Chunks
  /\ att[w].pc = "record" => youtube[att[w].session].held = Chunks
  /\ att[w].pc = "park" => att[w].why \in Parked

\* The loops of the workflow count up to their bound.
RoundsAreLeft == wf.step \in {"upload", "poll"} => wf.rounds < MaxRounds

IInv ==
  /\ TypeOK
  /\ \A w \in Worker : DriveIsSound(w)
  /\ RoundsAreLeft
  /\ ServerConfirmed

-----------------------------------------------------------------------------
(* Lemmas about the building blocks of the actions. *)

USE DEF Session, Video

\* A row stays a row when one of its columns is set.
LEMMA RowColumns ==
  ASSUME NEW x \in Row
  PROVE  /\ \A v \in Status : [x EXCEPT !.status = v] \in Row
         /\ \A v \in Video : [x EXCEPT !.video = v] \in Row
         /\ \A v \in {"none", "processing", "succeeded", "failed"} :
              [x EXCEPT !.processing = v] \in Row
BY DEF Row

\* A flush of two rows leaves a row.
LEMMA FlushKeepsRow ==
  ASSUME NEW old \in Row, NEW new \in Row, run \in Row, Flush(old, new)
  PROVE  run' \in Row
BY DEF Flush, Changed, Row

LEMMA FailedIsRow ==
  ASSUME NEW r \in Row, NEW t \in Status
  PROVE  Failed(r, t) \in Row
BY RowColumns DEF Failed

\* What an attempt may carry from one step to the next.
LEMMA AttemptColumns ==
  ASSUME NEW a \in Attempt
  PROVE  /\ \A v \in Row : [a EXCEPT !.run = v] \in Attempt
         /\ \A v \in 0 .. Chunks : [a EXCEPT !.confirmed = v] \in Attempt
         /\ \A v \in 0 .. Chunks : [a EXCEPT !.chunk = v] \in Attempt
         /\ \A v \in Video : [a EXCEPT !.session = v] \in Attempt
         /\ \A v \in {"none"} \cup Parked : [a EXCEPT !.why = v] \in Attempt
         /\ \A v \in {"idle", "revalidate", "work", "init", "uploading", "query", "send",
                      "sent", "final", "resolve", "park", "record", "answer"} :
              [a EXCEPT !.pc = v] \in Attempt
BY DEF Attempt

\* Whoever takes no step stays sound: YouTube never loses a chunk.
LEMMA BystanderIsSound ==
  ASSUME TypeOK, TypeOK', NEW v \in Worker, DriveIsSound(v), att'[v] = att[v],
         \A s \in Session : youtube[s].held <= youtube'[s].held
  PROVE  DriveIsSound(v)'
<1>1. att[v] \in Attempt /\ \A s \in Session : youtube[s].held \in 0 .. Chunks
                          /\ youtube'[s].held \in 0 .. Chunks
  BY DEF TypeOK, Upload
<1>2. att[v].confirmed \in 0 .. Chunks BY <1>1 DEF Attempt
<1> QED BY <1>1, <1>2, PublicationAssumption DEF DriveIsSound, Driving

\* The invariant after a step of one worker, from what the step leaves.
LEMMA WorkerKeeps ==
  ASSUME IInv, NEW w \in Worker, NEW a \in Attempt,
         att' = [att EXCEPT ![w] = a],
         run' \in Row, sessions' \in [Session -> SessionRow],
         wf' \in Execution, RoundsAreLeft',
         connection' \in {"connected", "revoked", "reauthorization_required"},
         youtube' \in [Session -> Upload], UNCHANGED <<eligible, owner, requests>>,
         faults' \in 0 .. MaxFaults, overlaps' \in 0 .. MaxOverlaps,
         \A s \in Session : youtube[s].held <= youtube'[s].held,
         ServerConfirmed', DriveIsSound(w)'
  PROVE  IInv'
<1>1. TypeOK' BY DEF IInv, TypeOK
<1>2. ASSUME NEW v \in Worker PROVE DriveIsSound(v)'
  <2>1. CASE v = w BY <2>1
  <2>2. CASE v # w BY <1>1, <2>2, BystanderIsSound DEF IInv, TypeOK
  <2> QED BY <2>1, <2>2
<1> QED BY <1>1, <1>2 DEF IInv

\* Between two drives an attempt owes the invariant nothing.
LEMMA RestingKeeps ==
  ASSUME IInv, NEW w \in Worker, NEW a \in Attempt, a.pc \notin Driving,
         att' = [att EXCEPT ![w] = a],
         run' \in Row, UNCHANGED <<sessions, youtube>>,
         wf' \in Execution, RoundsAreLeft',
         connection' \in {"connected", "revoked", "reauthorization_required"},
         UNCHANGED <<eligible, owner, requests>>,
         faults' \in 0 .. MaxFaults, overlaps' \in 0 .. MaxOverlaps
  PROVE  IInv'
<1>1. DriveIsSound(w)' BY DEF DriveIsSound, Driving, IInv, TypeOK
<1>2. \A s \in Session : youtube[s].held <= youtube'[s].held BY DEF IInv, TypeOK, Upload
<1>3. ServerConfirmed' BY DEF IInv, ServerConfirmed
<1>4. sessions' \in [Session -> SessionRow] /\ youtube' \in [Session -> Upload]
  BY DEF IInv, TypeOK
<1> QED BY <1>1, <1>2, <1>3, <1>4, WorkerKeeps

LEMMA DraftIsRow == Draft \in Row
BY PublicationAssumption DEF Draft, Row, Status

LEMMA IdleIsAttempt == Idle \in Attempt /\ Idle.pc = "idle"
BY DraftIsRow, PublicationAssumption DEF Idle, Attempt, Steps

LEMMA FaultCounts ==
  ASSUME TypeOK, Fault
  PROVE  faults' \in 0 .. MaxFaults
BY PublicationAssumption DEF TypeOK, Fault

LEMMA ParkTypes ==
  ASSUME TypeOK, NEW w \in Worker, NEW t \in Status, Park(w, t)
  PROVE  \E new \in Row : Commit(w, new, "answer")
<1>1. att[w].run \in Row BY DEF TypeOK, Attempt
<1> QED BY <1>1, FailedIsRow DEF Park

\* An attempt that ends tries the step again or closes the workflow.
LEMMA RetriedIsSound ==
  ASSUME IInv, NEW w \in Worker
  PROVE  /\ Retried(w) \in Execution
         /\ Retried(w).step \in {"upload", "poll"} => Retried(w).rounds < MaxRounds
<1>1. wf \in Execution BY DEF IInv, TypeOK
<1>2. CASE Retried(w) = wf BY <1>1, <1>2 DEF IInv, RoundsAreLeft
<1>3. CASE Retried(w) = Closed BY <1>3, PublicationAssumption DEF Closed, Execution, Steps
<1>4. CASE /\ Retried(w) = [wf EXCEPT !.state = "due", !.tries = @ + 1, !.worker = None]
           /\ wf.tries + 1 < MaxTries
  <2>1. wf.tries + 1 \in 0 .. MaxTries BY <1>1, <1>4, PublicationAssumption DEF Execution
  <2>2. [wf EXCEPT !.state = "due", !.tries = @ + 1, !.worker = None] \in Execution
    BY <1>1, <2>1 DEF Execution
  <2> QED BY <1>1, <1>4, <2>2 DEF IInv, RoundsAreLeft, Execution
<1> QED BY <1>2, <1>3, <1>4 DEF Retried

\* The workflow chooses a step whose rounds are left.
LEMMA AfterStepIsSound ==
  ASSUME IInv
  PROVE  /\ AfterStep \in Execution
         /\ AfterStep.step \in {"upload", "poll"} => AfterStep.rounds < MaxRounds
<1>1. wf \in Execution /\ (wf.step \in {"upload", "poll"} => wf.rounds < MaxRounds)
  BY DEF IInv, TypeOK, RoundsAreLeft
<1>2. /\ Closed \in Execution
      /\ Closed.step \notin {"upload", "poll"}
  BY PublicationAssumption DEF Closed, Execution, Steps
<1>3. ASSUME NEW step \in Steps, NEW rounds \in 0 .. MaxRounds
      PROVE  /\ Scheduled(step, rounds) \in Execution
             /\ Scheduled(step, rounds).step = step
             /\ Scheduled(step, rounds).rounds = rounds
  <2>1. 0 \in 0 .. MaxTries BY PublicationAssumption
  <2>2. wf.state \in {"closed", "due", "busy"} /\ wf.cancelled \in BOOLEAN BY <1>1 DEF Execution
  <2> QED BY <1>1, <2>1, <2>2 DEF Scheduled, Execution
<1>4. Steps = {"validate", "refresh", "initialize", "upload", "poll", "captions",
               "thumbnail", "verify", "finalize"} /\ 0 \in 0 .. MaxRounds /\ 0 < MaxRounds
  BY PublicationAssumption DEF Steps
<1> DEFINE Good(x) == x \in Execution /\ (x.step \in {"upload", "poll"} => x.rounds < MaxRounds)
<1>5. Good(Closed) /\ Good(AfterUploads)
  BY <1>2, <1>3, <1>4 DEF AfterUploads
<1>6. ASSUME NEW rounds \in 0 .. MaxRounds PROVE Good(UploadLoop(rounds)) /\ Good(PollLoop(rounds))
  <2>1. Good(Scheduled("finalize", 0)) /\ Good(Scheduled("captions", 0)) BY <1>3, <1>4
  <2>2. CASE rounds = MaxRounds BY <1>5, <2>1, <2>2 DEF UploadLoop, PollLoop
  <2>3. CASE rounds # MaxRounds
    <3>1. Good(Scheduled("upload", rounds)) /\ Good(Scheduled("poll", rounds))
      BY <1>3, <1>4, <2>3, PublicationAssumption
    <3> QED BY <1>5, <2>1, <2>3, <3>1 DEF UploadLoop, PollLoop
  <2> QED BY <2>2, <2>3
<1>7. ASSUME NEW step \in Steps \ {"upload", "poll"} PROVE Good(Then(step))
  BY <1>3, <1>4, <1>5 DEF Then
<1>8. CASE wf.step = "validate" BY <1>4, <1>7, <1>8 DEF AfterStep
<1>9. CASE wf.step = "refresh" BY <1>4, <1>7, <1>9 DEF AfterStep
<1>10. CASE wf.step = "initialize" BY <1>4, <1>6, <1>10 DEF AfterStep
<1>11. CASE wf.step \in {"upload", "poll"}
  <2>1. wf.rounds + 1 \in 0 .. MaxRounds
    BY <1>1, <1>11, PublicationAssumption DEF Execution
  <2> QED BY <1>6, <1>11, <2>1 DEF AfterStep
<1>12. CASE wf.step \in {"captions", "thumbnail", "verify"} BY <1>4, <1>7, <1>12 DEF AfterStep
<1>13. CASE wf.step = "finalize" BY <1>5, <1>13 DEF AfterStep
<1>14. wf.step \in Steps BY <1>1 DEF Execution
<1> QED BY <1>4, <1>8, <1>9, <1>10, <1>11, <1>12, <1>13, <1>14

\* An exception ends the attempt.
LEMMA RaiseKeeps ==
  ASSUME IInv, NEW w \in Worker, Raise(w), UNCHANGED <<sessions, ownerVars, worldVars>>,
         faults' \in 0 .. MaxFaults
  PROVE  IInv'
<1>1. Idle \in Attempt /\ Idle.pc = "idle" BY IdleIsAttempt
<1>2. wf' \in Execution /\ RoundsAreLeft' BY RetriedIsSound DEF Raise, RoundsAreLeft
<1>3. run' \in Row /\ att' = [att EXCEPT ![w] = Idle] BY DEF Raise, IInv, TypeOK
<1>4. connection' \in {"connected", "revoked", "reauthorization_required"}
      /\ overlaps' \in 0 .. MaxOverlaps
  BY DEF IInv, TypeOK, worldVars
<1> QED BY <1>1, <1>2, <1>3, <1>4, RestingKeeps DEF Driving, ownerVars, worldVars

-----------------------------------------------------------------------------
(* One lemma per action, or per group of actions that write alike. *)

\* The steps that end in a commit or in an answer and touch no session.
LEMMA CommitKeeps ==
  ASSUME IInv, NEW w \in Worker, NEW new \in Row, NEW pc \in {"init", "answer"},
         Commit(w, new, pc), UNCHANGED <<sessions, wf, ownerVars, worldVars>>,
         faults' \in 0 .. MaxFaults
  PROVE  IInv'
<1> DEFINE a == [att[w] EXCEPT !.run = new, !.pc = pc]
<1>1. run' \in Row /\ a \in Attempt /\ a.pc = pc /\ att' = [att EXCEPT ![w] = a]
  <2>1. att[w] \in Attempt /\ att[w].run \in Row /\ run \in Row BY DEF IInv, TypeOK, Attempt
  <2>2. run' \in Row BY <2>1, FlushKeepsRow DEF Commit
  <2>3. a \in Attempt /\ a.pc = pc BY <2>1 DEF Attempt
  <2> QED BY <2>2, <2>3 DEF Commit
<1>2. a.pc \notin Driving BY <1>1 DEF Driving
<1>3. /\ wf' \in Execution /\ RoundsAreLeft'
      /\ connection' \in {"connected", "revoked", "reauthorization_required"}
      /\ overlaps' \in 0 .. MaxOverlaps
      /\ UNCHANGED <<sessions, youtube, eligible, owner, requests>>
  BY DEF IInv, TypeOK, RoundsAreLeft, ownerVars, worldVars
<1> HIDE DEF a
<1> QED BY <1>1, <1>2, <1>3, RestingKeeps

LEMMA ParkKeeps ==
  ASSUME IInv, NEW w \in Worker, NEW t \in Status, Park(w, t),
         UNCHANGED <<sessions, wf, ownerVars, worldVars>>, faults' \in 0 .. MaxFaults
  PROVE  IInv'
BY ParkTypes, CommitKeeps DEF IInv

LEMMA AnswerKeeps ==
  ASSUME IInv, NEW w \in Worker, Go(w, "answer") \/ Go(w, "work"),
         UNCHANGED <<sessions, wf, owner, requests, eligible, youtube, overlaps>>,
         connection' \in {"connected", "revoked", "reauthorization_required"},
         faults' \in 0 .. MaxFaults
  PROVE  IInv'
<1>1. run \in Row /\ att[w] \in Attempt BY DEF IInv, TypeOK
<1>2. PICK pc \in {"answer", "work"} : Go(w, pc) OBVIOUS
<1> DEFINE a == [att[w] EXCEPT !.pc = pc]
<1>3. run' \in Row /\ a \in Attempt /\ a.pc = pc /\ att' = [att EXCEPT ![w] = a]
  BY <1>1, <1>2 DEF Go, Attempt
<1>4. a.pc \notin Driving BY <1>3 DEF Driving
<1>5. /\ wf' \in Execution /\ RoundsAreLeft' /\ overlaps' \in 0 .. MaxOverlaps
      /\ UNCHANGED <<sessions, youtube, eligible, owner, requests>>
  BY DEF IInv, TypeOK, RoundsAreLeft
<1> HIDE DEF a
<1> QED BY <1>3, <1>4, <1>5, RestingKeeps

\* A transition commits, or raises.
LEMMA MoveKeeps ==
  ASSUME IInv, NEW w \in Worker, NEW new \in Row, NEW pc \in {"init", "answer"},
         MoveTo(w, new, pc), UNCHANGED sessions, MoveFrame
  PROVE  IInv'
<1>1. faults' \in 0 .. MaxFaults BY DEF MoveFrame, IInv, TypeOK
<1>2. CASE Commit(w, new, pc) /\ UNCHANGED wf
  BY <1>1, <1>2, CommitKeeps DEF MoveFrame, ownerVars, worldVars
<1>3. CASE Raise(w)
  BY <1>1, <1>3, RaiseKeeps DEF MoveFrame
<1> QED BY <1>2, <1>3 DEF MoveTo

\* The steps before the upload.
LEMMA PreludeKeeps ==
  ASSUME IInv, NEW w \in Worker,
         \/ Revalidate(w) \/ Ineligible(w) \/ Validate(w) \/ TokenRefused(w) \/ Skip(w)
  PROVE  IInv'
<1>1. /\ att[w].run \in Row /\ faults \in 0 .. MaxFaults
      /\ connection \in {"connected", "revoked", "reauthorization_required"}
  BY DEF IInv, TypeOK, Attempt
<1>2. CASE Revalidate(w)
  BY <1>1, <1>2, AnswerKeeps DEF Revalidate, Frame, ownerVars, worldVars
<1>3. CASE Ineligible(w)
  <2>1. {"FAILED", "HUMAN_REVIEW_REQUIRED"} \subseteq Status BY DEF Status
  <2> QED BY <1>1, <1>3, <2>1, ParkKeeps DEF Ineligible, Frame
<1>4. CASE Validate(w)
  <2> DEFINE r == att[w].run
             new == IF r.video = 0 /\ r.status \in PreUpload
                    THEN [r EXCEPT !.status = "READY"] ELSE r
  <2>1. new \in Row BY <1>1, RowColumns DEF Status
  <2> QED BY <1>1, <1>4, <2>1, CommitKeeps DEF Validate, Frame
<1>5. CASE TokenRefused(w)
  <2>1. faults' \in 0 .. MaxFaults
    BY <1>1, <1>5, FaultCounts DEF TokenRefused, IInv
  <2>2. connection' \in {"connected", "revoked", "reauthorization_required"}
    BY <1>1, <1>5 DEF TokenRefused
  <2> QED BY <1>5, <2>1, <2>2, AnswerKeeps DEF TokenRefused, ownerVars
<1>6. CASE Skip(w)
  BY <1>1, <1>6, AnswerKeeps DEF Skip, Frame, ownerVars, worldVars
<1> QED BY <1>2, <1>3, <1>4, <1>5, <1>6

\* What parks a run and touches no session.
LEMMA RefusalKeeps ==
  ASSUME IInv, NEW w \in Worker,
         \/ InitRefused(w) \/ QueryFails(w) \/ ParkUpload(w) \/ PollRefused(w)
         \/ CaptionChanged(w) \/ VerifyRefused(w)
  PROVE  IInv'
<1>1. Parked \cup Review \cup {"FAILED"} \subseteq Status BY DEF Parked, Review, Status
<1>2. faults \in 0 .. MaxFaults /\ att[w] \in Attempt BY DEF IInv, TypeOK
<1>3. ASSUME NEW t \in Status, Park(w, t), UNCHANGED sessions, FaultFrame PROVE IInv'
  BY <1>3, FaultCounts, ParkKeeps DEF FaultFrame, IInv
<1>4. CASE InitRefused(w) BY <1>1, <1>3, <1>4 DEF InitRefused
<1>5. CASE QueryFails(w) BY <1>1, <1>3, <1>5 DEF QueryFails
<1>6. CASE PollRefused(w) BY <1>1, <1>3, <1>6 DEF PollRefused, Review, Parked
<1>7. CASE CaptionChanged(w) BY <1>1, <1>3, <1>7 DEF CaptionChanged, Review
<1>8. CASE VerifyRefused(w) BY <1>1, <1>3, <1>8 DEF VerifyRefused
<1>9. CASE ParkUpload(w)
  <2>1. att[w].why \in Status BY <1>1, <1>9 DEF ParkUpload, IInv, DriveIsSound
  <2> QED BY <1>2, <1>9, <2>1, ParkKeeps DEF ParkUpload, Frame
<1> QED BY <1>4, <1>5, <1>6, <1>7, <1>8, <1>9

\* What is true of every attempt, session and upload, for the leaves below.
LEMMA Shapes ==
  ASSUME TypeOK, NEW w \in Worker
  PROVE  /\ att[w] \in Attempt /\ att[w].run \in Row /\ att[w].step \in Steps
         /\ att[w].session \in Video /\ att[w].why \in {"none"} \cup Parked
         /\ att[w].confirmed \in 0 .. Chunks /\ att[w].chunk \in 0 .. Chunks
         /\ \A s \in Session : /\ youtube[s] \in Upload /\ youtube[s].held \in 0 .. Chunks
                               /\ sessions[s] \in SessionRow
                               /\ sessions[s].confirmed \in 0 .. Chunks
         /\ run \in Row /\ wf \in Execution /\ faults \in 0 .. MaxFaults
         /\ overlaps \in 0 .. MaxOverlaps
         /\ connection \in {"connected", "revoked", "reauthorization_required"}
BY DEF TypeOK, Attempt, Upload, SessionRow

\* A drive's step that changes nothing outside its own attempt and its session.
LEMMA DriveKeeps ==
  ASSUME IInv, NEW w \in Worker, NEW a \in Attempt,
         att' = [att EXCEPT ![w] = a],
         run' \in Row, sessions' \in [Session -> SessionRow], UNCHANGED <<wf, ownerVars>>,
         UNCHANGED <<connection, eligible, overlaps>>, faults' \in 0 .. MaxFaults,
         youtube' \in [Session -> Upload],
         \A s \in Session : youtube[s].held <= youtube'[s].held,
         \A s \in Session : sessions'[s].confirmed <= youtube'[s].held,
         a.pc \in Driving => /\ a.session \in Session
                             /\ a.confirmed <= youtube'[a.session].held,
         a.pc \in {"send", "sent"} => a.chunk < Chunks,
         a.pc = "record" => youtube'[a.session].held = Chunks,
         a.pc = "park" => a.why \in Parked
  PROVE  IInv'
<1>1. att'[w] = a BY DEF IInv, TypeOK
<1>2. DriveIsSound(w)' BY <1>1 DEF DriveIsSound
<1>3. ServerConfirmed' BY DEF ServerConfirmed
<1>4. wf' \in Execution /\ RoundsAreLeft' BY DEF IInv, TypeOK, RoundsAreLeft
<1>5. connection' \in {"connected", "revoked", "reauthorization_required"}
      /\ overlaps' \in 0 .. MaxOverlaps
  BY DEF IInv, TypeOK
<1>6. UNCHANGED <<eligible, owner, requests>> BY DEF ownerVars
<1> QED BY <1>2, <1>3, <1>4, <1>5, <1>6, WorkerKeeps

\* A checkpoint of what YouTube holds, and the step after it.
LEMMA CheckpointKeeps ==
  ASSUME IInv, NEW w \in Worker, NEW chunk \in 0 .. Chunks, NEW n \in 0 .. Chunks,
         NEW pc \in {"send", "final", "answer", "park", "record"},
         att[w].pc \in Driving, n = youtube[att[w].session].held,
         pc = "send" => chunk < Chunks, pc = "record" => n = Chunks,
         pc = "park" => att[w].why \in Parked,
         Checkpoint(w, n, chunk, pc), UNCHANGED run, Frame
  PROVE  IInv'
<1> DEFINE c == Larger(att[w].confirmed, n)
           a == [att[w] EXCEPT !.confirmed = c, !.chunk = chunk, !.pc = pc]
           s == att[w].session
<1>1. TypeOK BY DEF IInv
<1>2. s \in Session /\ att[w].confirmed <= n BY DEF IInv, DriveIsSound
<1>3. att[w] \in Attempt /\ att[w].confirmed \in 0 .. Chunks
      /\ \A u \in Session : /\ sessions[u] \in SessionRow /\ youtube[u].held \in 0 .. Chunks
                            /\ sessions[u].confirmed <= youtube[u].held
  BY <1>1, Shapes DEF IInv, ServerConfirmed
<1>4. c \in 0 .. Chunks /\ c <= n BY <1>2, <1>3 DEF Larger
<1>5. /\ a \in Attempt /\ a.pc = pc /\ a.chunk = chunk /\ a.session = s
      /\ a.confirmed = c /\ a.why = att[w].why
  BY <1>3, <1>4 DEF Attempt
<1>6. att' = [att EXCEPT ![w] = a] BY <1>1, <1>3 DEF Checkpoint, TypeOK
<1>7. /\ sessions' \in [Session -> SessionRow]
      /\ \A u \in Session : sessions'[u].confirmed <= youtube[u].held
  <2>1. CASE sessions' = sessions BY <1>1, <1>3, <2>1 DEF TypeOK
  <2>2. CASE sessions' = [sessions EXCEPT ![s].confirmed = c]
    <3>1. [sessions[s] EXCEPT !.confirmed = c] \in SessionRow
          /\ [sessions[s] EXCEPT !.confirmed = c].confirmed = c
      BY <1>2, <1>3, <1>4 DEF SessionRow
    <3>2. sessions' = [sessions EXCEPT ![s] = [sessions[s] EXCEPT !.confirmed = c]]
      BY <2>2
    <3>3. \A u \in Session : sessions'[u] = IF u = s THEN [sessions[s] EXCEPT !.confirmed = c]
                                                     ELSE sessions[u]
      BY <1>1, <3>2 DEF TypeOK
    <3>4. \A u \in Session : sessions'[u].confirmed <= youtube[u].held
      BY <1>2, <1>3, <1>4, <3>1, <3>3
    <3> QED BY <1>1, <3>1, <3>2, <3>4 DEF TypeOK
  <2> QED BY <2>1, <2>2 DEF Checkpoint
<1>8. run' \in Row /\ youtube' = youtube /\ youtube \in [Session -> Upload]
      /\ faults' \in 0 .. MaxFaults /\ UNCHANGED <<connection, eligible, overlaps, wf, ownerVars>>
  BY <1>1 DEF Frame, worldVars, TypeOK
<1>9. \A u \in Session : youtube[u].held <= youtube'[u].held BY <1>3, <1>8
<1>10. pc \in Driving \/ pc = "answer" BY DEF Driving
<1>11. /\ a.session \in Session /\ a.confirmed <= youtube'[a.session].held
       /\ a.pc \in {"send", "sent"} => a.chunk < Chunks
       /\ a.pc = "record" => youtube'[a.session].held = Chunks
       /\ a.pc = "park" => a.why \in Parked
  BY <1>2, <1>4, <1>5, <1>8
<1> HIDE DEF a, c, s
<1> QED BY <1>5, <1>6, <1>7, <1>8, <1>9, <1>11, DriveKeeps

\* An answer of YouTube advances the checkpoint to what it holds.
LEMMA AnsweredKeeps ==
  ASSUME IInv, NEW w \in Worker, NEW chunk \in 0 .. Chunks,
         NEW pc \in {"send", "final", "answer", "park"},
         att[w].pc \in Driving, pc = "send" => chunk < Chunks \/ chunk = Held(w),
         pc = "park" => att[w].why \in Parked, Answered(w, chunk, pc)
  PROVE  IInv'
<1> DEFINE n == youtube[att[w].session].held
<1>1. n \in 0 .. Chunks /\ Held(w) = n
  BY Shapes DEF IInv, DriveIsSound, Held
<1>2. CASE n = Chunks
  <2>1. Checkpoint(w, n, Chunks, "record") /\ UNCHANGED run /\ Frame
    BY <1>1, <1>2 DEF Answered
  <2>2. Chunks \in 0 .. Chunks BY PublicationAssumption
  <2> HIDE DEF n
  <2> QED BY <1>1, <1>2, <2>1, <2>2, CheckpointKeeps DEF n
<1>3. CASE n # Chunks
  <2>1. Checkpoint(w, n, chunk, pc) /\ UNCHANGED run /\ Frame
    BY <1>1, <1>3 DEF Answered
  <2>2. pc = "send" => chunk < Chunks BY <1>1, <1>3, PublicationAssumption
  <2> QED BY <1>1, <2>1, <2>2, CheckpointKeeps
<1> QED BY <1>2, <1>3

\* The queries, the answers to chunks and the question after an interruption.
LEMMA AnswersKeep ==
  ASSUME IInv, NEW w \in Worker, Query(w) \/ QueryFinal(w) \/ Acknowledge(w) \/ Resolve(w)
  PROVE  IInv'
<1>1. TypeOK BY DEF IInv
<1>2. CASE Query(w)
  <2>1. att[w].pc \in Driving BY <1>2 DEF Query, Driving
  <2>2. Held(w) \in 0 .. Chunks BY <1>1, <2>1, Shapes DEF IInv, DriveIsSound, Held
  <2>3. Answered(w, Held(w), "send") BY <1>2 DEF Query
  <2> QED BY <2>1, <2>2, <2>3, AnsweredKeeps
<1>3. CASE QueryFinal(w)
  <2>1. att[w].pc \in Driving BY <1>3 DEF QueryFinal, Driving
  <2>2. CASE Held(w) = Chunks
    <3>1. Checkpoint(w, Chunks, Chunks, "record") /\ UNCHANGED run /\ Frame
      BY <1>3, <2>2 DEF QueryFinal
    <3>2. Chunks \in 0 .. Chunks BY PublicationAssumption
    <3> QED BY <2>1, <2>2, <3>1, <3>2, CheckpointKeeps DEF Held
  <2>3. CASE Held(w) # Chunks
    BY <1>1, <1>3, <2>3, AnswerKeeps, Shapes
    DEF QueryFinal, Frame, ownerVars, worldVars
  <2> QED BY <2>2, <2>3
<1>4. CASE Acknowledge(w)
  <2> DEFINE next == att[w].chunk + 1
  <2>1. att[w].pc \in Driving /\ att[w].pc = "sent" BY <1>4 DEF Acknowledge, Driving
  <2>2. next \in 0 .. Chunks
    BY <1>1, <2>1, Shapes, PublicationAssumption DEF IInv, DriveIsSound
  <2>3. CASE next = Chunks /\ Answered(w, next, "final")
    BY <2>1, <2>2, <2>3, AnsweredKeeps
  <2>4. CASE next # Chunks /\ \E pc \in {"send", "answer"} : Answered(w, next, pc)
    <3>1. next < Chunks BY <2>2, <2>4, PublicationAssumption
    <3> HIDE DEF next
    <3> QED BY <2>1, <2>2, <2>4, <3>1, AnsweredKeeps
  <2> QED BY <1>4, <2>3, <2>4 DEF Acknowledge
<1>5. CASE Resolve(w)
  <2>1. att[w].pc \in Driving /\ att[w].chunk \in 0 .. Chunks
    BY <1>1, <1>5, Shapes DEF Resolve, Driving
  <2>2. att[w].why # "none" => att[w].why \in Parked BY <1>1, Shapes
  <2>3. CASE att[w].why = "none" /\ Answered(w, att[w].chunk, "answer")
    BY <2>1, <2>3, AnsweredKeeps
  <2>4. CASE att[w].why # "none" /\ Answered(w, att[w].chunk, "park")
    BY <2>1, <2>2, <2>4, AnsweredKeeps
  <2> QED BY <1>5, <2>3, <2>4 DEF Resolve
<1> QED BY <1>2, <1>3, <1>4, <1>5

\* A chunk travels, or does not.
LEMMA ChunksKeep ==
  ASSUME IInv, NEW w \in Worker, Transfer(w) \/ Drop(w) \/ ChunkFails(w)
  PROVE  IInv'
<1> DEFINE s == att[w].session
<1>1. TypeOK BY DEF IInv
<1>2. att[w].pc \in {"send", "sent"} BY DEF Transfer, Drop, ChunkFails
<1>3. /\ s \in Session /\ att[w] \in Attempt
      /\ att[w].confirmed \in 0 .. Chunks /\ att[w].chunk \in 0 .. Chunks
      /\ att[w].confirmed <= youtube[s].held /\ att[w].chunk < Chunks
  BY <1>1, <1>2, Shapes DEF IInv, DriveIsSound, Driving
<1>4. /\ \A u \in Session : /\ youtube[u] \in Upload /\ youtube[u].held \in 0 .. Chunks
                            /\ sessions[u].confirmed \in 0 .. Chunks
                            /\ sessions[u].confirmed <= youtube[u].held
      /\ sessions \in [Session -> SessionRow] /\ youtube \in [Session -> Upload]
      /\ run \in Row /\ faults \in 0 .. MaxFaults
  BY <1>1, Shapes DEF IInv, ServerConfirmed, TypeOK
<1>5. CASE Transfer(w)
  <2> DEFINE a == [att[w] EXCEPT !.pc = "sent"]
             y == [youtube[s] EXCEPT !.held = @ + 1]
  <2>1. /\ a \in Attempt /\ a.pc = "sent" /\ a.session = s
        /\ a.confirmed = att[w].confirmed /\ a.chunk = att[w].chunk
    BY <1>3 DEF Attempt
  <2>2. att' = [att EXCEPT ![w] = a] /\ run' = run BY <1>5 DEF Transfer, Go
  <2>3. /\ youtube' \in [Session -> Upload]
        /\ \A u \in Session : youtube'[u].held \in 0 .. Chunks /\ youtube[u].held <= youtube'[u].held
    <3>1. CASE youtube' = youtube BY <1>4, <3>1
    <3>2. CASE att[w].chunk = Held(w) /\ youtube' = [youtube EXCEPT ![s].held = @ + 1]
      <4>1. y \in Upload /\ y.held = youtube[s].held + 1 /\ y.held \in 0 .. Chunks
        <5>1. youtube[s].held = att[w].chunk BY <3>2 DEF Held
        <5>2. youtube[s].held + 1 \in 0 .. Chunks BY <1>3, <5>1, PublicationAssumption
        <5>3. youtube[s] \in Upload BY <1>3, <1>4
        <5> QED BY <5>2, <5>3 DEF Upload
      <4>2. youtube' = [youtube EXCEPT ![s] = y] BY <3>2
      <4> HIDE DEF y
      <4>3. \A u \in Session : youtube'[u] = IF u = s THEN y ELSE youtube[u] BY <1>4, <4>2
      <4> QED BY <1>3, <1>4, <4>1, <4>2, <4>3
    <3> QED BY <1>5, <3>1, <3>2 DEF Transfer
  <2>4. UNCHANGED <<sessions, wf, ownerVars, connection, eligible, overlaps, faults>>
    BY <1>5 DEF Transfer
  <2>5. \A u \in Session : sessions'[u].confirmed <= youtube'[u].held BY <1>4, <2>3, <2>4
  <2>6. a.confirmed <= youtube'[a.session].held BY <1>3, <1>4, <2>1, <2>3
  <2> HIDE DEF a, s
  <2> QED BY <1>3, <1>4, <2>1, <2>2, <2>3, <2>4, <2>5, <2>6, DriveKeeps
<1>6. CASE Drop(w)
  <2> DEFINE a == [att[w] EXCEPT !.pc = "sent"]
  <2>1. /\ a \in Attempt /\ a.pc = "sent" /\ a.session = s
        /\ a.confirmed = att[w].confirmed /\ a.chunk = att[w].chunk
    BY <1>3 DEF Attempt
  <2>2. att' = [att EXCEPT ![w] = a] /\ run' = run BY <1>6 DEF Drop, Go
  <2>3. /\ UNCHANGED <<sessions, wf, ownerVars, connection, eligible, youtube, overlaps>>
        /\ faults' \in 0 .. MaxFaults
    BY <1>1, <1>6, FaultCounts DEF Drop, FaultFrame, worldVars
  <2>4. \A u \in Session : youtube[u].held <= youtube'[u].held
                           /\ sessions'[u].confirmed <= youtube'[u].held
    BY <1>4, <2>3
  <2> HIDE DEF a, s
  <2> QED BY <1>3, <1>4, <2>1, <2>2, <2>3, <2>4, DriveKeeps
<1>7. CASE ChunkFails(w)
  <2>1. PICK y \in {"none"} \cup Parked :
               att' = [att EXCEPT ![w].why = y, ![w].pc = "resolve"]
    BY <1>7 DEF ChunkFails
  <2> DEFINE a == [att[w] EXCEPT !.why = y, !.pc = "resolve"]
  <2>2. /\ a \in Attempt /\ a.pc = "resolve" /\ a.session = s /\ a.confirmed = att[w].confirmed
    BY <1>3 DEF Attempt
  <2>3. att' = [att EXCEPT ![w] = a] BY <1>1, <2>1 DEF TypeOK
  <2>4. /\ UNCHANGED <<run, sessions, wf, ownerVars, connection, eligible, youtube, overlaps>>
        /\ faults' \in 0 .. MaxFaults
    BY <1>1, <1>7, FaultCounts DEF ChunkFails, FaultFrame, worldVars
  <2>5. \A u \in Session : youtube[u].held <= youtube'[u].held
                           /\ sessions'[u].confirmed <= youtube'[u].held
    BY <1>4, <2>4
  <2> HIDE DEF a, s
  <2> QED BY <1>3, <1>4, <2>2, <2>3, <2>4, <2>5, DriveKeeps
<1> QED BY <1>5, <1>6, <1>7

\* A session is given up, and the run with it.
LEMMA MarkKeeps ==
  ASSUME IInv, NEW w \in Worker, att[w].pc \in Driving, NEW status \in {"expired", "ambiguous"},
         NEW t \in Status, Mark(w, status), Park(w, t), Frame \/ FaultFrame
  PROVE  IInv'
<1> DEFINE s == att[w].session
<1>1. TypeOK BY DEF IInv
<1>2. PICK new \in Row : Commit(w, new, "answer") BY <1>1, ParkTypes
<1> DEFINE a == [att[w] EXCEPT !.run = new, !.pc = "answer"]
<1>3. /\ att[w] \in Attempt /\ run \in Row /\ att[w].run \in Row /\ s \in Session
      /\ youtube \in [Session -> Upload] /\ sessions \in [Session -> SessionRow]
      /\ \A u \in Session : /\ sessions[u].confirmed \in 0 .. Chunks
                            /\ youtube[u].held \in 0 .. Chunks
                            /\ sessions[u].confirmed <= youtube[u].held
  BY <1>1, Shapes DEF IInv, DriveIsSound, TypeOK, ServerConfirmed
<1>4. a \in Attempt /\ a.pc = "answer" BY <1>3 DEF Attempt
<1>5. att' = [att EXCEPT ![w] = a] /\ run' \in Row BY <1>2, <1>3, FlushKeepsRow DEF Commit
<1>6. /\ sessions' \in [Session -> SessionRow]
      /\ \A u \in Session : sessions'[u].confirmed = sessions[u].confirmed
  <2>1. [sessions[s] EXCEPT !.status = status] \in SessionRow
        /\ [sessions[s] EXCEPT !.status = status].confirmed = sessions[s].confirmed
    BY <1>3 DEF SessionRow
  <2>2. sessions' = [sessions EXCEPT ![s] = [sessions[s] EXCEPT !.status = status]]
    BY <1>3 DEF Mark
  <2> QED BY <1>3, <2>1, <2>2
<1>7. /\ UNCHANGED <<wf, ownerVars, connection, eligible, youtube, overlaps>>
      /\ faults' \in 0 .. MaxFaults
  BY <1>1, FaultCounts DEF Frame, FaultFrame, worldVars, TypeOK
<1>8. \A u \in Session : youtube[u].held <= youtube'[u].held
                         /\ sessions'[u].confirmed <= youtube'[u].held
  BY <1>3, <1>6, <1>7
<1>9. a.pc \notin Driving BY <1>4 DEF Driving
<1> HIDE DEF a
<1> QED BY <1>3, <1>4, <1>5, <1>6, <1>7, <1>8, <1>9, DriveKeeps

LEMMA LossKeeps ==
  ASSUME IInv, NEW w \in Worker, ResolveGone(w) \/ ResolveFails(w) \/ SessionGone(w)
  PROVE  IInv'
<1>1. {"HUMAN_REVIEW_REQUIRED", "UPLOAD_INITIALIZING"} \subseteq Status BY DEF Status
<1>2. att[w].pc \in Driving BY DEF ResolveGone, ResolveFails, SessionGone, Driving
<1>3. CASE ResolveGone(w) \/ ResolveFails(w)
  BY <1>1, <1>2, <1>3, MarkKeeps DEF ResolveGone, ResolveFails, Ambiguous
<1>4. CASE SessionGone(w)
  BY <1>1, <1>2, <1>4, MarkKeeps DEF SessionGone, Ambiguous
<1> QED BY <1>3, <1>4

\* What leads into a drive.
LEMMA BeginningsKeep ==
  ASSUME IInv, NEW w \in Worker,
         \/ BeginUpload(w) \/ ResumeUpload(w) \/ OpenSession(w) \/ BeginDrive(w)
  PROVE  IInv'
<1>1. TypeOK BY DEF IInv
<1>2. /\ att[w] \in Attempt /\ att[w].run \in Row /\ run \in Row /\ faults \in 0 .. MaxFaults
      /\ att[w].confirmed \in 0 .. Chunks
      /\ youtube \in [Session -> Upload] /\ sessions \in [Session -> SessionRow]
      /\ \A u \in Session : /\ sessions[u].confirmed \in 0 .. Chunks
                            /\ youtube[u].held \in 0 .. Chunks
                            /\ sessions[u].confirmed <= youtube[u].held
  BY <1>1, Shapes DEF IInv, TypeOK, ServerConfirmed
<1>3. CASE BeginUpload(w)
  <2>1. [att[w].run EXCEPT !.status = "UPLOAD_INITIALIZING"] \in Row
    BY <1>2, RowColumns DEF Status
  <2> QED BY <1>3, <2>1, MoveKeeps DEF BeginUpload
<1>4. CASE ResumeUpload(w)
  <2>1. PICK s \in Session :
               att' = [att EXCEPT ![w].session = s, ![w].confirmed = sessions[s].confirmed,
                                  ![w].pc = "uploading"]
    BY <1>4 DEF ResumeUpload, Active
  <2> DEFINE a == [att[w] EXCEPT !.session = s, !.confirmed = sessions[s].confirmed,
                                 !.pc = "uploading"]
  <2>2. /\ a \in Attempt /\ a.pc = "uploading" /\ a.session = s
        /\ a.confirmed = sessions[s].confirmed
    <3> DEFINE c == sessions[s].confirmed
    <3>1. c \in 0 .. Chunks /\ s \in Video BY <1>2, PublicationAssumption
    <3>2. att[w] \in Attempt BY <1>2
    <3> HIDE DEF c
    <3>3. LET b == [att[w] EXCEPT !.session = s, !.confirmed = c, !.pc = "uploading"]
          IN  b \in Attempt /\ b.pc = "uploading" /\ b.session = s /\ b.confirmed = c
      BY <3>1, <3>2 DEF Attempt
    <3> QED BY <3>3 DEF c
  <2>3. att' = [att EXCEPT ![w] = a] BY <1>1, <2>1 DEF TypeOK
  <2>4. UNCHANGED <<run, sessions, wf, ownerVars, connection, eligible, youtube, overlaps, faults>>
    BY <1>4 DEF ResumeUpload, Frame, worldVars
  <2>5. \A u \in Session : youtube[u].held <= youtube'[u].held
                           /\ sessions'[u].confirmed <= youtube'[u].held
    BY <1>2, <2>4
  <2>6. a.confirmed <= youtube'[a.session].held BY <1>2, <2>2, <2>4
  <2> HIDE DEF a
  <2> QED BY <1>2, <2>2, <2>3, <2>4, <2>5, <2>6, DriveKeeps
<1>5. CASE OpenSession(w)
  <2>1. CASE Active = {}
    <3>1. PICK s \in Session :
                 /\ sessions' = [sessions EXCEPT ![s] = [status |-> "active", confirmed |-> 0]]
                 /\ att' = [att EXCEPT ![w].session = s, ![w].confirmed = 0,
                                       ![w].pc = "uploading"]
      BY <1>5, <2>1 DEF OpenSession, Unused
    <3> DEFINE a == [att[w] EXCEPT !.session = s, !.confirmed = 0, !.pc = "uploading"]
               new == [status |-> "active", confirmed |-> 0]
    <3>2. a \in Attempt /\ a.pc = "uploading" /\ a.session = s /\ a.confirmed = 0
      <4>1. 0 \in 0 .. Chunks /\ s \in Video BY PublicationAssumption
      <4>2. att[w] \in Attempt BY <1>2
      <4> QED BY <4>1, <4>2 DEF Attempt
    <3>3. att' = [att EXCEPT ![w] = a] BY <1>1, <3>1 DEF TypeOK
    <3>4. UNCHANGED <<run, wf, ownerVars, connection, eligible, youtube, overlaps, faults>>
      BY <1>5, <2>1 DEF OpenSession, MoveFrame, worldVars
    <3>5. new \in SessionRow /\ new.confirmed = 0 BY PublicationAssumption DEF SessionRow
    <3> HIDE DEF new
    <3>6. sessions' = [sessions EXCEPT ![s] = new] BY <3>1 DEF new
    <3>7. /\ sessions' \in [Session -> SessionRow]
          /\ \A u \in Session : sessions'[u] = IF u = s THEN new ELSE sessions[u]
      BY <1>2, <3>5, <3>6
    <3>8. \A u \in Session : youtube[u].held <= youtube'[u].held
                             /\ sessions'[u].confirmed <= youtube'[u].held
      BY <1>2, <3>4, <3>5, <3>7
    <3>9. a.confirmed <= youtube'[a.session].held BY <1>2, <3>2, <3>4
    <3> HIDE DEF a
    <3> QED BY <1>2, <3>2, <3>3, <3>4, <3>7, <3>8, <3>9, DriveKeeps
  <2>2. CASE Active # {}
    BY <1>2, <1>5, <2>2, RaiseKeeps DEF OpenSession, MoveFrame
  <2> QED BY <2>1, <2>2
<1>6. CASE BeginDrive(w)
  <2>1. CASE May(att[w].run.status, "UPLOADING")
    <3> DEFINE new == [att[w].run EXCEPT !.status = "UPLOADING"]
               pc == IF att[w].confirmed > 0 THEN "query" ELSE "send"
               a == [att[w] EXCEPT !.run = new, !.chunk = att[w].confirmed, !.pc = pc]
    <3>1. new \in Row BY <1>2, RowColumns DEF Status
    <3>2. run' \in Row BY <1>2, <1>6, <2>1, <3>1, FlushKeepsRow DEF BeginDrive
    <3>3. att' = [att EXCEPT ![w] = a] BY <1>1, <1>2, <1>6, <2>1 DEF BeginDrive, TypeOK
    <3> HIDE DEF new
    <3>4. /\ a \in Attempt /\ a.session = att[w].session /\ a.confirmed = att[w].confirmed
          /\ a.chunk = att[w].confirmed /\ a.pc = pc
      BY <1>2, <3>1 DEF Attempt
    <3>5. att[w].session \in Session /\ att[w].confirmed <= youtube[att[w].session].held
      BY <1>6 DEF BeginDrive, IInv, DriveIsSound, Driving
    <3>6. a.pc \in {"send", "sent"} => a.chunk < Chunks
      BY <1>2, <3>4, PublicationAssumption
    <3>7. UNCHANGED <<sessions, wf, ownerVars, connection, eligible, youtube, overlaps, faults>>
      BY <1>6, <2>1 DEF BeginDrive, MoveFrame, worldVars
    <3>8. \A u \in Session : youtube[u].held <= youtube'[u].held
                             /\ sessions'[u].confirmed <= youtube'[u].held
      BY <1>2, <3>7
    <3>9. a.confirmed <= youtube'[a.session].held /\ a.pc \in {"query", "send"}
      BY <3>4, <3>5, <3>7
    <3> HIDE DEF a
    <3> QED BY <1>2, <3>2, <3>3, <3>4, <3>5, <3>6, <3>7, <3>8, <3>9, DriveKeeps
  <2>2. CASE ~May(att[w].run.status, "UPLOADING")
    BY <1>2, <1>6, <2>2, RaiseKeeps DEF BeginDrive, MoveFrame
  <2> QED BY <2>1, <2>2
<1> QED BY <1>3, <1>4, <1>5, <1>6

\* The video is recorded, and the session with it.
LEMMA RecordKeeps ==
  ASSUME IInv, NEW w \in Worker, Record(w)
  PROVE  IInv'
<1> DEFINE s == att[w].session
           new == [att[w].run EXCEPT !.video = s, !.status = "PROCESSING"]
           a == [att[w] EXCEPT !.run = new, !.pc = "answer"]
           done == [status |-> "completed", confirmed |-> Chunks]
<1>1. TypeOK BY DEF IInv
<1>2. /\ att[w] \in Attempt /\ att[w].run \in Row /\ run \in Row /\ faults \in 0 .. MaxFaults
      /\ youtube \in [Session -> Upload] /\ sessions \in [Session -> SessionRow]
      /\ \A u \in Session : /\ sessions[u].confirmed \in 0 .. Chunks
                            /\ youtube[u].held \in 0 .. Chunks
                            /\ sessions[u].confirmed <= youtube[u].held
  BY <1>1, Shapes DEF IInv, TypeOK, ServerConfirmed
<1>3. s \in Session /\ youtube[s].held = Chunks
  BY DEF Record, IInv, DriveIsSound, Driving
<1>4. new \in Row
  <2>1. s \in Video BY <1>3, PublicationAssumption
  <2> QED BY <1>2, <2>1 DEF Row, Status
<1>5. Commit(w, new, "answer") /\ sessions' = [sessions EXCEPT ![s] = done] /\ Frame
  BY DEF Record
<1> HIDE DEF new
<1>6. a \in Attempt /\ a.pc = "answer" BY <1>2, <1>4 DEF Attempt
<1>7. run' \in Row /\ att' = [att EXCEPT ![w] = a]
  BY <1>2, <1>4, <1>5, FlushKeepsRow DEF Commit
<1>8. done \in SessionRow /\ done.confirmed = Chunks BY PublicationAssumption DEF SessionRow
<1> HIDE DEF done, a
<1>9. /\ sessions' \in [Session -> SessionRow]
      /\ \A u \in Session : sessions'[u] = IF u = s THEN done ELSE sessions[u]
  BY <1>2, <1>5, <1>8
<1>10. UNCHANGED <<wf, ownerVars, connection, eligible, youtube, overlaps, faults>>
  BY <1>5 DEF Frame, worldVars
<1>11. \A u \in Session : youtube[u].held <= youtube'[u].held
                          /\ sessions'[u].confirmed <= youtube'[u].held
  <2> SUFFICES ASSUME NEW u \in Session
               PROVE  youtube[u].held <= youtube[u].held
                      /\ sessions'[u].confirmed <= youtube[u].held
    BY <1>10
  <2>1. youtube[u].held \in 0 .. Chunks /\ sessions[u].confirmed <= youtube[u].held BY <1>2
  <2>2. CASE u = s
    <3>1. sessions'[u].confirmed = Chunks BY <1>8, <1>9, <2>2
    <3>2. youtube[u].held = Chunks BY <1>3, <2>2
    <3> HIDE DEF s
    <3> QED BY <3>1, <3>2, PublicationAssumption
  <2>3. CASE u # s
    <3>1. sessions'[u] = sessions[u] BY <1>9, <2>3
    <3> QED BY <2>1, <3>1
  <2> QED BY <2>2, <2>3
<1>12. a.pc \notin Driving BY <1>6 DEF Driving
<1> QED BY <1>2, <1>6, <1>7, <1>9, <1>10, <1>11, <1>12, DriveKeeps

\* Processing, captions, verification.
LEMMA VideoStepsKeep ==
  ASSUME IInv, NEW w \in Worker, Poll(w) \/ Captions(w) \/ Verify(w)
  PROVE  IInv'
<1>1. TypeOK /\ att[w].run \in Row /\ faults \in 0 .. MaxFaults BY Shapes DEF IInv
<1>2. {"UPLOADING_CAPTIONS", "UPLOADING_THUMBNAIL", "PRIVATE_READY", "PROCESSING_FAILED"}
        \subseteq Status
  BY DEF Status
<1>3. CASE Poll(w)
  <2> DEFINE seen == youtube[att[w].run.video].processed
             new == [att[w].run EXCEPT !.processing = seen]
  <2>1. seen \in {"succeeded", "failed", "processing"} BY <1>3 DEF Poll
  <2>2. new \in Row BY <1>1, <2>1, RowColumns
  <2>3. [new EXCEPT !.status = "UPLOADING_CAPTIONS"] \in Row BY <1>2, <2>2, RowColumns
  <2>4. Failed(new, "PROCESSING_FAILED") \in Row BY <1>2, <2>2, FailedIsRow
  <2>5. UNCHANGED sessions /\ MoveFrame BY <1>3 DEF Poll
  <2>6. CASE MoveTo(w, [new EXCEPT !.status = "UPLOADING_CAPTIONS"], "answer")
    BY <2>3, <2>5, <2>6, MoveKeeps
  <2>7. CASE Commit(w, Failed(new, "PROCESSING_FAILED"), "answer") /\ UNCHANGED wf
    BY <1>1, <2>4, <2>5, <2>7, CommitKeeps DEF MoveFrame, ownerVars, worldVars
  <2>8. CASE Commit(w, new, "answer") /\ UNCHANGED wf
    BY <1>1, <2>2, <2>5, <2>8, CommitKeeps DEF MoveFrame, ownerVars, worldVars
  <2> QED BY <1>3, <2>6, <2>7, <2>8 DEF Poll
<1>4. CASE Captions(w)
  <2>1. [att[w].run EXCEPT !.status = "UPLOADING_THUMBNAIL"] \in Row BY <1>1, <1>2, RowColumns
  <2> QED BY <1>4, <2>1, MoveKeeps DEF Captions
<1>5. CASE Verify(w)
  <2>1. [att[w].run EXCEPT !.status = "PRIVATE_READY"] \in Row BY <1>1, <1>2, RowColumns
  <2> QED BY <1>5, <2>1, MoveKeeps DEF Verify
<1> QED BY <1>3, <1>4, <1>5

-----------------------------------------------------------------------------
(* The workflow, the owner, YouTube. *)

\* A step outside the attempts, as long as no upload loses a chunk.
LEMMA OutsideKeeps ==
  ASSUME IInv, UNCHANGED att, TypeOK',
         \A s \in Session : youtube'[s].held = youtube[s].held,
         \A s \in Session : sessions'[s].confirmed = sessions[s].confirmed,
         RoundsAreLeft'
  PROVE  IInv'
<1>1. \A s \in Session : youtube[s].held \in 0 .. Chunks BY DEF IInv, TypeOK, Upload
<1>2. \A w \in Worker : DriveIsSound(w)' BY <1>1, BystanderIsSound DEF IInv
<1>3. ServerConfirmed' BY DEF IInv, ServerConfirmed
<1> QED BY <1>2, <1>3 DEF IInv

\* A step that touches neither the workflow nor what is stored of an upload.
LEMMA StoredKeeps ==
  ASSUME IInv, UNCHANGED <<att, sessions, wf, overlaps>>, run' \in Row, eligible' \in BOOLEAN,
         connection' \in {"connected", "revoked", "reauthorization_required"},
         youtube' \in [Session -> Upload], owner' \in Request,
         \A s \in Session : youtube'[s].held = youtube[s].held,
         requests' \in 0 .. MaxRequests, faults' \in 0 .. MaxFaults
  PROVE  IInv'
<1>1. TypeOK' BY DEF IInv, TypeOK
<1>2. RoundsAreLeft' BY DEF IInv, RoundsAreLeft
<1> QED BY <1>1, <1>2, OutsideKeeps

LEMMA StartKeeps ==
  ASSUME IInv, Start
  PROVE  IInv'
<1> DEFINE new == [Closed EXCEPT !.state = "due"]
<1>1. new \in Execution /\ new.step = "validate"
  <2>1. Closed \in Execution /\ Closed.step = "validate"
    BY PublicationAssumption DEF Closed, Execution, Steps
  <2> QED BY <2>1 DEF Execution
<1>2. TypeOK' BY <1>1 DEF Start, IInv, TypeOK, ownerVars, worldVars
<1>3. RoundsAreLeft' BY <1>1 DEF Start, RoundsAreLeft
<1> QED BY <1>2, <1>3, OutsideKeeps DEF Start, worldVars

LEMMA WorkflowKeeps ==
  ASSUME IInv, NEW w \in Worker, Take(w) \/ Answer(w) \/ Die(w) \/ GiveUp(w)
  PROVE  IInv'
<1>1. TypeOK /\ RoundsAreLeft /\ wf \in Execution /\ run \in Row /\ att[w] \in Attempt
      /\ faults \in 0 .. MaxFaults /\ overlaps \in 0 .. MaxOverlaps
      /\ connection \in {"connected", "revoked", "reauthorization_required"}
  BY Shapes DEF IInv
<1>2. CASE Take(w)
  <2> DEFINE pc == IF wf.step = "finalize" THEN "answer" ELSE "revalidate"
             a == [att[w] EXCEPT !.step = wf.step, !.run = run, !.pc = pc]
  <2>1. a \in Attempt /\ a.pc = pc BY <1>1 DEF Attempt, Execution
  <2>2. att' = [att EXCEPT ![w] = a] BY <1>1, <1>2 DEF Take, TypeOK
  <2>3. wf' \in Execution /\ RoundsAreLeft'
    <3>1. wf' = [wf EXCEPT !.state = "busy", !.worker = w] BY <1>2 DEF Take
    <3>2. wf' \in Execution /\ wf'.step = wf.step /\ wf'.rounds = wf.rounds
      BY <1>1, <3>1 DEF Execution
    <3> QED BY <1>1, <3>2 DEF RoundsAreLeft
  <2>4. UNCHANGED <<run, sessions, youtube, connection, eligible, owner, requests, overlaps, faults>>
    BY <1>2 DEF Take, ownerVars, worldVars
  <2>5. a.pc \notin Driving BY <2>1 DEF Driving
  <2> HIDE DEF a
  <2> QED BY <1>1, <2>1, <2>2, <2>3, <2>4, <2>5, RestingKeeps
<1>3. CASE Answer(w)
  <2>1. Idle \in Attempt /\ Idle.pc = "idle" BY IdleIsAttempt
  <2>2. wf' \in Execution /\ RoundsAreLeft'
    BY <1>1, <1>3, AfterStepIsSound DEF Answer, RoundsAreLeft
  <2>3. /\ att' = [att EXCEPT ![w] = Idle]
        /\ UNCHANGED <<run, sessions, youtube, connection, eligible, owner, requests, overlaps, faults>>
    BY <1>3 DEF Answer, ownerVars, worldVars
  <2>4. Idle.pc \notin Driving BY <2>1 DEF Driving
  <2> QED BY <1>1, <2>1, <2>2, <2>3, <2>4, RestingKeeps
<1>4. CASE Die(w) BY <1>1, <1>4, FaultCounts, RaiseKeeps DEF Die
<1>5. CASE GiveUp(w)
  <2>1. wf' \in Execution /\ RoundsAreLeft'
    BY <1>5, RetriedIsSound DEF GiveUp, RoundsAreLeft
  <2>2. faults' \in 0 .. MaxFaults /\ overlaps' \in 0 .. MaxOverlaps
    BY <1>1, <1>5, FaultCounts, PublicationAssumption DEF GiveUp
  <2>3. TypeOK' BY <1>1, <1>5, <2>1, <2>2 DEF GiveUp, TypeOK, ownerVars
  <2> QED BY <1>5, <2>1, <2>3, OutsideKeeps DEF GiveUp
<1> QED BY <1>2, <1>3, <1>4, <1>5

LEMMA NoRequestIsRequest == NoRequest \in Request
BY DraftIsRow, PublicationAssumption DEF NoRequest, Request

LEMMA RequestsKeep ==
  ASSUME IInv, AskCancel \/ AskVisibility \/ CancelSession \/ CommitCancel \/ RequestDies
  PROVE  IInv'
<1>1. /\ TypeOK /\ RoundsAreLeft /\ owner \in Request /\ owner.run \in Row
      /\ owner.session \in Video /\ run \in Row /\ wf \in Execution
      /\ requests \in 0 .. MaxRequests /\ faults \in 0 .. MaxFaults
      /\ youtube \in [Session -> Upload] /\ sessions \in [Session -> SessionRow]
  BY DEF IInv, TypeOK, Request
<1>2. ASSUME NEW pc \in {"cancel", "mark"}, NEW s \in Video, Ask(pc, s) PROVE IInv'
  <2>1. owner' \in Request
    <3>1. [pc |-> pc, run |-> run, session |-> s] \in Request BY <1>1 DEF Request
    <3> QED BY <1>2, <3>1 DEF Ask
  <2>2. requests' \in 0 .. MaxRequests BY <1>1, <1>2, PublicationAssumption DEF Ask
  <2> QED BY <1>1, <1>2, <2>1, <2>2, StoredKeeps DEF Ask, workerVars, TypeOK
<1>3. CASE AskCancel
  <2>1. 0 \in Video /\ Active \subseteq Video BY PublicationAssumption DEF Active
  <2> QED BY <1>2, <1>3, <2>1 DEF AskCancel
<1>4. CASE AskVisibility
  <2>1. 0 \in Video BY PublicationAssumption
  <2> QED BY <1>2, <1>4, <2>1 DEF AskVisibility
<1>5. CASE CancelSession
  <2> DEFINE s == owner.session
  <2>1. owner' \in Request
    <3>1. owner' = [owner EXCEPT !.pc = "commit"] BY <1>5 DEF CancelSession
    <3> QED BY <1>1, <3>1 DEF Request
  <2>2. youtube' \in [Session -> Upload] /\ \A u \in Session : youtube'[u].held = youtube[u].held
    <3>1. CASE youtube' = youtube BY <1>1, <3>1
    <3>2. CASE s # 0 /\ youtube' = [youtube EXCEPT ![s].gone = TRUE]
      <4>1. s \in Session BY <1>1, <3>2, PublicationAssumption
      <4> DEFINE y == [youtube[s] EXCEPT !.gone = TRUE]
      <4>2. y \in Upload /\ y.held = youtube[s].held BY <1>1, <4>1 DEF Upload
      <4>3. youtube' = [youtube EXCEPT ![s] = y] BY <3>2
      <4> HIDE DEF y, s
      <4> QED BY <1>1, <4>1, <4>2, <4>3
    <3> QED BY <1>5, <3>1, <3>2 DEF CancelSession
  <2> QED BY <1>1, <1>5, <2>1, <2>2, StoredKeeps DEF CancelSession, workerVars, TypeOK
<1>6. CASE CommitCancel
  <2> DEFINE s == owner.session
             new == [owner.run EXCEPT !.status = "CANCELLED"]
  <2>1. new \in Row BY <1>1, RowColumns DEF Status
  <2>2. run' \in Row BY <1>1, <1>6, <2>1, FlushKeepsRow DEF CommitCancel
  <2>3. /\ sessions' \in [Session -> SessionRow]
        /\ \A u \in Session : sessions'[u].confirmed = sessions[u].confirmed
    <3>1. CASE s = 0 BY <1>1, <1>6, <3>1 DEF CommitCancel
    <3>2. CASE s # 0
      <4>1. s \in Session BY <1>1, <3>2, PublicationAssumption
      <4> DEFINE x == [sessions[s] EXCEPT !.status = "cancelled"]
      <4>2. x \in SessionRow /\ x.confirmed = sessions[s].confirmed BY <1>1, <4>1 DEF SessionRow
      <4>3. sessions' = [sessions EXCEPT ![s] = x] BY <1>6, <3>2 DEF CommitCancel
      <4> HIDE DEF x, s
      <4> QED BY <1>1, <4>1, <4>2, <4>3
    <3> QED BY <3>1, <3>2
  <2>4. wf' \in Execution /\ wf'.step = wf.step /\ wf'.rounds = wf.rounds
    <3>1. wf' = [wf EXCEPT !.cancelled = wf.state # "closed"] BY <1>6 DEF CommitCancel
    <3>2. (wf.state # "closed") \in BOOLEAN OBVIOUS
    <3> QED BY <1>1, <3>1, <3>2 DEF Execution
  <2>5. owner' \in Request BY <1>6, NoRequestIsRequest DEF CommitCancel
  <2>6. TypeOK' BY <1>1, <1>6, <2>2, <2>3, <2>4, <2>5 DEF CommitCancel, TypeOK
  <2>7. RoundsAreLeft' BY <1>1, <2>4 DEF RoundsAreLeft
  <2> QED BY <1>6, <2>3, <2>6, <2>7, OutsideKeeps DEF CommitCancel
<1>7. CASE RequestDies
  <2>1. owner' \in Request BY <1>7, NoRequestIsRequest DEF RequestDies
  <2>2. faults' \in 0 .. MaxFaults BY <1>1, <1>7, FaultCounts DEF RequestDies
  <2> QED BY <1>1, <1>7, <2>1, <2>2, StoredKeeps
      DEF RequestDies, OwnerFrame, workerVars, TypeOK
<1> QED BY <1>3, <1>4, <1>5, <1>6, <1>7

LEMMA VisibilityKeeps ==
  ASSUME IInv, MarkVisibility \/ UpdateVisibility \/ Publish \/ VisibilityFails
  PROVE  IInv'
<1>1. /\ TypeOK /\ owner \in Request /\ owner.run \in Row /\ owner.run.video \in Video
      /\ run \in Row /\ faults \in 0 .. MaxFaults /\ youtube \in [Session -> Upload]
  BY DEF IInv, TypeOK, Request, Row
<1>2. ASSUME run' \in Row, owner' \in Request, UNCHANGED youtube, faults' \in 0 .. MaxFaults,
             OwnerFrame
      PROVE  IInv'
  BY <1>1, <1>2, StoredKeeps DEF OwnerFrame, workerVars, TypeOK
<1>3. CASE MarkVisibility
  <2> DEFINE new == [owner.run EXCEPT !.status = "VISIBILITY_UPDATING", !.decided = TRUE]
             bad == Failed(owner.run, "HUMAN_REVIEW_REQUIRED")
  <2>1. CASE Flush(owner.run, new) /\ owner' = [owner EXCEPT !.pc = "update", !.run = new]
    <3>1. new \in Row BY <1>1 DEF Row, Status
    <3>2. run' \in Row BY <1>1, <2>1, <3>1, FlushKeepsRow
    <3> HIDE DEF new
    <3>3. owner' \in Request BY <1>1, <2>1, <3>1 DEF Request
    <3> QED BY <1>1, <1>2, <1>3, <3>2, <3>3 DEF MarkVisibility
  <2>2. CASE owner' = NoRequest /\ (UNCHANGED run \/ Flush(owner.run, bad))
    <3>1. bad \in Row BY <1>1, FailedIsRow DEF Status
    <3>2. run' \in Row BY <1>1, <2>2, <3>1, FlushKeepsRow
    <3> QED BY <1>1, <1>2, <1>3, <2>2, <3>2, NoRequestIsRequest DEF MarkVisibility
  <2> QED BY <1>3, <2>1, <2>2 DEF MarkVisibility
<1>4. CASE UpdateVisibility
  <2> DEFINE s == owner.run.video
             y == [youtube[s] EXCEPT !.privacy = "public"]
  <2>1. owner' \in Request
    <3>1. owner' = [owner EXCEPT !.pc = "updated"] BY <1>4 DEF UpdateVisibility
    <3> QED BY <1>1, <3>1 DEF Request
  <2>2. youtube' \in [Session -> Upload] /\ \A u \in Session : youtube'[u].held = youtube[u].held
    <3>1. youtube' = [youtube EXCEPT ![s] = y] BY <1>4 DEF UpdateVisibility
    <3>2. CASE s \in Session
      <4>1. y \in Upload /\ y.held = youtube[s].held BY <1>1, <3>2 DEF Upload
      <4> HIDE DEF y, s
      <4> QED BY <1>1, <3>1, <3>2, <4>1
    <3>3. CASE s \notin Session
      <4> HIDE DEF y, s
      <4> QED BY <1>1, <3>1, <3>3
    <3> QED BY <3>2, <3>3
  <2> QED BY <1>1, <1>4, <2>1, <2>2, StoredKeeps
      DEF UpdateVisibility, OwnerFrame, workerVars, TypeOK
<1>5. CASE Publish
  <2>1. [owner.run EXCEPT !.status = "PUBLISHED"] \in Row BY <1>1, RowColumns DEF Status
  <2>2. run' \in Row BY <1>1, <1>5, <2>1, FlushKeepsRow DEF Publish
  <2> QED BY <1>1, <1>2, <1>5, <2>2, NoRequestIsRequest DEF Publish
<1>6. CASE VisibilityFails
  <2>1. Parked \cup {"PRIVATE_READY"} \subseteq Status BY DEF Parked, Status
  <2>2. PICK t \in Status : Flush(owner.run, Failed(owner.run, t))
    BY <1>6, <2>1 DEF VisibilityFails
  <2>3. run' \in Row BY <1>1, <2>2, FailedIsRow, FlushKeepsRow
  <2>4. faults' \in 0 .. MaxFaults BY <1>1, <1>6, FaultCounts DEF VisibilityFails
  <2> QED BY <1>2, <1>6, <2>3, <2>4, NoRequestIsRequest DEF VisibilityFails
<1> QED BY <1>3, <1>4, <1>5, <1>6

LEMMA WorldKeeps ==
  ASSUME IInv, \/ \E s \in Session : Process(s) \/ Collect(s)
               \/ RevokeGrant \/ Reconnect \/ SelectOtherRender
  PROVE  IInv'
<1>1. /\ TypeOK /\ run \in Row /\ faults \in 0 .. MaxFaults /\ youtube \in [Session -> Upload]
      /\ connection \in {"connected", "revoked", "reauthorization_required"}
      /\ eligible \in BOOLEAN /\ owner \in Request /\ requests \in 0 .. MaxRequests
  BY DEF IInv, TypeOK
<1>2. ASSUME NEW s \in Session, NEW y \in Upload, y.held = youtube[s].held,
             youtube' = [youtube EXCEPT ![s] = y],
             UNCHANGED <<programVars, connection, eligible>>, faults' \in 0 .. MaxFaults
      PROVE  IInv'
  <2>1. youtube' \in [Session -> Upload] /\ \A u \in Session : youtube'[u].held = youtube[u].held
    BY <1>1, <1>2
  <2> QED BY <1>1, <1>2, <2>1, StoredKeeps DEF programVars
<1>3. ASSUME NEW s \in Session, Process(s) PROVE IInv'
  <2>1. PICK v \in {"succeeded", "failed"} : youtube' = [youtube EXCEPT ![s].processed = v]
    BY <1>3 DEF Process
  <2> DEFINE y == [youtube[s] EXCEPT !.processed = v]
  <2>2. y \in Upload /\ y.held = youtube[s].held BY <1>1 DEF Upload
  <2>3. youtube' = [youtube EXCEPT ![s] = y] BY <2>1
  <2>4. faults' \in 0 .. MaxFaults BY <1>1, <1>3, FaultCounts DEF Process
  <2>5. UNCHANGED <<programVars, connection, eligible>> BY <1>3 DEF Process
  <2> HIDE DEF y
  <2> QED BY <1>2, <2>2, <2>3, <2>4, <2>5
<1>4. ASSUME NEW s \in Session, Collect(s) PROVE IInv'
  <2> DEFINE y == [youtube[s] EXCEPT !.gone = TRUE]
  <2>1. y \in Upload /\ y.held = youtube[s].held BY <1>1 DEF Upload
  <2>2. youtube' = [youtube EXCEPT ![s] = y] BY <1>4 DEF Collect
  <2>3. faults' \in 0 .. MaxFaults BY <1>1, <1>4, FaultCounts DEF Collect
  <2>4. UNCHANGED <<programVars, connection, eligible>> BY <1>4 DEF Collect
  <2> HIDE DEF y
  <2> QED BY <1>2, <2>1, <2>2, <2>3, <2>4
<1>5. CASE RevokeGrant
  <2>1. faults' \in 0 .. MaxFaults BY <1>1, <1>5, FaultCounts DEF RevokeGrant
  <2> QED BY <1>1, <1>5, <2>1, StoredKeeps DEF RevokeGrant, programVars
<1>6. CASE Reconnect
  BY <1>1, <1>6, StoredKeeps DEF Reconnect, programVars
<1>7. CASE SelectOtherRender
  <2>1. faults' \in 0 .. MaxFaults BY <1>1, <1>7, FaultCounts DEF SelectOtherRender
  <2> QED BY <1>1, <1>7, <2>1, StoredKeeps DEF SelectOtherRender, programVars
<1> QED BY <1>3, <1>4, <1>5, <1>6, <1>7

\* No step breaks the invariant.
LEMMA StepKeeps ==
  ASSUME IInv, [Next]_vars
  PROVE  IInv'
<1>1. ASSUME NEW w \in Worker, UploadStep(w) PROVE IInv'
  BY <1>1, BeginningsKeep, RefusalKeeps, AnswersKeep, ChunksKeep, LossKeeps, RecordKeeps
  DEF UploadStep
<1>2. ASSUME NEW w \in Worker, VideoStep(w) PROVE IInv'
  BY <1>2, VideoStepsKeep, RefusalKeeps DEF VideoStep
<1>3. ASSUME NEW w \in Worker, WorkerStep(w) \/ Die(w) \/ GiveUp(w) PROVE IInv'
  BY <1>1, <1>2, <1>3, PreludeKeeps, WorkflowKeeps DEF WorkerStep
<1>4. CASE Start BY <1>4, StartKeeps
<1>5. CASE AskCancel \/ AskVisibility \/ OwnerStep
  BY <1>5, RequestsKeep, VisibilityKeeps DEF OwnerStep
<1>6. CASE \/ \E s \in Session : Process(s) \/ Collect(s)
           \/ RevokeGrant \/ Reconnect \/ SelectOtherRender
  BY <1>6, WorldKeeps
<1>7. CASE UNCHANGED vars
  BY <1>7 DEF vars, IInv, TypeOK, DriveIsSound, RoundsAreLeft, ServerConfirmed
<1> QED BY <1>3, <1>4, <1>5, <1>6, <1>7 DEF Next

-----------------------------------------------------------------------------
(* The theorems. *)

LEMMA IInit == Init => IInv
<1> SUFFICES ASSUME Init PROVE IInv OBVIOUS
<1>1. Draft \in Row /\ Closed \in Execution /\ Closed.step = "validate"
  BY DraftIsRow, PublicationAssumption DEF Closed, Execution, Steps
<1>2. Idle \in Attempt /\ Idle.pc = "idle" BY IdleIsAttempt
<1> DEFINE none == [status |-> "none", confirmed |-> 0]
           empty == [held |-> 0, gone |-> FALSE, privacy |-> "private",
                     processed |-> "processing"]
<1>3. none \in SessionRow /\ none.confirmed = 0 /\ empty \in Upload /\ empty.held = 0
  BY PublicationAssumption DEF SessionRow, Upload
<1>4. sessions = [s \in Session |-> none] /\ youtube = [s \in Session |-> empty]
  BY DEF Init
<1> HIDE DEF none, empty
<1>5. TypeOK
  <2>1. requests \in 0 .. MaxRequests /\ faults \in 0 .. MaxFaults /\ overlaps \in 0 .. MaxOverlaps
    BY PublicationAssumption DEF Init
  <2>2. sessions \in [Session -> SessionRow] /\ youtube \in [Session -> Upload]
    BY <1>3, <1>4
  <2>3. run \in Row /\ wf \in Execution /\ att \in [Worker -> Attempt] /\ owner \in Request
    BY <1>1, <1>2, NoRequestIsRequest DEF Init
  <2>4. connection \in {"connected", "revoked", "reauthorization_required"}
        /\ eligible \in BOOLEAN
    BY DEF Init
  <2> QED BY <2>1, <2>2, <2>3, <2>4 DEF TypeOK
<1>6. ServerConfirmed BY <1>3, <1>4 DEF ServerConfirmed
<1>7. \A w \in Worker : DriveIsSound(w) BY <1>2 DEF Init, DriveIsSound, Driving
<1>8. RoundsAreLeft BY <1>1 DEF Init, RoundsAreLeft
<1> QED BY <1>5, <1>6, <1>7, <1>8 DEF IInv

\* No interleaving of workers, requests and faults breaks the invariant.
THEOREM Invariance == Spec => []IInv
<1>1. IInv /\ [Next]_vars => IInv' BY StepKeeps
<1> QED BY <1>1, IInit, PTL DEF Spec

\* Every variable keeps its type: no round, try or offset leaves its bounds.
THEOREM TypeCorrect == Spec => []TypeOK
<1>1. IInv => TypeOK BY DEF IInv
<1> QED BY <1>1, Invariance, PTL

\* No checkpoint of an upload counts a chunk YouTube does not hold, whatever is
\* lost, given up, cancelled or raced.
THEOREM OffsetsAreConfirmed == Spec => []ServerConfirmed
<1>1. IInv => ServerConfirmed BY DEF IInv
<1> QED BY <1>1, Invariance, PTL

-----------------------------------------------------------------------------
(* One render, one video, and a row that says so. *)

USE DEF Session, Video

-----------------------------------------------------------------------------
(* The inductive invariant. *)

Busy(w) == att[w].pc # "idle"

\* An upload session that a drive may still continue.
Live == {s \in Session : sessions[s].status \in {"active", "cancelled"}}

\* As Alone, but for a session whose drive has yet to notice the cancellation.
Sole ==
  /\ overlaps = 0
  /\ \A s \in Session : sessions[s].status = "cancelled" =>
       \E w \in Worker : att[w].pc \in Driving /\ att[w].session = s

\* The workflow waits for the only attempt there is.
OneAttempt == \A w \in Worker : Busy(w) => wf.state = "busy" /\ wf.worker = w

\* No copy of the row is mistaken about the video.
CopiesKnowVideo ==
  /\ \A w \in Worker : Busy(w) => att[w].run.video = run.video
  /\ owner.pc \in {"mark", "update", "updated"} => owner.run.video # 0
  /\ owner.pc # "none" /\ owner.run.video # 0 => run.video = owner.run.video
  /\ owner.pc \in {"cancel", "commit"} => owner.run.video = 0

\* An attempt on its way to a session or in one found no video.
NoVideoYet(w) == att[w].pc \in Driving \cup {"init"} => att[w].run.video = 0

\* A drive is of the one live session, from the offset that session has recorded.
DriverIsRight(w) ==
  /\ att[w].pc \in Driving =>
       /\ att[w].session \in Live
       /\ att[w].confirmed = sessions[att[w].session].confirmed
  /\ att[w].pc \in Driving \ {"uploading"} => att[w].run.status = "UPLOADING"
  /\ att[w].pc = "query" => att[w].confirmed > 0
  /\ att[w].pc = "send" /\ att[w].confirmed = 0 =>
       att[w].chunk = 0 \/ youtube[att[w].session].held < att[w].chunk

Stopped == Review \cup Dead

\* Nothing opens an upload session any more.
Frozen ==
  /\ Live = {}
  /\ run.status \in Stopped
  /\ \A w \in Worker : Busy(w) =>
       att[w].run.status \in Stopped /\ att[w].pc \notin Driving \cup {"init"}

\* Where the video may be.
OneVideo ==
  /\ \A s, t \in Live : s = t
  /\ \A s \in Session : sessions[s].status = "none" => youtube[s].held = 0
  /\ \A s \in Live : sessions[s].confirmed = 0 => youtube[s].held <= 1
  /\ \A s, t \in Videos : s = t
  /\ run.video # 0 => run.video \in Videos /\ Live = {}
  /\ (run.video = 0 /\ \E s \in Videos : s \notin Live) => Frozen

VInv ==
  /\ IInv
  /\ \A w \in Worker : NoVideoYet(w)
  /\ overlaps = 0 => OneAttempt /\ CopiesKnowVideo
  /\ Sole => OneVideo /\ \A w \in Worker : DriverIsRight(w)

-----------------------------------------------------------------------------
(* Lemmas about kinds of steps. *)

\* A stopped publication leaves its state only for another or after a video.
LEMMA StoppedStays ==
  ASSUME NEW r \in Row, NEW t \in Status \ AfterVideo, r.status \in Stopped
  PROVE  Failed(r, t).status \in Stopped
<1>1. t \in Allowed(r.status) => t \in Dead
  BY DEF Stopped, Review, Dead, Allowed
<1> QED BY <1>1 DEF Failed, Row, Stopped

LEMMA FailedColumns ==
  ASSUME NEW r \in Row, NEW t \in Status
  PROVE  Failed(r, t).video = r.video
BY DEF Failed, Row

\* A step between drives: it opens nothing, and what was frozen stays so.
LEMMA RestingVideo ==
  ASSUME VInv, IInv', NEW w \in Worker, NEW a \in Attempt,
         att' = [att EXCEPT ![w] = a],
         UNCHANGED <<sessions, youtube, overlaps, owner>>,
         overlaps = 0 => OneAttempt',
         run'.video = run.video,
         overlaps = 0 /\ a.pc # "idle" => a.run.video = run.video,
         a.pc \notin Driving,
         a.pc = "init" => a.run.video = 0,
         overlaps = 0 /\ run.video = 0 /\ Frozen =>
           /\ run'.status \in Stopped
           /\ a.pc # "idle" => a.run.status \in Stopped /\ a.pc # "init"
  PROVE  VInv'
<1>1. \A v \in Worker : att'[v] = IF v = w THEN a ELSE att[v]
  BY DEF VInv, IInv, TypeOK
<1>2. overlaps' = 0 => OneAttempt' /\ CopiesKnowVideo'
  <2> SUFFICES ASSUME overlaps = 0 PROVE CopiesKnowVideo' OBVIOUS
  <2>1. CopiesKnowVideo BY DEF VInv
  <2> QED BY <1>1, <2>1 DEF CopiesKnowVideo, Busy
<1>0. \A v \in Worker : NoVideoYet(v)' BY <1>1 DEF VInv, NoVideoYet
<1>3. ASSUME Sole' PROVE OneVideo' /\ \A v \in Worker : DriverIsRight(v)'
  <2>1. Sole
    <3>1. \A v \in Worker : att'[v].pc \in Driving => att'[v] = att[v] BY <1>1
    <3> QED BY <1>3, <3>1 DEF Sole
  <2>2. OneVideo /\ \A v \in Worker : DriverIsRight(v) BY <2>1 DEF VInv
  <2>3. \A v \in Worker : DriverIsRight(v)'
    <3> SUFFICES ASSUME NEW v \in Worker PROVE DriverIsRight(v)' OBVIOUS
    <3>1. CASE v = w BY <1>1, <3>1 DEF DriverIsRight, Driving
    <3>2. CASE v # w BY <1>1, <2>2, <3>2 DEF DriverIsRight, Live
    <3> QED BY <3>1, <3>2
  <2>4. Live' = Live /\ Videos' = Videos BY DEF Live, Videos
  <2>5. run.video = 0 /\ Frozen => Frozen'
    BY <1>1, <2>1, <2>4 DEF Sole, Frozen, Busy, Driving
  <2> QED BY <2>2, <2>3, <2>4, <2>5 DEF OneVideo
<1> QED BY <1>0, <1>2, <1>3 DEF VInv

\* The session of an attempt in a drive, and what the others may be.
LEMMA Driver ==
  ASSUME VInv, NEW w \in Worker, att[w].pc \in Driving, Sole
  PROVE  /\ att[w].session \in Live /\ Live = {att[w].session}
         /\ att[w].confirmed = sessions[att[w].session].confirmed
         /\ run.video = 0 /\ att[w].run.video = 0
         /\ Videos \subseteq Live
         /\ \A v \in Worker : Busy(v) => v = w
<1>1. DriverIsRight(w) /\ OneVideo /\ OneAttempt /\ CopiesKnowVideo BY DEF VInv, Sole
<1>2. Busy(w) BY DEF Busy, Driving
<1>3. att[w].session \in Live /\ att[w].confirmed = sessions[att[w].session].confirmed
      /\ att[w].run.video = 0
  BY <1>1 DEF DriverIsRight, VInv, NoVideoYet
<1>4. Live = {att[w].session} BY <1>1, <1>3 DEF OneVideo
<1>5. run.video = 0 BY <1>1, <1>2, <1>3 DEF CopiesKnowVideo
<1>6. ~Frozen BY <1>3 DEF Frozen
<1>7. Videos \subseteq Live BY <1>1, <1>5, <1>6 DEF OneVideo
<1>8. \A v \in Worker : Busy(v) => v = w BY <1>1, <1>2 DEF OneAttempt
<1> QED BY <1>3, <1>4, <1>5, <1>7, <1>8

\* A step within a drive: the session stays live, and only it may change.
LEMMA DriveVideo ==
  ASSUME VInv, IInv', NEW w \in Worker, NEW a \in Attempt, att[w].pc \in Driving,
         att' = [att EXCEPT ![w] = a], a.pc # "idle", a.pc # "init",
         a.session = att[w].session, a.run.video = att[w].run.video,
         UNCHANGED <<wf, overlaps, owner>>, run'.video = run.video,
         \A u \in Session : sessions'[u].status = sessions[u].status,
         \A u \in Session \ {a.session} : youtube'[u].held = youtube[u].held
                                          /\ sessions'[u] = sessions[u],
         Sole => /\ a.pc \in Driving \ {"uploading"} => a.run.status = "UPLOADING"
                 /\ a.pc = "query" => a.confirmed > 0
                 /\ a.confirmed = sessions'[a.session].confirmed
                 /\ a.pc = "send" /\ a.confirmed = 0 =>
                      a.chunk = 0 \/ youtube'[a.session].held < a.chunk
                 /\ a.confirmed = 0 => youtube'[a.session].held <= 1
  PROVE  VInv'
<1>1. \A v \in Worker : att'[v] = IF v = w THEN a ELSE att[v]
  BY DEF VInv, IInv, TypeOK
<1>0. \A v \in Worker : NoVideoYet(v)' BY <1>1 DEF VInv, NoVideoYet
<1>2. Busy(w) BY DEF Busy, Driving
<1>3. overlaps' = 0 => OneAttempt' /\ CopiesKnowVideo'
  <2> SUFFICES ASSUME overlaps = 0 PROVE OneAttempt' /\ CopiesKnowVideo' OBVIOUS
  <2>1. OneAttempt /\ CopiesKnowVideo BY DEF VInv
  <2>2. OneAttempt' BY <1>1, <1>2, <2>1 DEF OneAttempt, Busy
  <2>3. CopiesKnowVideo' BY <1>1, <1>2, <2>1 DEF CopiesKnowVideo, Busy
  <2> QED BY <2>2, <2>3
<1>4. ASSUME Sole' PROVE OneVideo' /\ \A v \in Worker : DriverIsRight(v)'
  <2>1. Sole
    <3>1. \A v \in Worker : att'[v].pc \in Driving => att[v].pc \in Driving
                                                      /\ att'[v].session = att[v].session
      BY <1>1
    <3> QED BY <1>4, <3>1 DEF Sole
  <2>2. OneVideo /\ \A v \in Worker : DriverIsRight(v) BY <2>1 DEF VInv
  <2> DEFINE s == att[w].session
  <2>3. /\ s \in Live /\ Live = {s} /\ run.video = 0 /\ att[w].run.video = 0
        /\ Videos \subseteq Live /\ \A v \in Worker : Busy(v) => v = w
    BY <2>1, Driver
  <2>4. Live' = Live BY DEF Live
  <2>5. s \in Session /\ Videos' \subseteq {s} BY <2>3 DEF Live, Videos
  <2>6. OneVideo'
    <3>1. \A u \in Session : sessions'[u].status = "none" => youtube'[u].held = 0
      BY <2>2, <2>3 DEF OneVideo, Live
    <3>2. \A u \in Live' : sessions'[u].confirmed = 0 => youtube'[u].held <= 1
      BY <2>1, <2>3, <2>4
    <3> QED BY <2>3, <2>4, <2>5, <3>1, <3>2 DEF OneVideo
  <2>7. \A v \in Worker : DriverIsRight(v)'
    <3> SUFFICES ASSUME NEW v \in Worker PROVE DriverIsRight(v)' OBVIOUS
    <3>1. CASE v = w BY <1>1, <2>1, <2>3, <2>4, <3>1 DEF DriverIsRight
    <3>2. CASE v # w
      <4>1. att'[v].pc = "idle" BY <1>1, <2>3, <3>2 DEF Busy
      <4> QED BY <4>1 DEF DriverIsRight, Driving
    <3> QED BY <3>1, <3>2
  <2> QED BY <2>6, <2>7
<1> QED BY <1>0, <1>3, <1>4 DEF VInv

\* What a worker's step keeps of the others: it is still the only attempt.
LEMMA StillOne ==
  ASSUME VInv, NEW w \in Worker, Busy(w), UNCHANGED wf,
         \A v \in Worker \ {w} : att'[v] = att[v]
  PROVE  overlaps = 0 => OneAttempt'
BY DEF VInv, OneAttempt, Busy

\* An exception ends the attempt, and its cancelled session is nobody's.
LEMMA RaiseVideo ==
  ASSUME VInv, IInv', NEW w \in Worker, Busy(w), Raise(w),
         UNCHANGED <<sessions, ownerVars, worldVars>>
  PROVE  VInv'
<1>1. Idle \in Attempt /\ Idle.pc = "idle" BY IdleIsAttempt
<1>2. att' = [att EXCEPT ![w] = Idle] /\ run' = run BY DEF Raise
<1>3. \A v \in Worker : att'[v] = IF v = w THEN Idle ELSE att[v]
  BY <1>2 DEF VInv, IInv, TypeOK
<1>4. overlaps = 0 => OneAttempt'
  BY <1>1, <1>3 DEF VInv, OneAttempt, Busy
<1>5. UNCHANGED <<sessions, youtube, overlaps, owner>> BY DEF ownerVars, worldVars
<1>6. Idle.pc \notin Driving /\ Idle.pc # "init" BY <1>1 DEF Driving
<1>7. overlaps = 0 /\ run.video = 0 /\ Frozen => run'.status \in Stopped
  BY <1>2 DEF Frozen
<1> QED BY <1>1, <1>2, <1>4, <1>5, <1>6, <1>7, RestingVideo

\* A commit that leaves the video alone, and a stopped run stopped.
LEMMA CommitVideo ==
  ASSUME VInv, IInv', NEW w \in Worker, NEW new \in Row, NEW pc \in {"init", "answer"},
         Busy(w), Commit(w, new, pc), UNCHANGED <<sessions, wf, ownerVars, worldVars>>,
         new.video = att[w].run.video, pc = "init" => att[w].run.video = 0,
         att[w].run.video = 0 /\ att[w].run.status \in Stopped =>
           new.status \in Stopped /\ pc # "init"
  PROVE  VInv'
<1> DEFINE a == [att[w] EXCEPT !.run = new, !.pc = pc]
<1>1. TypeOK /\ att[w] \in Attempt /\ att[w].run \in Row /\ run \in Row
  BY DEF VInv, IInv, TypeOK, Attempt
<1>2. a \in Attempt /\ a.run = new /\ a.pc = pc /\ att' = [att EXCEPT ![w] = a]
  BY <1>1 DEF Commit, Attempt
<1>3. run'.video = run.video /\ run'.status \in {run.status, new.status}
  BY <1>1 DEF Commit, Flush, Changed, Row
<1>4. overlaps = 0 => /\ OneAttempt' /\ att[w].run.video = run.video
  <2>1. \A v \in Worker \ {w} : att'[v] = att[v] BY <1>1, <1>2 DEF TypeOK
  <2> QED BY <2>1, StillOne DEF VInv, CopiesKnowVideo
<1>5. UNCHANGED <<sessions, youtube, overlaps, owner>> BY DEF ownerVars, worldVars
<1>6. overlaps = 0 /\ run.video = 0 /\ Frozen =>
        run'.status \in Stopped /\ new.status \in Stopped /\ pc # "init"
  BY <1>3, <1>4 DEF Frozen
<1>7. pc \notin Driving /\ pc # "idle" BY DEF Driving
<1> HIDE DEF a
<1> QED BY <1>2, <1>3, <1>4, <1>5, <1>6, <1>7, RestingVideo

LEMMA ParkVideo ==
  ASSUME VInv, IInv', NEW w \in Worker, NEW t \in Status \ AfterVideo, Busy(w),
         Park(w, t), UNCHANGED <<sessions, wf, ownerVars, worldVars>>
  PROVE  VInv'
<1> DEFINE new == Failed(att[w].run, t)
<1>1. att[w].run \in Row BY DEF VInv, IInv, TypeOK, Attempt
<1>2. new \in Row /\ new.video = att[w].run.video
      /\ (att[w].run.status \in Stopped => new.status \in Stopped)
  BY <1>1, FailedIsRow, FailedColumns, StoppedStays
<1>3. Commit(w, new, "answer") BY DEF Park
<1> HIDE DEF new
<1> QED BY <1>2, <1>3, CommitVideo

LEMMA GoVideo ==
  ASSUME VInv, IInv', NEW w \in Worker, Busy(w), Go(w, "answer") \/ Go(w, "work"),
         UNCHANGED <<sessions, wf, ownerVars, youtube, overlaps>>
  PROVE  VInv'
<1>1. PICK pc \in {"answer", "work"} : Go(w, pc) OBVIOUS
<1> DEFINE a == [att[w] EXCEPT !.pc = pc]
<1>2. att[w] \in Attempt /\ TypeOK BY DEF VInv, IInv, TypeOK
<1>3. a \in Attempt /\ a.run = att[w].run /\ a.pc = pc /\ att' = [att EXCEPT ![w] = a]
      /\ run' = run
  BY <1>1, <1>2 DEF Go, Attempt
<1>4. overlaps = 0 => /\ OneAttempt' /\ att[w].run.video = run.video
  <2>1. \A v \in Worker \ {w} : att'[v] = att[v] BY <1>2, <1>3 DEF TypeOK
  <2> QED BY <2>1, StillOne DEF VInv, CopiesKnowVideo
<1>5. UNCHANGED <<sessions, youtube, overlaps, owner>> BY DEF ownerVars
<1>6. overlaps = 0 /\ run.video = 0 /\ Frozen =>
        run'.status \in Stopped /\ att[w].run.status \in Stopped
  BY <1>3 DEF Frozen
<1>7. pc \notin Driving /\ pc # "idle" /\ pc # "init" BY <1>1 DEF Driving
<1> HIDE DEF a
<1> QED BY <1>3, <1>4, <1>5, <1>6, <1>7, RestingVideo

\* A transition does not lead a stopped run without video anywhere.
LEMMA MoveVideo ==
  ASSUME VInv, IInv', NEW w \in Worker, NEW new \in Row, NEW pc \in {"init", "answer"},
         Busy(w), MoveTo(w, new, pc), UNCHANGED sessions, MoveFrame,
         new.video = att[w].run.video, pc = "init" => att[w].run.video = 0,
         att[w].run.video = 0 => new.status = "UPLOAD_INITIALIZING"
  PROVE  VInv'
<1>1. UNCHANGED <<ownerVars, worldVars>> BY DEF MoveFrame
<1>2. CASE May(att[w].run.status, new.status) /\ Commit(w, new, pc) /\ UNCHANGED wf
  <2>1. ~(att[w].run.video = 0 /\ att[w].run.status \in Stopped)
    BY <1>2 DEF May, Allowed, Stopped, Review, Dead, AfterVideo
  <2> QED BY <1>1, <1>2, <2>1, CommitVideo
<1>3. CASE Raise(w) BY <1>1, <1>3, RaiseVideo
<1> QED BY <1>2, <1>3 DEF MoveTo

\* The session is given up with its upload incomplete, or the run with both.
LEMMA MarkVideo ==
  ASSUME VInv, IInv', NEW w \in Worker, att[w].pc \in Driving \ {"uploading"},
         NEW status \in {"expired", "ambiguous"}, NEW t \in Status \ AfterVideo,
         Mark(w, status), Park(w, t), UNCHANGED <<wf, ownerVars, youtube, overlaps>>,
         t # "HUMAN_REVIEW_REQUIRED" /\ Sole => youtube[att[w].session].held < Chunks
  PROVE  VInv'
<1> DEFINE s == att[w].session
           new == Failed(att[w].run, t)
           a == [att[w] EXCEPT !.run = new, !.pc = "answer"]
<1>1. TypeOK /\ att[w] \in Attempt /\ att[w].run \in Row /\ run \in Row
  BY DEF VInv, IInv, TypeOK, Attempt
<1>2. new \in Row /\ new.video = att[w].run.video BY <1>1, FailedIsRow, FailedColumns
<1>3. Flush(att[w].run, new) /\ att' = [att EXCEPT ![w] = a] BY DEF Park, Commit
<1>4. run'.video = run.video BY <1>1, <1>2, <1>3 DEF Flush, Changed, Row
<1>5. /\ \A v \in Worker : att'[v] = IF v = w THEN a ELSE att[v]
      /\ a.pc = "answer" /\ a.run = new
  BY <1>1, <1>3 DEF TypeOK, Attempt
<1>0. \A v \in Worker : NoVideoYet(v)' BY <1>5 DEF VInv, NoVideoYet, Driving
<1>6. Busy(w) BY DEF Busy, Driving
<1>7. overlaps' = 0 => OneAttempt' /\ CopiesKnowVideo'
  <2> SUFFICES ASSUME overlaps = 0 PROVE OneAttempt' /\ CopiesKnowVideo' BY <1>1
  <2>1. OneAttempt /\ CopiesKnowVideo BY DEF VInv
  <2>2. OneAttempt' BY <1>5, <1>6, StillOne
  <2>3. att[w].run.video = run.video BY <1>6, <2>1 DEF CopiesKnowVideo
  <2>4. CopiesKnowVideo' BY <1>2, <1>4, <1>5, <2>1, <2>3 DEF CopiesKnowVideo, Busy, ownerVars
  <2> QED BY <2>2, <2>4
<1>8. ASSUME Sole' PROVE OneVideo' /\ \A v \in Worker : DriverIsRight(v)'
  <2>1. s \in Session BY DEF VInv, IInv, DriveIsSound
  <2>2. \A u \in Session : /\ sessions'[u].status = IF u = s THEN status ELSE sessions[u].status
                           /\ sessions'[u].confirmed = sessions[u].confirmed
    BY <1>1, <2>1 DEF Mark, TypeOK, SessionRow
  <2>3. Sole
    <3>1. \A v \in Worker : att'[v].pc \in Driving => att'[v] = att[v] BY <1>5 DEF Driving
    <3>2. \A u \in Session : sessions[u].status = "cancelled" =>
             \E v \in Worker : att[v].pc \in Driving /\ att[v].session = u
      <4> SUFFICES ASSUME NEW u \in Session, sessions[u].status = "cancelled"
                   PROVE  \E v \in Worker : att[v].pc \in Driving /\ att[v].session = u
        OBVIOUS
      <4>1. CASE u = s BY <4>1
      <4>2. CASE u # s BY <1>8, <2>2, <3>1, <4>2 DEF Sole
      <4> QED BY <4>1, <4>2
    <3> QED BY <1>8, <3>2 DEF Sole
  <2>4. OneVideo /\ \A v \in Worker : DriverIsRight(v) BY <2>3 DEF VInv
  <2>5. /\ Live = {s} /\ run.video = 0 /\ att[w].run.video = 0
        /\ Videos \subseteq Live /\ \A v \in Worker : Busy(v) => v = w
    BY <2>3, Driver
  <2>6. Live' = {} BY <2>2, <2>5 DEF Live
  <2>7. Videos' = Videos BY DEF Videos
  <2>8. \A v \in Worker : v # w => att'[v].pc = "idle" BY <1>5, <2>5 DEF Busy
  <2>9. ASSUME Videos = {} PROVE OneVideo'
    BY <2>2, <2>4, <2>5, <2>6, <2>7, <1>4, <2>9 DEF OneVideo
  <2>10. ASSUME Videos # {} PROVE OneVideo'
    <3>1. s \in Videos BY <2>5, <2>10
    <3>2. t = "HUMAN_REVIEW_REQUIRED" BY <2>3, <3>1, PublicationAssumption DEF Videos
    <3>3. att[w].run.status = "UPLOADING" BY <2>4 DEF DriverIsRight
    <3>4. "HUMAN_REVIEW_REQUIRED" \in Allowed("UPLOADING") BY DEF Allowed, Review
    <3>5. new.status = "HUMAN_REVIEW_REQUIRED" BY <1>1, <3>2, <3>3, <3>4 DEF Failed, Row
    <3>6. run'.status = "HUMAN_REVIEW_REQUIRED"
      BY <1>3, <3>3, <3>5 DEF Flush, Changed
    <3>7. Frozen'
      BY <1>5, <2>6, <2>8, <3>5, <3>6 DEF Frozen, Stopped, Review, Busy, Driving
    <3> QED BY <2>2, <2>4, <2>5, <2>6, <2>7, <1>4, <3>7 DEF OneVideo
  <2>11. \A v \in Worker : DriverIsRight(v)' BY <1>5, <2>8 DEF DriverIsRight, Driving
  <2> QED BY <2>9, <2>10, <2>11
<1> QED BY <1>0, <1>7, <1>8 DEF VInv

-----------------------------------------------------------------------------
(* One lemma per action, or per group of actions that write alike. *)

\* A checkpoint confirms what YouTube holds.
LEMMA CheckpointVideo ==
  ASSUME VInv, IInv', NEW w \in Worker, att[w].pc \in Driving \ {"uploading"},
         NEW chunk \in 0 .. Chunks, NEW n \in 0 .. Chunks,
         NEW pc \in {"send", "final", "answer", "park", "record"},
         n = youtube[att[w].session].held,
         Checkpoint(w, n, chunk, pc), UNCHANGED run, Frame
  PROVE  VInv'
<1> DEFINE c == Larger(att[w].confirmed, n)
           a == [att[w] EXCEPT !.confirmed = c, !.chunk = chunk, !.pc = pc]
           s == att[w].session
<1>1. /\ TypeOK /\ att[w] \in Attempt /\ att[w].confirmed \in 0 .. Chunks /\ s \in Session
      /\ att[w].confirmed <= n
  BY DEF VInv, IInv, TypeOK, Attempt, DriveIsSound
<1>2. c = n BY <1>1 DEF Larger
<1>3. /\ a \in Attempt /\ a.pc = pc /\ a.session = s /\ a.confirmed = n /\ a.chunk = chunk
      /\ a.run = att[w].run
  BY <1>1, <1>2 DEF Attempt
<1>4. att' = [att EXCEPT ![w] = a] BY <1>1 DEF Checkpoint, TypeOK
<1>5. \/ sessions' = sessions /\ n = att[w].confirmed
      \/ sessions' = [sessions EXCEPT ![s].confirmed = n]
  BY <1>2 DEF Checkpoint
<1>6. /\ \A u \in Session : sessions'[u].status = sessions[u].status
      /\ \A u \in Session \ {s} : sessions'[u] = sessions[u]
  <2>1. \A u \in Session : sessions[u] \in SessionRow BY <1>1 DEF TypeOK
  <2>2. CASE sessions' = sessions BY <2>2
  <2>3. CASE sessions' = [sessions EXCEPT ![s].confirmed = n]
    <3> DEFINE x == [sessions[s] EXCEPT !.confirmed = n]
    <3>1. x.status = sessions[s].status BY <1>1, <2>1 DEF SessionRow
    <3>2. sessions' = [sessions EXCEPT ![s] = x] BY <2>3
    <3> HIDE DEF x
    <3>3. \A u \in Session : sessions'[u] = IF u = s THEN x ELSE sessions[u]
      BY <1>1, <3>2 DEF TypeOK
    <3> QED BY <3>1, <3>3
  <2> QED BY <1>5, <2>2, <2>3
<1>7. UNCHANGED <<wf, overlaps, owner, youtube>> BY DEF Frame, ownerVars, worldVars
<1>8. Sole => n = sessions'[s].confirmed
  <2> SUFFICES ASSUME Sole PROVE n = sessions'[s].confirmed OBVIOUS
  <2>1. att[w].confirmed = sessions[s].confirmed BY Driver
  <2>2. sessions[s] \in SessionRow /\ sessions \in [Session -> SessionRow] /\ s \in Session BY <1>1 DEF TypeOK
  <2>3. CASE sessions' = sessions /\ n = att[w].confirmed BY <2>1, <2>3
  <2>4. CASE sessions' = [sessions EXCEPT ![s].confirmed = n] BY <2>2, <2>4 DEF SessionRow
  <2> QED BY <1>5, <2>3, <2>4
<1>9. Sole => /\ a.confirmed = sessions'[a.session].confirmed
              /\ a.pc = "send" /\ a.confirmed = 0 =>
                   a.chunk = 0 \/ youtube'[a.session].held < a.chunk
              /\ a.confirmed = 0 => youtube'[a.session].held <= 1
              /\ a.run.status = "UPLOADING" /\ a.pc # "query"
  <2>1. Sole => att[w].run.status = "UPLOADING" BY DEF VInv, DriverIsRight
  <2> QED BY <1>3, <1>7, <1>8, <2>1
<1>10. att[w].pc \in Driving /\ a.pc # "idle" /\ a.pc # "init" BY <1>3
<1> HIDE DEF a, c, s
<1> QED BY <1>3, <1>4, <1>6, <1>7, <1>9, <1>10, DriveVideo DEF s

LEMMA AnsweredVideo ==
  ASSUME VInv, IInv', NEW w \in Worker, att[w].pc \in Driving \ {"uploading"},
         NEW chunk \in 0 .. Chunks, NEW pc \in {"send", "final", "answer", "park"},
         Answered(w, chunk, pc)
  PROVE  VInv'
<1> DEFINE n == youtube[att[w].session].held
<1>1. n \in 0 .. Chunks /\ Held(w) = n /\ Chunks \in 0 .. Chunks
  BY Shapes, PublicationAssumption DEF VInv, IInv, DriveIsSound, Held
<1>2. UNCHANGED run /\ Frame BY DEF Answered
<1>3. CASE Checkpoint(w, n, Chunks, "record")
  <2> HIDE DEF n
  <2> QED BY <1>1, <1>2, <1>3, CheckpointVideo DEF n
<1>4. CASE Checkpoint(w, n, chunk, pc)
  <2> HIDE DEF n
  <2> QED BY <1>1, <1>2, <1>4, CheckpointVideo DEF n
<1>5. n = Chunks => Checkpoint(w, n, Chunks, "record") BY <1>1 DEF Answered
<1>6. n # Chunks => Checkpoint(w, n, chunk, pc) BY <1>1 DEF Answered
<1> QED BY <1>3, <1>4, <1>5, <1>6

LEMMA AnswersVideo ==
  ASSUME VInv, IInv', NEW w \in Worker,
         Query(w) \/ QueryFinal(w) \/ Acknowledge(w) \/ Resolve(w)
  PROVE  VInv'
<1>1. /\ att[w].pc \in Driving \ {"uploading"} /\ Busy(w)
      /\ att[w].pc \in {"query", "final", "sent", "resolve"}
  BY DEF Query, QueryFinal, Acknowledge, Resolve, Driving, Busy
<1>2. /\ Held(w) \in 0 .. Chunks /\ att[w].chunk \in 0 .. Chunks /\ Chunks \in 0 .. Chunks
      /\ Held(w) = youtube[att[w].session].held
  BY <1>1, Shapes, PublicationAssumption DEF VInv, IInv, DriveIsSound, Held
<1>3. CASE Query(w) BY <1>1, <1>2, <1>3, AnsweredVideo DEF Query
<1>4. CASE QueryFinal(w)
  <2>1. CASE Held(w) = Chunks
    <3>1. Checkpoint(w, Chunks, Chunks, "record") /\ UNCHANGED run /\ Frame
      BY <1>4, <2>1 DEF QueryFinal
    <3> QED BY <1>1, <1>2, <2>1, <3>1, CheckpointVideo
  <2>2. CASE Held(w) # Chunks
    BY <1>1, <1>4, <2>2, GoVideo DEF QueryFinal, Frame, ownerVars, worldVars
  <2> QED BY <2>1, <2>2
<1>5. CASE Acknowledge(w)
  <2> DEFINE next == att[w].chunk + 1
  <2>1. next \in 0 .. Chunks
    BY <1>2, <1>5, PublicationAssumption DEF Acknowledge, VInv, IInv, DriveIsSound
  <2>2. \E pc \in {"send", "final", "answer"} : Answered(w, next, pc)
    BY <1>5 DEF Acknowledge
  <2> HIDE DEF next
  <2> QED BY <1>1, <2>1, <2>2, AnsweredVideo
<1>6. CASE Resolve(w)
  <2>1. \E pc \in {"answer", "park"} : Answered(w, att[w].chunk, pc) BY <1>6 DEF Resolve
  <2> QED BY <1>1, <1>2, <2>1, AnsweredVideo
<1> QED BY <1>3, <1>4, <1>5, <1>6

\* Only the first chunk can be held while nothing is confirmed.
LEMMA ChunksVideo ==
  ASSUME VInv, IInv', NEW w \in Worker, Transfer(w) \/ Drop(w) \/ ChunkFails(w)
  PROVE  VInv'
<1> DEFINE s == att[w].session
<1>1. att[w].pc \in {"send", "sent"} /\ att[w].pc \in Driving \ {"uploading"}
  BY DEF Transfer, Drop, ChunkFails, Driving
<1>2. /\ TypeOK /\ TypeOK' /\ att[w] \in Attempt /\ s \in Session /\ att[w].confirmed \in 0 .. Chunks
      /\ att[w].chunk \in 0 .. Chunks
      /\ \A u \in Session : youtube[u].held \in 0 .. Chunks
  BY <1>1, Shapes DEF VInv, IInv, DriveIsSound
<1>3. Sole => /\ att[w].confirmed = sessions[s].confirmed
              /\ att[w].run.status = "UPLOADING"
              /\ att[w].confirmed = 0 => youtube[s].held <= 1
              /\ att[w].pc = "send" /\ att[w].confirmed = 0 =>
                   att[w].chunk = 0 \/ youtube[s].held < att[w].chunk
  <2> SUFFICES ASSUME Sole
               PROVE  /\ att[w].confirmed = sessions[s].confirmed
                      /\ att[w].run.status = "UPLOADING"
                      /\ att[w].confirmed = 0 => youtube[s].held <= 1
                      /\ att[w].pc = "send" /\ att[w].confirmed = 0 =>
                           att[w].chunk = 0 \/ youtube[s].held < att[w].chunk
    OBVIOUS
  <2>1. DriverIsRight(w) /\ OneVideo BY DEF VInv
  <2>2. s \in Live /\ att[w].confirmed = sessions[s].confirmed BY <1>1, Driver
  <2>3. att[w].confirmed = 0 => youtube[s].held <= 1 BY <2>1, <2>2 DEF OneVideo
  <2> QED BY <1>1, <2>1, <2>2, <2>3 DEF DriverIsRight
<1>4. CASE Transfer(w) \/ Drop(w)
  <2> DEFINE a == [att[w] EXCEPT !.pc = "sent"]
  <2>1. /\ a \in Attempt /\ a.pc = "sent" /\ a.session = s /\ a.run = att[w].run
        /\ a.confirmed = att[w].confirmed
    BY <1>2 DEF Attempt
  <2>2. att' = [att EXCEPT ![w] = a] /\ run' = run BY <1>4 DEF Transfer, Drop, Go
  <2>3. UNCHANGED <<sessions, wf, overlaps, owner>>
    BY <1>4 DEF Transfer, Drop, FaultFrame, ownerVars, worldVars
  <2>4. /\ \A u \in Session \ {s} : youtube'[u].held = youtube[u].held
        /\ \/ youtube'[s].held = youtube[s].held
           \/ /\ youtube'[s].held = youtube[s].held + 1
              /\ att[w].chunk = youtube[s].held /\ att[w].pc = "send"
    <3>1. CASE youtube' = youtube BY <3>1
    <3>2. CASE Transfer(w) /\ att[w].chunk = Held(w)
               /\ youtube' = [youtube EXCEPT ![s].held = @ + 1]
      <4>1. att[w].chunk = youtube[s].held /\ att[w].pc = "send" BY <3>2 DEF Held, Transfer
      <4> DEFINE y == [youtube[s] EXCEPT !.held = @ + 1]
      <4>2. y.held = youtube[s].held + 1 BY <1>2 DEF TypeOK, Upload
      <4>3. youtube' = [youtube EXCEPT ![s] = y] BY <3>2
      <4> HIDE DEF y
      <4>4. \A u \in Session : youtube'[u] = IF u = s THEN y ELSE youtube[u]
        BY <1>2, <4>3 DEF TypeOK
      <4> QED BY <1>2, <4>1, <4>2, <4>4
    <3> QED BY <1>4, <3>1, <3>2 DEF Transfer, Drop, FaultFrame, worldVars
  <2>5. Sole => /\ a.confirmed = sessions'[a.session].confirmed
                /\ a.run.status = "UPLOADING"
                /\ a.confirmed = 0 => youtube'[a.session].held <= 1
    <3> SUFFICES ASSUME Sole, att[w].confirmed = 0 PROVE youtube'[s].held <= 1
      BY <1>3, <2>1, <2>3
    <3>1. youtube[s].held \in 0 .. Chunks BY <1>2
    <3> HIDE DEF s
    <3> QED BY <1>2, <1>3, <2>4, <3>1
  <2>6. att[w].pc \in Driving /\ a.pc \notin {"idle", "init", "query", "send"} BY <1>1, <2>1
  <2> HIDE DEF a, s
  <2> QED BY <2>1, <2>2, <2>3, <2>4, <2>5, <2>6, DriveVideo DEF s
<1>5. CASE ChunkFails(w)
  <2>1. PICK y \in {"none"} \cup Parked :
               att' = [att EXCEPT ![w].why = y, ![w].pc = "resolve"]
    BY <1>5 DEF ChunkFails
  <2> DEFINE a == [att[w] EXCEPT !.why = y, !.pc = "resolve"]
  <2>2. /\ a \in Attempt /\ a.pc = "resolve" /\ a.session = s /\ a.run = att[w].run
        /\ a.confirmed = att[w].confirmed
    BY <1>2 DEF Attempt
  <2>3. att' = [att EXCEPT ![w] = a] BY <1>2, <2>1 DEF TypeOK
  <2>4. UNCHANGED <<run, sessions, wf, overlaps, owner, youtube>>
    BY <1>5 DEF ChunkFails, FaultFrame, ownerVars, worldVars
  <2>5. Sole => /\ a.confirmed = sessions'[a.session].confirmed
                /\ a.run.status = "UPLOADING"
                /\ a.confirmed = 0 => youtube'[a.session].held <= 1
    BY <1>3, <2>2, <2>4
  <2>6. att[w].pc \in Driving /\ a.pc \notin {"idle", "init", "query", "send"} BY <1>1, <2>2
  <2> HIDE DEF a, s
  <2> QED BY <2>2, <2>3, <2>4, <2>5, <2>6, DriveVideo DEF s
<1> QED BY <1>4, <1>5

\* What is lost for good is either surely incomplete or left to a human.
LEMMA LossVideo ==
  ASSUME VInv, IInv', NEW w \in Worker, ResolveGone(w) \/ ResolveFails(w) \/ SessionGone(w)
  PROVE  VInv'
<1>1. /\ att[w].pc \in Driving \ {"uploading"}
      /\ UNCHANGED <<wf, ownerVars, youtube, overlaps>>
  BY DEF ResolveGone, ResolveFails, SessionGone, Driving, Frame, FaultFrame, worldVars
<1>2. {"HUMAN_REVIEW_REQUIRED", "UPLOAD_INITIALIZING"} \subseteq Status \ AfterVideo
  BY DEF Status, AfterVideo
<1>3. CASE Ambiguous(w) BY <1>1, <1>2, <1>3, MarkVideo DEF Ambiguous
<1>4. CASE /\ Mark(w, "expired") /\ Park(w, "HUMAN_REVIEW_REQUIRED")
  BY <1>1, <1>2, <1>4, MarkVideo
<1>5. CASE /\ SessionGone(w) /\ ~Ambiguous(w) /\ Replaceable(w)
           /\ Mark(w, "expired") /\ Park(w, "UPLOAD_INITIALIZING")
           /\ ~(att[w].pc = "final" \/ (att[w].pc # "query" /\ att[w].chunk + 1 = Chunks))
  <2>1. att[w].confirmed = 0 BY <1>5 DEF Replaceable
  <2>2. ASSUME Sole PROVE youtube[att[w].session].held < Chunks
    <3>1. DriverIsRight(w) /\ OneVideo BY <2>2 DEF VInv
    <3>2. att[w].pc \in {"send", "sent"}
      BY <1>5, <2>1, <3>1 DEF SessionGone, DriverIsRight
    <3>3. att[w].session \in Live /\ att[w].session \in Session
          /\ sessions[att[w].session].confirmed = 0
      BY <1>1, <2>1, <2>2, Driver DEF Live
    <3>4. youtube[att[w].session].held <= 1 BY <3>1, <3>3 DEF OneVideo
    <3>5. att[w].chunk < Chunks /\ att[w].chunk + 1 # Chunks
      BY <1>5, <3>2 DEF VInv, IInv, DriveIsSound
    <3>6. att[w].chunk \in 0 .. Chunks /\ youtube[att[w].session].held \in 0 .. Chunks
      BY <3>3, Shapes DEF VInv, IInv
    <3> QED BY <3>4, <3>5, <3>6, PublicationAssumption
  <2> QED BY <1>1, <1>2, <1>5, <2>2, MarkVideo
<1> QED BY <1>3, <1>4, <1>5 DEF ResolveGone, ResolveFails, SessionGone

\* The steps before the upload.
LEMMA PreludeVideo ==
  ASSUME VInv, IInv', NEW w \in Worker,
         \/ Revalidate(w) \/ Ineligible(w) \/ Validate(w) \/ TokenRefused(w) \/ Skip(w)
  PROVE  VInv'
<1>1. att[w].run \in Row /\ TypeOK BY DEF VInv, IInv, TypeOK, Attempt
<1>2. Busy(w) BY DEF Revalidate, Ineligible, Validate, TokenRefused, Skip, NeedsToken, At, Busy
<1>3. CASE Revalidate(w)
  BY <1>2, <1>3, GoVideo DEF Revalidate, Frame, worldVars
<1>4. CASE Ineligible(w)
  <2>1. {"FAILED", "HUMAN_REVIEW_REQUIRED"} \subseteq Status \ AfterVideo
    BY DEF Status, AfterVideo
  <2> QED BY <1>2, <1>4, <2>1, ParkVideo DEF Ineligible, Frame
<1>5. CASE Validate(w)
  <2> DEFINE r == att[w].run
             new == IF r.video = 0 /\ r.status \in PreUpload
                    THEN [r EXCEPT !.status = "READY"] ELSE r
  <2>1. new \in Row /\ new.video = r.video
        /\ (r.status \in Stopped => new.status \in Stopped)
    <3>1. r.status \in Stopped => r.status \notin PreUpload
      BY DEF PreUpload, Parked, Stopped, Review, Dead
    <3> QED BY <1>1, <3>1 DEF Row, Status
  <2>2. Commit(w, new, "answer") /\ UNCHANGED sessions /\ Frame BY <1>5 DEF Validate
  <2> HIDE DEF new
  <2> QED BY <1>2, <2>1, <2>2, CommitVideo DEF Frame
<1>6. CASE TokenRefused(w)
  BY <1>2, <1>6, GoVideo DEF TokenRefused
<1>7. CASE Skip(w)
  BY <1>2, <1>7, GoVideo DEF Skip, Frame, worldVars
<1> QED BY <1>3, <1>4, <1>5, <1>6, <1>7

LEMMA RefusalVideo ==
  ASSUME VInv, IInv', NEW w \in Worker,
         \/ InitRefused(w) \/ QueryFails(w) \/ ParkUpload(w) \/ PollRefused(w)
         \/ CaptionChanged(w) \/ VerifyRefused(w)
  PROVE  VInv'
<1>1. Parked \cup Review \cup {"FAILED"} \subseteq Status \ AfterVideo
  BY DEF Parked, Review, Status, AfterVideo
<1>2. Busy(w)
  BY DEF InitRefused, QueryFails, ParkUpload, PollRefused, CaptionChanged, VerifyRefused,
         OfVideo, At, Busy
<1>3. UNCHANGED <<sessions, wf, ownerVars, worldVars>>
  BY DEF InitRefused, QueryFails, ParkUpload, PollRefused, CaptionChanged, VerifyRefused,
         Frame, FaultFrame
<1>4. \E t \in Parked \cup Review \cup {"FAILED"} : Park(w, t)
  <2>1. CASE ParkUpload(w)
    <3>1. att[w].why \in Parked BY <2>1 DEF ParkUpload, VInv, IInv, DriveIsSound
    <3> QED BY <2>1, <3>1 DEF ParkUpload
  <2>2. CASE InitRefused(w) \/ QueryFails(w) BY <2>2 DEF InitRefused, QueryFails
  <2>3. CASE PollRefused(w) BY <2>3 DEF PollRefused, Parked, Review
  <2>4. CASE CaptionChanged(w) BY <2>4 DEF CaptionChanged, Review
  <2>5. CASE VerifyRefused(w) BY <2>5 DEF VerifyRefused
  <2> QED BY <2>1, <2>2, <2>3, <2>4, <2>5
<1> QED BY <1>1, <1>2, <1>3, <1>4, ParkVideo

\* Processing, captions, verification: there is a video.
LEMMA VideoStepsVideo ==
  ASSUME VInv, IInv', NEW w \in Worker, Poll(w) \/ Captions(w) \/ Verify(w)
  PROVE  VInv'
<1>1. /\ att[w].run \in Row /\ att[w].run.video # 0 /\ Busy(w)
      /\ UNCHANGED sessions /\ MoveFrame
  BY DEF VInv, IInv, TypeOK, Attempt, Poll, Captions, Verify, OfVideo, At, Busy
<1>2. {"UPLOADING_CAPTIONS", "UPLOADING_THUMBNAIL", "PRIVATE_READY", "PROCESSING_FAILED"}
        \subseteq Status
  BY DEF Status
<1>3. ASSUME NEW new \in Row, new.video = att[w].run.video,
             MoveTo(w, new, "answer") \/ (Commit(w, new, "answer") /\ UNCHANGED wf)
      PROVE  VInv'
  <2>1. CASE MoveTo(w, new, "answer") BY <1>1, <1>3, <2>1, MoveVideo
  <2>2. CASE Commit(w, new, "answer") /\ UNCHANGED wf
    BY <1>1, <1>3, <2>2, CommitVideo DEF MoveFrame
  <2> QED BY <1>3, <2>1, <2>2
<1>4. CASE Poll(w)
  <2> DEFINE seen == youtube[att[w].run.video].processed
             new == [att[w].run EXCEPT !.processing = seen]
             up == [new EXCEPT !.status = "UPLOADING_CAPTIONS"]
             bad == Failed(new, "PROCESSING_FAILED")
  <2>1. seen \in {"succeeded", "failed", "processing"} BY <1>4 DEF Poll
  <2>2. new \in Row /\ new.video = att[w].run.video BY <1>1, <2>1 DEF Row
  <2>3. up \in Row /\ up.video = new.video BY <1>2, <2>2 DEF Row
  <2>4. bad \in Row /\ bad.video = new.video BY <1>2, <2>2, FailedIsRow, FailedColumns
  <2>5. \/ MoveTo(w, up, "answer")
        \/ Commit(w, bad, "answer") /\ UNCHANGED wf
        \/ Commit(w, new, "answer") /\ UNCHANGED wf
    BY <1>4 DEF Poll
  <2> HIDE DEF new, up, bad
  <2> QED BY <1>3, <2>2, <2>3, <2>4, <2>5
<1>5. CASE Captions(w)
  <2> DEFINE new == [att[w].run EXCEPT !.status = "UPLOADING_THUMBNAIL"]
  <2>1. new \in Row /\ new.video = att[w].run.video BY <1>1, <1>2 DEF Row
  <2> QED BY <1>3, <1>5, <2>1 DEF Captions
<1>6. CASE Verify(w)
  <2> DEFINE new == [att[w].run EXCEPT !.status = "PRIVATE_READY"]
  <2>1. new \in Row /\ new.video = att[w].run.video BY <1>1, <1>2 DEF Row
  <2> QED BY <1>3, <1>6, <2>1 DEF Verify
<1> QED BY <1>4, <1>5, <1>6

\* An attempt takes up the one live session, or opens one when there is none.
LEMMA TakeUpVideo ==
  ASSUME VInv, IInv', NEW w \in Worker, NEW a \in Attempt, NEW s \in Session,
         att[w].pc \notin Driving, Busy(w), att' = [att EXCEPT ![w] = a],
         a.pc = "uploading", a.session = s, a.run = att[w].run, att[w].run.video = 0,
         a.confirmed = sessions'[s].confirmed, sessions'[s].status = "active",
         \A u \in Session \ {s} : sessions'[u] = sessions[u],
         UNCHANGED <<run, youtube, wf, overlaps, owner>>,
         sessions'[s] = sessions[s] \/ (Active = {} /\ sessions[s].status = "none"),
         sessions'[s].confirmed = 0 => sessions[s].confirmed = 0 \/ sessions[s].status = "none",
         Sole => ~Frozen
  PROVE  VInv'
<1>1. \A v \in Worker : att'[v] = IF v = w THEN a ELSE att[v] BY DEF VInv, IInv, TypeOK
<1>0. \A v \in Worker : NoVideoYet(v)' BY <1>1 DEF VInv, NoVideoYet
<1>2. overlaps' = 0 => OneAttempt' /\ CopiesKnowVideo'
  <2> SUFFICES ASSUME overlaps = 0 PROVE OneAttempt' /\ CopiesKnowVideo' OBVIOUS
  <2>1. CopiesKnowVideo BY DEF VInv
  <2>2. OneAttempt' BY <1>1, StillOne
  <2>3. CopiesKnowVideo' BY <1>1, <2>1 DEF CopiesKnowVideo, Busy
  <2> QED BY <2>2, <2>3
<1>3. ASSUME Sole' PROVE OneVideo' /\ \A v \in Worker : DriverIsRight(v)'
  <2>1. Sole
    <3>1. \A v \in Worker : v # w => att'[v] = att[v] BY <1>1
    <3>2. \A u \in Session : sessions[u].status = "cancelled" =>
            u # s /\ sessions'[u].status = "cancelled"
      OBVIOUS
    <3>3. att'[w].session = s BY <1>1
    <3> QED BY <1>3, <3>1, <3>2, <3>3 DEF Sole
  <2>2. OneVideo /\ OneAttempt /\ CopiesKnowVideo /\ \A v \in Worker : DriverIsRight(v)
    BY <2>1 DEF VInv, Sole
  <2>3. \A v \in Worker : v # w => att[v].pc = "idle" BY <2>2 DEF OneAttempt, Busy
  <2>4. Live \subseteq Active
    <3>1. \A u \in Session : sessions[u].status # "cancelled"
      BY <2>1, <2>3 DEF Sole, Driving
    <3> QED BY <3>1 DEF Live, Active
  <2>5. run.video = 0 /\ att[w].run.video = 0 BY <2>1, <2>2 DEF CopiesKnowVideo
  <2>6. Videos' = Videos BY DEF Videos
  <2>7. Videos \subseteq Live BY <2>1, <2>2, <2>5 DEF OneVideo
  <2>8. Live' = {s} /\ (Live = {s} \/ Live = {})
    <3>1. CASE sessions'[s] = sessions[s]
      <4>1. Live' = Live /\ s \in Live BY <3>1 DEF Live
      <4> QED BY <2>2, <4>1 DEF OneVideo
    <3>2. CASE Active = {} /\ sessions[s].status = "none"
      BY <2>4, <3>2 DEF Live
    <3> QED BY <3>1, <3>2
  <2>9. OneVideo'
    <3>1. \A u \in Session : sessions'[u].status = "none" => youtube'[u].held = 0
      BY <2>2 DEF OneVideo
    <3>2. sessions'[s].confirmed = 0 => youtube'[s].held <= 1
      <4>1. s \in Live \/ sessions[s].status = "none" BY DEF Live
      <4>2. sessions[s].status = "none" => youtube[s].held = 0 BY <2>2 DEF OneVideo
      <4>3. s \in Live /\ sessions[s].confirmed = 0 => youtube[s].held <= 1
        BY <2>2 DEF OneVideo
      <4> QED BY <4>1, <4>2, <4>3
    <3>3. Videos' \subseteq Live' BY <2>6, <2>7, <2>8
    <3> QED BY <2>5, <2>8, <3>1, <3>2, <3>3 DEF OneVideo
  <2>10. \A v \in Worker : DriverIsRight(v)'
    <3> SUFFICES ASSUME NEW v \in Worker PROVE DriverIsRight(v)' OBVIOUS
    <3>1. CASE v = w
      <4>1. att'[v] = a BY <1>1, <3>1
      <4> QED BY <2>5, <2>8, <4>1 DEF DriverIsRight, Driving
    <3>2. CASE v # w BY <1>1, <2>3, <3>2 DEF DriverIsRight, Driving
    <3> QED BY <3>1, <3>2
  <2> QED BY <2>9, <2>10
<1> QED BY <1>0, <1>2, <1>3 DEF VInv

LEMMA BeginningsVideo ==
  ASSUME VInv, IInv', NEW w \in Worker,
         \/ BeginUpload(w) \/ ResumeUpload(w) \/ OpenSession(w) \/ BeginDrive(w)
  PROVE  VInv'
<1>1. /\ TypeOK /\ att[w] \in Attempt /\ att[w].run \in Row /\ run \in Row
      /\ att[w].confirmed \in 0 .. Chunks
      /\ \A u \in Session : sessions[u] \in SessionRow /\ sessions[u].confirmed \in 0 .. Chunks
  BY Shapes DEF VInv, IInv
<1>2. Busy(w) BY DEF BeginUpload, ResumeUpload, OpenSession, BeginDrive, At, Busy
<1>3. CASE BeginUpload(w)
  <2> DEFINE new == [att[w].run EXCEPT !.status = "UPLOAD_INITIALIZING"]
  <2>1. new \in Row /\ new.video = att[w].run.video /\ new.status = "UPLOAD_INITIALIZING"
    BY <1>1 DEF Row, Status
  <2>2. MoveTo(w, new, "init") /\ UNCHANGED sessions /\ MoveFrame /\ att[w].run.video = 0
    BY <1>3 DEF BeginUpload
  <2> HIDE DEF new
  <2> QED BY <1>2, <2>1, <2>2, MoveVideo
<1>4. CASE ResumeUpload(w)
  <2>1. PICK s \in Active :
               att' = [att EXCEPT ![w].session = s, ![w].confirmed = sessions[s].confirmed,
                                  ![w].pc = "uploading"]
    BY <1>4 DEF ResumeUpload
  <2>2. /\ s \in Session /\ s \in Video /\ sessions[s].status = "active"
        /\ sessions[s].confirmed \in 0 .. Chunks
    BY <1>1, PublicationAssumption DEF Active
  <2> DEFINE c == sessions[s].confirmed
             a == [att[w] EXCEPT !.session = s, !.confirmed = c, !.pc = "uploading"]
  <2>3. att' = [att EXCEPT ![w] = a] BY <1>1, <2>1 DEF TypeOK
  <2> HIDE DEF c
  <2>4. /\ a \in Attempt /\ a.pc = "uploading" /\ a.session = s
        /\ a.confirmed = c /\ a.run = att[w].run
    BY <1>1, <2>2 DEF Attempt, c
  <2>5. /\ att[w].pc = "work" /\ att[w].run.video = 0
    BY <1>4 DEF ResumeUpload, At
  <2>10. UNCHANGED <<run, youtube, wf, overlaps, owner>> /\ sessions' = sessions
    BY <1>4 DEF ResumeUpload, Frame, ownerVars, worldVars
  <2>6. Sole => ~Frozen BY <2>2 DEF Frozen, Live
  <2>7. att[w].pc \notin Driving BY <2>5 DEF Driving
  <2>8. /\ a.confirmed = sessions'[s].confirmed /\ sessions'[s].status = "active"
        /\ sessions'[s] = sessions[s] /\ \A u \in Session \ {s} : sessions'[u] = sessions[u]
    BY <2>2, <2>4, <2>10 DEF c
  <2>9. sessions'[s].confirmed = 0 => sessions[s].confirmed = 0 \/ sessions[s].status = "none"
    BY <2>8
  <2> HIDE DEF a
  <2> QED BY <1>2, <2>2, <2>3, <2>4, <2>5, <2>10, <2>6, <2>7, <2>8, <2>9, TakeUpVideo
<1>5. CASE OpenSession(w)
  <2>1. CASE Active = {}
    <3>1. PICK s \in Unused :
                 /\ sessions' = [sessions EXCEPT ![s] = [status |-> "active", confirmed |-> 0]]
                 /\ att' = [att EXCEPT ![w].session = s, ![w].confirmed = 0,
                                       ![w].pc = "uploading"]
      BY <1>5, <2>1 DEF OpenSession
    <3> DEFINE a == [att[w] EXCEPT !.session = s, !.confirmed = 0, !.pc = "uploading"]
               new == [status |-> "active", confirmed |-> 0]
    <3>2. s \in Session /\ s \in Video /\ sessions[s].status = "none" /\ 0 \in 0 .. Chunks
      BY PublicationAssumption DEF Unused
    <3>3. att' = [att EXCEPT ![w] = a] BY <1>1, <3>1 DEF TypeOK
    <3>4. /\ a \in Attempt /\ a.pc = "uploading" /\ a.session = s
          /\ a.confirmed = 0 /\ a.run = att[w].run
      BY <1>1, <3>2 DEF Attempt
    <3>5. sessions' = [sessions EXCEPT ![s] = new] BY <3>1
    <3>6. new.status = "active" /\ new.confirmed = 0 OBVIOUS
    <3> HIDE DEF new
    <3>7. \A u \in Session : sessions'[u] = IF u = s THEN new ELSE sessions[u]
      BY <1>1, <3>5 DEF TypeOK
    <3>8. /\ att[w].pc = "init" /\ UNCHANGED <<run, youtube, wf, overlaps, owner>>
      BY <1>5, <2>1 DEF OpenSession, MoveFrame, ownerVars, worldVars
    <3>9. att[w].pc \notin Driving BY <3>8 DEF Driving
    <3>10. att[w].run.video = 0 /\ (Sole => ~Frozen)
      BY <1>2, <3>8 DEF VInv, NoVideoYet, Frozen
    <3> HIDE DEF a
    <3> QED BY <1>2, <2>1, <3>2, <3>3, <3>4, <3>6, <3>7, <3>8, <3>9, <3>10, TakeUpVideo
  <2>2. CASE Active # {}
    BY <1>2, <1>5, <2>2, RaiseVideo DEF OpenSession, MoveFrame
  <2> QED BY <2>1, <2>2
<1>6. CASE BeginDrive(w)
  <2>1. CASE May(att[w].run.status, "UPLOADING")
    <3> DEFINE new == [att[w].run EXCEPT !.status = "UPLOADING"]
               pc == IF att[w].confirmed > 0 THEN "query" ELSE "send"
               a == [att[w] EXCEPT !.run = new, !.chunk = att[w].confirmed, !.pc = pc]
    <3>1. new \in Row /\ new.video = att[w].run.video /\ new.status = "UPLOADING"
      BY <1>1 DEF Row, Status
    <3>2. att' = [att EXCEPT ![w] = a] BY <1>1, <1>6, <2>1 DEF BeginDrive, TypeOK
    <3>3. run'.video = run.video
      BY <1>1, <1>6, <2>1, <3>1 DEF BeginDrive, Flush, Changed, Row
    <3> HIDE DEF new
    <3>4. /\ a \in Attempt /\ a.session = att[w].session /\ a.confirmed = att[w].confirmed
          /\ a.chunk = att[w].confirmed /\ a.pc = pc /\ a.run = new
      BY <1>1, <3>1 DEF Attempt
    <3>5. att[w].pc = "uploading" /\ att[w].pc \in Driving BY <1>6 DEF BeginDrive, Driving
    <3>6. UNCHANGED <<sessions, wf, owner, youtube, overlaps>>
      BY <1>6, <2>1 DEF BeginDrive, MoveFrame, ownerVars, worldVars
    <3>7. a.pc \in {"query", "send"} /\ (a.pc = "query" => a.confirmed > 0) BY <3>4
    <3>8. Sole => /\ a.confirmed = sessions'[a.session].confirmed
                  /\ a.pc = "send" /\ a.confirmed = 0 => a.chunk = 0
                  /\ a.confirmed = 0 => youtube'[a.session].held <= 1
      <4> SUFFICES ASSUME Sole
                   PROVE  /\ a.confirmed = sessions'[a.session].confirmed
                          /\ a.confirmed = 0 => youtube'[a.session].held <= 1
        BY <3>4
      <4>1. OneVideo BY DEF VInv
      <4>2. att[w].session \in Live /\ att[w].confirmed = sessions[att[w].session].confirmed
        BY <3>5, Driver
      <4> QED BY <3>4, <3>6, <4>1, <4>2 DEF OneVideo
    <3> HIDE DEF a
    <3> QED BY <3>1, <3>2, <3>3, <3>4, <3>5, <3>6, <3>7, <3>8, DriveVideo
  <2>2. CASE ~May(att[w].run.status, "UPLOADING")
    BY <1>2, <1>6, <2>2, RaiseVideo DEF BeginDrive, MoveFrame
  <2> QED BY <2>1, <2>2
<1> QED BY <1>3, <1>4, <1>5, <1>6

\* The one live session becomes the one video.
LEMMA RecordVideo ==
  ASSUME VInv, IInv', NEW w \in Worker, Record(w)
  PROVE  VInv'
<1> DEFINE s == att[w].session
           new == [att[w].run EXCEPT !.video = s, !.status = "PROCESSING"]
           a == [att[w] EXCEPT !.run = new, !.pc = "answer"]
           done == [status |-> "completed", confirmed |-> Chunks]
<1>1. /\ TypeOK /\ att[w] \in Attempt /\ att[w].run \in Row /\ run \in Row
      /\ s \in Session /\ youtube[s].held = Chunks /\ att[w].pc \in Driving /\ Busy(w)
      /\ s \in Video
  BY Shapes, PublicationAssumption DEF Record, VInv, IInv, DriveIsSound, Driving, Busy
<1>2. new.video = s /\ a.run = new /\ a.pc = "answer" BY <1>1 DEF Row, Attempt
<1>3. Commit(w, new, "answer") /\ sessions' = [sessions EXCEPT ![s] = done] /\ Frame
  BY DEF Record
<1>4. att' = [att EXCEPT ![w] = a] /\ run'.video = Changed(att[w].run.video, s, run.video)
  BY <1>2, <1>3 DEF Commit, Flush
<1>5. done.status = "completed" /\ done.confirmed = Chunks OBVIOUS
<1>6. UNCHANGED <<wf, owner, youtube, overlaps>> BY <1>3 DEF Frame, ownerVars, worldVars
<1> HIDE DEF new, a, done
<1>7. \A v \in Worker : att'[v] = IF v = w THEN a ELSE att[v] BY <1>1, <1>4 DEF TypeOK
<1>8. \A u \in Session : sessions'[u] = IF u = s THEN done ELSE sessions[u]
  BY <1>1, <1>3 DEF TypeOK
<1>9. ASSUME overlaps = 0 PROVE OneAttempt' /\ \A v \in Worker : Busy(v) => v = w
  BY <1>1, <1>6, <1>7, <1>9 DEF VInv, OneAttempt, Busy
<1>10. ASSUME Sole' PROVE Sole
  <2>1. \A v \in Worker : att'[v].pc \in Driving => att'[v] = att[v] BY <1>2, <1>7 DEF Driving
  <2>2. \A u \in Session : sessions[u].status = "cancelled" =>
           \E v \in Worker : att[v].pc \in Driving /\ att[v].session = u
    <3> SUFFICES ASSUME NEW u \in Session, sessions[u].status = "cancelled"
                 PROVE  \E v \in Worker : att[v].pc \in Driving /\ att[v].session = u
      OBVIOUS
    <3>1. CASE u = s BY <1>1, <3>1
    <3>2. CASE u # s BY <1>8, <1>10, <2>1, <3>2 DEF Sole
    <3> QED BY <3>1, <3>2
  <2> QED BY <1>6, <1>10, <2>2 DEF Sole
<1>11. ASSUME overlaps = 0 PROVE CopiesKnowVideo'
  <2>1. CopiesKnowVideo BY <1>11 DEF VInv
  <2>2. att[w].run.video = run.video BY <1>1, <2>1 DEF CopiesKnowVideo
  <2>3. run'.video = s BY <1>4, <2>2 DEF Changed
  <2>4. att[w].run.video = 0 BY <1>1 DEF VInv, NoVideoYet
  <2> QED BY <1>1, <1>2, <1>6, <1>7, <1>9, <1>11, <2>1, <2>2, <2>3, <2>4
      DEF CopiesKnowVideo, Busy
<1>12. ASSUME Sole' PROVE OneVideo' /\ \A v \in Worker : DriverIsRight(v)'
  <2>1. Sole /\ OneVideo BY <1>10, <1>12 DEF VInv
  <2>2. /\ Live = {s} /\ run.video = 0 /\ att[w].run.video = 0
        /\ Videos \subseteq Live /\ \A v \in Worker : Busy(v) => v = w
    BY <1>1, <2>1, Driver
  <2>3. Live' = {} BY <1>5, <1>8, <2>2 DEF Live
  <2>4. Videos' = {s} BY <1>1, <1>6, <2>2 DEF Videos
  <2>5. run'.video = s BY <1>4, <2>2 DEF Changed
  <2>6. \A u \in Session : sessions'[u].status = "none" => youtube'[u].held = 0
    BY <1>5, <1>6, <1>8, <2>1 DEF OneVideo
  <2>7. OneVideo'
    <3>1. run'.video # 0 BY <1>1, <2>5, PublicationAssumption
    <3>2. run'.video \in Videos' BY <2>4, <2>5
    <3> HIDE DEF s
    <3> QED BY <2>3, <2>4, <2>6, <3>1, <3>2 DEF OneVideo
  <2>8. \A v \in Worker : att'[v].pc \notin Driving BY <1>2, <1>7, <2>2 DEF Busy, Driving
  <2>9. \A v \in Worker : DriverIsRight(v)' BY <2>8 DEF DriverIsRight, Driving
  <2> QED BY <2>7, <2>9
<1>13. \A v \in Worker : NoVideoYet(v)' BY <1>2, <1>7 DEF VInv, NoVideoYet, Driving
<1> QED BY <1>6, <1>9, <1>11, <1>12, <1>13 DEF VInv

-----------------------------------------------------------------------------
(* The workflow, the owner, YouTube. *)

\* A step of nobody in a drive, and of none of the stored uploads.
LEMMA OutsideVideo ==
  ASSUME VInv, IInv', UNCHANGED <<att, sessions, overlaps>>,
         \A s \in Session : youtube'[s].held = youtube[s].held,
         run'.video = run.video,
         overlaps = 0 => OneAttempt',
         overlaps = 0 => CopiesKnowVideo',
         overlaps = 0 /\ run.video = 0 /\ run.status \in Stopped => run'.status \in Stopped
  PROVE  VInv'
<1>1. \A v \in Worker : NoVideoYet(v)' BY DEF VInv, NoVideoYet
<1>2. ASSUME Sole' PROVE OneVideo' /\ \A v \in Worker : DriverIsRight(v)'
  <2>1. Sole BY <1>2 DEF Sole
  <2>2. OneVideo /\ \A v \in Worker : DriverIsRight(v) BY <2>1 DEF VInv
  <2>3. Live' = Live /\ Videos' = Videos BY DEF Live, Videos
  <2>4. \A v \in Worker : DriverIsRight(v)'
    <3> SUFFICES ASSUME NEW v \in Worker PROVE DriverIsRight(v)' OBVIOUS
    <3>1. att[v].pc \in Driving => att[v].session \in Session BY DEF VInv, IInv, DriveIsSound
    <3> QED BY <2>2, <2>3, <3>1 DEF DriverIsRight, Driving
  <2>5. run.video = 0 /\ Frozen => Frozen' BY <2>1, <2>3 DEF Frozen, Sole, Busy
  <2>6. \A u \in Live : u \in Session BY DEF Live
  <2>7. OneVideo'
    <3>1. \A u \in Live' : sessions'[u].confirmed = 0 => youtube'[u].held <= 1
      BY <2>2, <2>3, <2>6 DEF OneVideo
    <3>2. \A u \in Session : sessions'[u].status = "none" => youtube'[u].held = 0
      BY <2>2 DEF OneVideo
    <3>3. (run'.video = 0 /\ \E u \in Videos' : u \notin Live') => Frozen'
      BY <2>2, <2>3, <2>5 DEF OneVideo
    <3> QED BY <2>2, <2>3, <3>1, <3>2, <3>3 DEF OneVideo
  <2> QED BY <2>4, <2>7
<1> QED BY <1>1, <1>2 DEF VInv

LEMMA WorkflowVideo ==
  ASSUME VInv, IInv', NEW w \in Worker, Take(w) \/ Answer(w) \/ Die(w) \/ GiveUp(w)
  PROVE  VInv'
<1>1. TypeOK /\ wf \in Execution /\ run \in Row /\ att[w] \in Attempt /\ overlaps \in 0 .. MaxOverlaps
  BY Shapes DEF VInv, IInv
<1>2. CASE Take(w)
  <2> DEFINE pc == IF wf.step = "finalize" THEN "answer" ELSE "revalidate"
             a == [att[w] EXCEPT !.step = wf.step, !.run = run, !.pc = pc]
  <2>1. a \in Attempt /\ a.pc = pc /\ a.run = run BY <1>1 DEF Attempt, Execution
  <2>2. att' = [att EXCEPT ![w] = a] BY <1>1, <1>2 DEF Take, TypeOK
  <2> HIDE DEF a
  <2>3. \A v \in Worker : att'[v] = IF v = w THEN a ELSE att[v] BY <1>1, <2>2 DEF TypeOK
  <2>4. overlaps = 0 => OneAttempt'
    <3>1. wf'.state = "busy" /\ wf'.worker = w /\ wf.state = "due"
      BY <1>1, <1>2 DEF Take, Execution
    <3> QED BY <2>3, <3>1 DEF VInv, OneAttempt, Busy
  <2>5. run' = run /\ UNCHANGED <<sessions, youtube, overlaps, owner>>
    BY <1>2 DEF Take, ownerVars, worldVars
  <2>6. pc \notin Driving /\ pc # "init" BY DEF Driving
  <2>7. Frozen => run'.status \in Stopped BY <2>5 DEF Frozen
  <2> QED BY <2>1, <2>2, <2>4, <2>5, <2>6, <2>7, RestingVideo
<1>3. CASE Answer(w)
  <2>1. att' = [att EXCEPT ![w] = Idle] /\ run' = run BY <1>3 DEF Answer
  <2>2. \A v \in Worker : att'[v] = IF v = w THEN Idle ELSE att[v] BY <1>1, <2>1 DEF TypeOK
  <2>3. overlaps = 0 => OneAttempt'
    <3>1. overlaps = 0 => \A v \in Worker : Busy(v) => v = w
      BY <1>3 DEF Answer, VInv, OneAttempt, Busy
    <3> QED BY <2>2, <3>1, IdleIsAttempt DEF OneAttempt, Busy
  <2>4. UNCHANGED <<sessions, youtube, overlaps, owner>> BY <1>3 DEF Answer, ownerVars, worldVars
  <2>5. Idle.pc \notin Driving /\ Idle.pc # "init" BY IdleIsAttempt DEF Driving
  <2>6. Frozen => run'.status \in Stopped BY <2>1 DEF Frozen
  <2> QED BY <2>1, <2>3, <2>4, <2>5, <2>6, IdleIsAttempt, RestingVideo
<1>4. CASE Die(w)
  BY <1>4, RaiseVideo DEF Die, Busy
<1>5. CASE GiveUp(w)
  <2>1. overlaps' # 0 BY <1>1, <1>5, PublicationAssumption DEF GiveUp
  <2>2. ~Sole' BY <2>1 DEF Sole
  <2>3. att' = att BY <1>5 DEF GiveUp
  <2> QED BY <2>1, <2>2, <2>3 DEF VInv, NoVideoYet
<1> QED BY <1>2, <1>3, <1>4, <1>5

\* The owner's start, YouTube and the project: none of them writes the row.
LEMMA WorldVideo ==
  ASSUME VInv, IInv', \/ Start \/ \E s \in Session : Process(s) \/ Collect(s)
                      \/ RevokeGrant \/ Reconnect \/ SelectOtherRender
  PROVE  VInv'
<1>1. youtube \in [Session -> Upload] BY DEF VInv, IInv, TypeOK
<1>2. UNCHANGED <<att, sessions, overlaps>> /\ UNCHANGED run /\ UNCHANGED owner
  BY DEF Start, Process, Collect, RevokeGrant, Reconnect, SelectOtherRender, programVars,
         ownerVars, worldVars
<1>3. \A s \in Session : youtube'[s].held = youtube[s].held
  <2>1. CASE youtube' = youtube BY <2>1
  <2>2. ASSUME NEW u \in Session, NEW y, y.held = youtube[u].held,
               youtube' = [youtube EXCEPT ![u] = y]
        PROVE  \A s \in Session : youtube'[s].held = youtube[s].held
    BY <1>1, <2>2
  <2>3. ASSUME NEW u \in Session, Process(u)
        PROVE  \A s \in Session : youtube'[s].held = youtube[s].held
    <3>1. PICK x \in {"succeeded", "failed"} : youtube' = [youtube EXCEPT ![u].processed = x]
      BY <2>3 DEF Process
    <3> DEFINE y == [youtube[u] EXCEPT !.processed = x]
    <3>2. y.held = youtube[u].held BY <1>1 DEF Upload
    <3>3. youtube' = [youtube EXCEPT ![u] = y] BY <3>1
    <3> HIDE DEF y
    <3> QED BY <2>2, <3>2, <3>3
  <2>4. ASSUME NEW u \in Session, Collect(u)
        PROVE  \A s \in Session : youtube'[s].held = youtube[s].held
    <3> DEFINE y == [youtube[u] EXCEPT !.gone = TRUE]
    <3>1. y.held = youtube[u].held BY <1>1 DEF Upload
    <3>2. youtube' = [youtube EXCEPT ![u] = y] BY <2>4 DEF Collect
    <3> HIDE DEF y
    <3> QED BY <2>2, <3>1, <3>2
  <2> QED BY <2>1, <2>3, <2>4
      DEF Start, RevokeGrant, Reconnect, SelectOtherRender, worldVars
<1>4. overlaps = 0 => CopiesKnowVideo' BY <1>2 DEF VInv, CopiesKnowVideo, Busy
<1>5. overlaps = 0 => OneAttempt'
  <2>1. CASE Start BY <1>2, <2>1 DEF Start, VInv, OneAttempt, Busy
  <2>2. CASE wf' = wf BY <1>2, <2>2 DEF VInv, OneAttempt, Busy
  <2> QED BY <2>1, <2>2
      DEF Process, Collect, RevokeGrant, Reconnect, SelectOtherRender, programVars
<1> QED BY <1>2, <1>3, <1>4, <1>5, OutsideVideo

LEMMA FlushKeepsVideo ==
  ASSUME NEW old, NEW new, new.video = old.video, Flush(old, new)
  PROVE  run'.video = run.video
BY DEF Flush, Changed

\* A step of the owner's request that writes no session.
LEMMA OwnerVideo ==
  ASSUME VInv, IInv', UNCHANGED <<att, sessions, overlaps>>, UNCHANGED wf,
         \A s \in Session : youtube'[s].held = youtube[s].held,
         run'.video = run.video,
         overlaps = 0 /\ run.video = 0 => run' = run,
         overlaps = 0 /\ owner'.pc \in {"mark", "update", "updated"} => owner'.run.video # 0,
         overlaps = 0 /\ owner'.pc \in {"cancel", "commit"} => owner'.run.video = 0,
         overlaps = 0 /\ owner'.pc # "none" /\ owner'.run.video # 0 =>
           run.video = owner'.run.video
  PROVE  VInv'
<1>1. overlaps = 0 => OneAttempt' BY DEF VInv, OneAttempt, Busy
<1>2. overlaps = 0 => CopiesKnowVideo' BY DEF VInv, CopiesKnowVideo, Busy
<1> QED BY <1>1, <1>2, OutsideVideo

\* A request starts from the row as committed, or ends.
LEMMA AsksVideo ==
  ASSUME VInv, IInv', AskCancel \/ AskVisibility \/ RequestDies
  PROVE  VInv'
<1>1. UNCHANGED <<att, sessions, overlaps>> /\ UNCHANGED wf /\ UNCHANGED <<run, youtube>>
  BY DEF AskCancel, AskVisibility, RequestDies, Ask, OwnerFrame, workerVars
<1>2. CASE AskCancel
  <2>1. owner'.pc = "cancel" /\ owner'.run = run /\ run.video = 0 BY <1>2 DEF AskCancel, Ask
  <2> QED BY <1>1, <2>1, OwnerVideo
<1>3. CASE AskVisibility
  <2>1. owner'.pc = "mark" /\ owner'.run = run /\ run.video # 0
    BY <1>3 DEF AskVisibility, VisibilityOpen, Ask
  <2> QED BY <1>1, <2>1, OwnerVideo
<1>4. CASE RequestDies
  <2>1. owner'.pc = "none" BY <1>4 DEF RequestDies, NoRequest
  <2> QED BY <1>1, <2>1, OwnerVideo
<1> QED BY <1>2, <1>3, <1>4

\* A request about visibility is of a publication that has its video.
LEMMA VisibilityVideo ==
  ASSUME VInv, IInv',
         MarkVisibility \/ UpdateVisibility \/ Publish \/ VisibilityFails \/ CancelSession
  PROVE  VInv'
<1>1. owner \in Request /\ owner.run \in Row /\ youtube \in [Session -> Upload]
  BY DEF VInv, IInv, TypeOK, Request
<1>2. UNCHANGED <<att, sessions, overlaps>> /\ UNCHANGED wf
  BY DEF MarkVisibility, UpdateVisibility, Publish, VisibilityFails, CancelSession,
         OwnerFrame, workerVars
<1>3. \A s \in Session : youtube'[s].held = youtube[s].held
  <2>1. CASE youtube' = youtube BY <2>1
  <2>2. ASSUME NEW u, NEW y, y.held = youtube[u].held, youtube' = [youtube EXCEPT ![u] = y]
        PROVE  \A s \in Session : youtube'[s].held = youtube[s].held
    BY <1>1, <2>2
  <2>3. CASE UpdateVisibility
    <3> DEFINE u == owner.run.video
               y == [youtube[u] EXCEPT !.privacy = "public"]
    <3>1. CASE u \in Session
      <4>1. y.held = youtube[u].held BY <1>1, <3>1 DEF Upload
      <4>2. youtube' = [youtube EXCEPT ![u] = y] BY <2>3 DEF UpdateVisibility
      <4> HIDE DEF y, u
      <4> QED BY <2>2, <4>1, <4>2
    <3>2. CASE u \notin Session BY <1>1, <2>3, <3>2 DEF UpdateVisibility
    <3> QED BY <3>1, <3>2
  <2>4. CASE CancelSession
    <3>1. CASE youtube' = youtube BY <3>1
    <3>2. CASE youtube' = [youtube EXCEPT ![owner.session].gone = TRUE]
      <4> DEFINE u == owner.session
                 y == [youtube[u] EXCEPT !.gone = TRUE]
      <4>1. CASE u \in Session
        <5>1. y.held = youtube[u].held BY <1>1, <4>1 DEF Upload
        <5>2. youtube' = [youtube EXCEPT ![u] = y] BY <3>2
        <5> HIDE DEF y, u
        <5> QED BY <2>2, <5>1, <5>2
      <4>2. CASE u \notin Session BY <1>1, <3>2, <4>2
      <4> QED BY <4>1, <4>2
    <3> QED BY <2>4, <3>1, <3>2 DEF CancelSession
  <2> QED BY <2>1, <2>3, <2>4 DEF MarkVisibility, Publish, VisibilityFails
<1>4. overlaps = 0 /\ owner.pc \in {"mark", "update", "updated"} =>
        owner.run.video # 0 /\ run.video = owner.run.video
  BY DEF VInv, CopiesKnowVideo
<1>5. CASE CancelSession
  <2>1. owner'.pc = "commit" /\ owner'.run = owner.run /\ owner.pc = "cancel" /\ run' = run
    BY <1>1, <1>5 DEF CancelSession, Request
  <2>2. overlaps = 0 => owner.run.video = 0 BY <2>1 DEF VInv, CopiesKnowVideo
  <2> QED BY <1>2, <1>3, <2>1, <2>2, OwnerVideo
<1>6. CASE MarkVisibility
  <2>1. CASE Passes /\ May(owner.run.status, "VISIBILITY_UPDATING")
    <3> DEFINE new == [owner.run EXCEPT !.status = "VISIBILITY_UPDATING", !.decided = TRUE]
    <3>1. new.video = owner.run.video BY <1>1 DEF Row
    <3>2. Flush(owner.run, new) /\ owner' = [owner EXCEPT !.pc = "update", !.run = new]
          /\ owner.pc = "mark"
      BY <1>6, <2>1 DEF MarkVisibility
    <3> HIDE DEF new
    <3>3. owner'.pc = "update" /\ owner'.run.video = owner.run.video
      BY <1>1, <3>1, <3>2 DEF Request
    <3>4. run'.video = run.video BY <3>1, <3>2, FlushKeepsVideo
    <3> QED BY <1>2, <1>3, <1>4, <3>2, <3>3, <3>4, OwnerVideo
  <2>2. CASE ~(Passes /\ May(owner.run.status, "VISIBILITY_UPDATING"))
    <3> DEFINE new == Failed(owner.run, "HUMAN_REVIEW_REQUIRED")
    <3>1. owner.pc = "mark" /\ owner' = NoRequest /\ (run' = run \/ Flush(owner.run, new))
      BY <1>6, <2>2 DEF MarkVisibility
    <3>2. new.video = owner.run.video BY <1>1, FailedColumns DEF Status
    <3> HIDE DEF new
    <3>3. run'.video = run.video BY <3>1, <3>2, FlushKeepsVideo
    <3>4. owner'.pc = "none" BY <3>1 DEF NoRequest
    <3> QED BY <1>2, <1>3, <1>4, <3>1, <3>3, <3>4, OwnerVideo
  <2> QED BY <2>1, <2>2
<1>7. CASE UpdateVisibility
  <2>1. owner'.pc = "updated" /\ owner'.run = owner.run /\ owner.pc = "update" /\ run' = run
    BY <1>1, <1>7 DEF UpdateVisibility, Request
  <2> QED BY <1>2, <1>3, <1>4, <2>1, OwnerVideo
<1>8. ASSUME NEW new, new.video = owner.run.video, Flush(owner.run, new),
             owner.pc \in {"update", "updated"}, owner' = NoRequest
      PROVE  VInv'
  <2>1. run'.video = run.video BY <1>8, FlushKeepsVideo
  <2>2. owner'.pc = "none" BY <1>8 DEF NoRequest
  <2> QED BY <1>2, <1>3, <1>4, <1>8, <2>1, <2>2, OwnerVideo
<1>9. CASE Publish
  <2> DEFINE new == [owner.run EXCEPT !.status = "PUBLISHED"]
  <2>1. new.video = owner.run.video BY <1>1 DEF Row
  <2>2. Flush(owner.run, new) /\ owner.pc = "updated" /\ owner' = NoRequest
    BY <1>9 DEF Publish
  <2> HIDE DEF new
  <2> QED BY <1>8, <2>1, <2>2
<1>10. CASE VisibilityFails
  <2>1. PICK t \in Parked \cup {"PRIVATE_READY"} : Flush(owner.run, Failed(owner.run, t))
    BY <1>10 DEF VisibilityFails
  <2>2. Failed(owner.run, t).video = owner.run.video
    BY <1>1, FailedColumns DEF Parked, Status
  <2>3. owner.pc \in {"update", "updated"} /\ owner' = NoRequest
    BY <1>10 DEF VisibilityFails
  <2> QED BY <1>8, <2>1, <2>2, <2>3
<1> QED BY <1>5, <1>6, <1>7, <1>9, <1>10
\* A session cancelled under a drive is still the one its drive goes on with.
LEMMA CommitCancelVideo ==
  ASSUME VInv, IInv', CommitCancel
  PROVE  VInv'
<1> DEFINE s == owner.session
           new == [owner.run EXCEPT !.status = "CANCELLED"]
<1>1. /\ TypeOK /\ run \in Row /\ owner.run \in Row /\ s \in Video /\ wf \in Execution
      /\ \A u \in Session : sessions[u] \in SessionRow
  BY DEF VInv, IInv, TypeOK, Request
<1>2. /\ UNCHANGED <<att, overlaps, youtube>> /\ owner'.pc = "none" /\ Flush(owner.run, new)
      /\ sessions' = IF s = 0 THEN sessions ELSE [sessions EXCEPT ![s].status = "cancelled"]
  BY DEF CommitCancel, NoRequest
<1>3. new.video = owner.run.video /\ new.status = "CANCELLED" BY <1>1 DEF Row
<1>4. run'.video = run.video BY <1>2, <1>3, FlushKeepsVideo
<1>5. run'.status \in {run.status, "CANCELLED"} BY <1>2, <1>3 DEF Flush, Changed
<1>6. wf'.state = wf.state /\ wf'.worker = wf.worker BY <1>1 DEF CommitCancel, Execution
<1> HIDE DEF new
<1>7. \A u \in Session : /\ sessions'[u].confirmed = sessions[u].confirmed
                         /\ sessions'[u].status = IF u = s THEN "cancelled"
                                                  ELSE sessions[u].status
  <2>1. CASE s = 0 BY <1>2, <2>1, PublicationAssumption
  <2>2. CASE s # 0
    <3> DEFINE x == [sessions[s] EXCEPT !.status = "cancelled"]
    <3>1. s \in Session BY <1>1, <2>2, PublicationAssumption
    <3>2. x.status = "cancelled" /\ x.confirmed = sessions[s].confirmed
      BY <1>1, <3>1 DEF SessionRow
    <3>3. sessions' = [sessions EXCEPT ![s] = x] BY <1>2, <2>2
    <3> HIDE DEF x, s
    <3>4. \A u \in Session : sessions'[u] = IF u = s THEN x ELSE sessions[u]
      BY <1>1, <3>3 DEF TypeOK
    <3> QED BY <3>2, <3>4
  <2> QED BY <2>1, <2>2
<1> HIDE DEF s
<1>8. \A v \in Worker : NoVideoYet(v)' BY <1>2 DEF VInv, NoVideoYet
<1>9. overlaps' = 0 => OneAttempt' /\ CopiesKnowVideo'
  BY <1>2, <1>4, <1>6 DEF VInv, OneAttempt, CopiesKnowVideo, Busy
<1>10. ASSUME Sole' PROVE OneVideo' /\ \A v \in Worker : DriverIsRight(v)'
  <2>1. Sole
    <3>1. \A u \in Session : sessions[u].status = "cancelled" =>
                             sessions'[u].status = "cancelled"
      BY <1>7
    <3> QED BY <1>2, <1>10, <3>1 DEF Sole
  <2>2. OneVideo /\ \A v \in Worker : DriverIsRight(v) BY <2>1 DEF VInv
  <2>3. \A u \in Session : u = s => u \in Live
    BY <1>2, <1>7, <1>10, <2>2 DEF Sole, DriverIsRight
  <2>4. Live' = Live BY <1>7, <2>3 DEF Live
  <2>5. Videos' = Videos BY <1>2 DEF Videos
  <2>6. Frozen => Frozen'
    BY <1>2, <1>5, <2>4 DEF Frozen, Busy, Stopped, Dead
  <2>7. OneVideo'
    <3>1. \A u \in Session : sessions'[u].status = "none" => youtube'[u].held = 0
      BY <1>2, <1>7, <2>2 DEF OneVideo
    <3>2. \A u \in Live' : sessions'[u].confirmed = 0 => youtube'[u].held <= 1
      BY <1>2, <1>7, <2>2, <2>4 DEF OneVideo, Live
    <3>3. (run'.video = 0 /\ \E u \in Videos' : u \notin Live') => Frozen'
      BY <1>4, <2>2, <2>4, <2>5, <2>6 DEF OneVideo
    <3> QED BY <1>4, <2>2, <2>4, <2>5, <3>1, <3>2, <3>3 DEF OneVideo
  <2>8. \A v \in Worker : DriverIsRight(v)'
    <3> SUFFICES ASSUME NEW v \in Worker PROVE DriverIsRight(v)' OBVIOUS
    <3>1. att[v].pc \in Driving => att[v].session \in Session BY DEF VInv, IInv, DriveIsSound
    <3> QED BY <1>2, <1>7, <2>2, <2>4, <3>1 DEF DriverIsRight
  <2> QED BY <2>7, <2>8
<1> QED BY <1>8, <1>9, <1>10 DEF VInv

-----------------------------------------------------------------------------
(* The theorems. *)

LEMMA VStepKeeps ==
  ASSUME VInv, [Next]_vars
  PROVE  VInv'
<1>1. IInv' BY StepKeeps DEF VInv
<1>2. CASE UNCHANGED vars
  BY <1>1, <1>2 DEF vars, VInv, NoVideoYet, OneAttempt, CopiesKnowVideo, Busy, Sole, OneVideo,
                    DriverIsRight, Live, Videos, Frozen
<1>3. ASSUME NEW w \in Worker, UploadStep(w) PROVE VInv'
  BY <1>1, <1>3, AnswersVideo, ChunksVideo, LossVideo, RefusalVideo, BeginningsVideo, RecordVideo
     DEF UploadStep
<1>4. ASSUME NEW w \in Worker, VideoStep(w) PROVE VInv'
  BY <1>1, <1>4, RefusalVideo, VideoStepsVideo DEF VideoStep
<1>5. ASSUME NEW w \in Worker, WorkerStep(w) \/ Die(w) \/ GiveUp(w) PROVE VInv'
  BY <1>1, <1>3, <1>4, <1>5, PreludeVideo, WorkflowVideo DEF WorkerStep
<1>6. CASE OwnerStep \/ AskCancel \/ AskVisibility
  BY <1>1, <1>6, AsksVideo, VisibilityVideo, CommitCancelVideo DEF OwnerStep
<1>7. CASE \/ Start \/ \E s \in Session : Process(s) \/ Collect(s)
           \/ RevokeGrant \/ Reconnect \/ SelectOtherRender
  BY <1>1, <1>7, WorldVideo
<1> QED BY <1>2, <1>5, <1>6, <1>7 DEF Next
LEMMA VInit == Init => VInv
<1> SUFFICES ASSUME Init PROVE VInv OBVIOUS
<1>1. IInv BY IInit
<1>2. /\ \A w \in Worker : att[w].pc = "idle" /\ att[w].pc \notin Driving
      /\ owner.pc = "none" /\ run.video = 0
  BY DEF Init, Idle, NoRequest, Draft, Driving
<1>3. \A s \in Session : sessions[s].status = "none" /\ youtube[s].held = 0 BY DEF Init
<1>4. Live = {} /\ Videos = {} BY <1>3, PublicationAssumption DEF Live, Videos
<1>5. \A w \in Worker : NoVideoYet(w) /\ DriverIsRight(w)
  BY <1>2 DEF NoVideoYet, DriverIsRight, Driving
<1>6. OneAttempt /\ CopiesKnowVideo BY <1>2 DEF OneAttempt, CopiesKnowVideo, Busy
<1>7. OneVideo BY <1>2, <1>3, <1>4 DEF OneVideo
<1> QED BY <1>1, <1>5, <1>6, <1>7 DEF VInv

LEMMA VInvariance == Spec => []VInv
<1>1. VInv /\ [Next]_vars => VInv' BY VStepKeeps
<1> QED BY <1>1, VInit, PTL DEF Spec

\* However an upload is interrupted, resumed, given up for another session or
\* parked, YouTube makes at most one video of the render and the row names it.
THEOREM OneVideoOnly == Spec => []AtMostOneVideo
<1>1. VInv => AtMostOneVideo
  <2> SUFFICES ASSUME VInv, Alone
               PROVE  /\ Cardinality(Videos) <= 1
                      /\ run.video # 0 => run.video \in Videos
    BY DEF AtMostOneVideo
  <2>1. OneVideo BY DEF VInv, Sole, Alone
  <2>2. CASE Videos = {} BY <2>1, <2>2, FS_EmptySet DEF OneVideo
  <2>3. CASE Videos # {}
    <3>1. PICK s : s \in Videos BY <2>3
    <3>2. Videos = {s} BY <2>1, <3>1 DEF OneVideo
    <3>3. Cardinality(Videos) = 1 BY <3>2, FS_Singleton
    <3> QED BY <2>1, <3>3 DEF OneVideo
  <2> QED BY <2>2, <2>3
<1> QED BY <1>1, VInvariance, PTL

\* An activity that is not recording a video writes back the one it read.
LEMMA RowKeepsVideo ==
  ASSUME IInv, NEW w \in Worker, WorkerStep(w) \/ Die(w) \/ GiveUp(w), ~Record(w)
  PROVE  run'.video = run.video
<1>1. att[w].run \in Row BY DEF IInv, TypeOK, Attempt
<1>2. ASSUME NEW new, NEW pc, new.video = att[w].run.video, Commit(w, new, pc)
      PROVE  run'.video = run.video
  BY <1>2, FlushKeepsVideo DEF Commit
<1>3. ASSUME NEW t \in Status, Park(w, t) PROVE run'.video = run.video
  BY <1>1, <1>2, <1>3, FailedColumns DEF Park
<1>4. ASSUME NEW new, NEW pc, new.video = att[w].run.video, MoveTo(w, new, pc)
      PROVE  run'.video = run.video
  BY <1>2, <1>4 DEF MoveTo, Raise
<1>5. Parked \cup Review \cup {"FAILED", "HUMAN_REVIEW_REQUIRED", "UPLOAD_INITIALIZING"}
        \subseteq Status
  BY DEF Parked, Review, Status
<1>6. CASE \/ Take(w) \/ Revalidate(w) \/ TokenRefused(w) \/ Skip(w) \/ Answer(w)
           \/ Die(w) \/ GiveUp(w) \/ ResumeUpload(w) \/ OpenSession(w)
           \/ Query(w) \/ Transfer(w) \/ Drop(w) \/ ChunkFails(w) \/ Resolve(w)
  BY <1>6 DEF Take, Revalidate, TokenRefused, Skip, Answer, Die, GiveUp, ResumeUpload,
              OpenSession, Query, Transfer, Drop, ChunkFails, Resolve, Answered, Go, Raise
<1>7. CASE QueryFinal(w) \/ Acknowledge(w)
  BY <1>7 DEF QueryFinal, Acknowledge, Answered, Go
<1>8. CASE Ineligible(w) \/ InitRefused(w) \/ QueryFails(w) \/ ResolveGone(w) \/ ResolveFails(w)
           \/ SessionGone(w) \/ PollRefused(w) \/ CaptionChanged(w) \/ VerifyRefused(w)
  <2>1. \E t \in Status : Park(w, t)
    BY <1>5, <1>8 DEF Ineligible, InitRefused, QueryFails, ResolveGone, ResolveFails,
                      SessionGone, Ambiguous, PollRefused, CaptionChanged, VerifyRefused,
                      Parked, Review
  <2> QED BY <1>3, <2>1
<1>9. CASE ParkUpload(w)
  <2>1. att[w].why \in Status BY <1>5, <1>9 DEF ParkUpload, IInv, DriveIsSound
  <2> QED BY <1>3, <1>9, <2>1 DEF ParkUpload
<1>10. CASE Validate(w)
  <2> DEFINE r == att[w].run
             new == IF r.video = 0 /\ r.status \in PreUpload
                    THEN [r EXCEPT !.status = "READY"] ELSE r
  <2>1. new.video = r.video BY <1>1 DEF Row
  <2>2. Commit(w, new, "answer") BY <1>10 DEF Validate
  <2> HIDE DEF new
  <2> QED BY <1>2, <2>1, <2>2
<1>11. ASSUME NEW status, NEW pc, MoveTo(w, [att[w].run EXCEPT !.status = status], pc)
       PROVE  run'.video = run.video
  <2> DEFINE new == [att[w].run EXCEPT !.status = status]
  <2>1. new.video = att[w].run.video BY <1>1 DEF Row
  <2>2. MoveTo(w, new, pc) BY <1>11
  <2> HIDE DEF new
  <2> QED BY <1>4, <2>1, <2>2
<1>12. CASE BeginUpload(w) \/ Captions(w) \/ Verify(w)
  BY <1>11, <1>12 DEF BeginUpload, Captions, Verify
<1>13. CASE BeginDrive(w)
  <2> DEFINE new == [att[w].run EXCEPT !.status = "UPLOADING"]
  <2>1. new.video = att[w].run.video BY <1>1 DEF Row
  <2>2. Flush(att[w].run, new) \/ run' = run BY <1>13 DEF BeginDrive, Raise
  <2> HIDE DEF new
  <2> QED BY <2>1, <2>2, FlushKeepsVideo
<1>14. CASE Poll(w)
  <2> DEFINE seen == youtube[att[w].run.video].processed
             new == [att[w].run EXCEPT !.processing = seen]
             up == [new EXCEPT !.status = "UPLOADING_CAPTIONS"]
             bad == Failed(new, "PROCESSING_FAILED")
  <2>1. new.video = att[w].run.video /\ up.video = att[w].run.video
        /\ bad.video = att[w].run.video
    BY <1>1 DEF Row, Failed
  <2>2. MoveTo(w, up, "answer") \/ Commit(w, bad, "answer") \/ Commit(w, new, "answer")
    BY <1>14 DEF Poll
  <2> HIDE DEF new, up, bad
  <2> QED BY <1>2, <1>4, <2>1, <2>2
<1> QED BY <1>6, <1>7, <1>8, <1>9, <1>10, <1>12, <1>13, <1>14
        DEF WorkerStep, UploadStep, VideoStep

\* No request or activity replaces or loses a recorded video by the copy of the
\* row it loaded before the video was recorded.
THEOREM VideoStays == Spec => VideoIsKept
<1>1. VInv /\ [Next]_vars => [Alone /\ run.video # 0 => run'.video = run.video]_vars
  <2> SUFFICES ASSUME VInv, Next, Alone, run.video # 0 PROVE run'.video = run.video
    OBVIOUS
  <2>1. IInv /\ CopiesKnowVideo BY DEF VInv, Alone
  <2>2. ASSUME NEW w \in Worker, WorkerStep(w) \/ Die(w) \/ GiveUp(w)
        PROVE  run'.video = run.video
    <3>1. ~Record(w)
      BY <2>1 DEF Record, VInv, NoVideoYet, Driving, CopiesKnowVideo, Busy
    <3> QED BY <2>1, <2>2, <3>1, RowKeepsVideo
  <2>3. owner.run \in Row BY <2>1 DEF IInv, TypeOK, Request
  <2>4. CASE CommitCancel
    <3> DEFINE new == [owner.run EXCEPT !.status = "CANCELLED"]
    <3>1. new.video = owner.run.video BY <2>3 DEF Row
    <3>2. Flush(owner.run, new) BY <2>4 DEF CommitCancel
    <3> HIDE DEF new
    <3> QED BY <3>1, <3>2, FlushKeepsVideo
  <2>5. CASE MarkVisibility
    <3> DEFINE new == [owner.run EXCEPT !.status = "VISIBILITY_UPDATING", !.decided = TRUE]
               bad == Failed(owner.run, "HUMAN_REVIEW_REQUIRED")
    <3>1. new.video = owner.run.video BY <2>3 DEF Row
    <3>2. bad.video = owner.run.video BY <2>3, FailedColumns DEF Status
    <3>3. Flush(owner.run, new) \/ Flush(owner.run, bad) \/ run' = run
      BY <2>5 DEF MarkVisibility
    <3> HIDE DEF new, bad
    <3> QED BY <3>1, <3>2, <3>3, FlushKeepsVideo
  <2>6. CASE Publish
    <3> DEFINE new == [owner.run EXCEPT !.status = "PUBLISHED"]
    <3>1. new.video = owner.run.video BY <2>3 DEF Row
    <3>2. Flush(owner.run, new) BY <2>6 DEF Publish
    <3> HIDE DEF new
    <3> QED BY <3>1, <3>2, FlushKeepsVideo
  <2>7. CASE VisibilityFails
    <3>1. PICK t \in Parked \cup {"PRIVATE_READY"} : Flush(owner.run, Failed(owner.run, t))
      BY <2>7 DEF VisibilityFails
    <3>2. Failed(owner.run, t).video = owner.run.video
      BY <2>3, FailedColumns DEF Parked, Status
    <3> QED BY <3>1, <3>2, FlushKeepsVideo
  <2>8. CASE \/ Start \/ AskCancel \/ AskVisibility \/ CancelSession \/ UpdateVisibility
             \/ RequestDies \/ RevokeGrant \/ Reconnect \/ SelectOtherRender
             \/ \E s \in Session : Process(s) \/ Collect(s)
    BY <2>8 DEF Start, AskCancel, AskVisibility, Ask, CancelSession, UpdateVisibility,
                RequestDies, RevokeGrant, Reconnect, SelectOtherRender, Process, Collect,
                programVars
  <2> QED BY <2>2, <2>4, <2>5, <2>6, <2>7, <2>8 DEF Next, OwnerStep
<1> QED BY <1>1, VInvariance, PTL DEF Spec, VideoIsKept
-----------------------------------------------------------------------------
(* The row: PublicIsDecided and RowIsAccepted. *)

Visible == {"mark", "update", "updated"}

\* No copy knows of a video when the row has none.
VideoIsKnown ==
  /\ \A w \in Worker : Busy(w) /\ att[w].run.video # 0 => run.video # 0
  /\ owner.pc \in Visible => owner.run.video # 0 /\ run.video # 0
  /\ run.status \in WithVideo => run.video # 0

\* YouTube is asked for what is decided.
DecidedFirst ==
  /\ owner.pc \in {"update", "updated"} => run.decided
  /\ owner.pc # "none" /\ owner.run.decided => run.decided
  /\ \A s \in Session : youtube[s].privacy = "public" => run.decided

\* Nothing is made visible before the row says that the video was processed, and
\* the row is right.
ProcessedFirst ==
  /\ \A w \in Worker : Busy(w) => att[w].run.processing = run.processing
  /\ owner.pc \in Visible => run.processing = "succeeded"
  /\ run.processing = "succeeded" =>
       run.video # 0 /\ youtube[run.video].processed = "succeeded"
  /\ run.status = "PUBLISHED" => run.processing = "succeeded"
  /\ \A s \in Session : youtube[s].privacy = "public" => youtube[s].processed = "succeeded"

RInv ==
  /\ VInv
  /\ VideoIsKnown
  /\ DecidedFirst
  /\ overlaps = 0 => ProcessedFirst

\* What an activity may make of the copy it loaded.
Rewrites(old, new) ==
  /\ new.decided = old.decided
  /\ new.video # old.video => old.video = 0 /\ new.video # 0
  /\ new.status # old.status =>
       /\ new.status # "PUBLISHED"
       /\ new.status \in WithVideo => new.video # 0
  /\ new.processing # old.processing =>
       /\ old.video # 0 /\ old.processing # "succeeded"
       /\ new.processing = "succeeded" => youtube[old.video].processed = "succeeded"

\* ... and what becomes of the copy and the row.
Writes(w) ==
  /\ \A v \in Worker \ {w} : att'[v] = att[v]
  /\ \E new \in Row :
       /\ Rewrites(att[w].run, new)
       /\ Flush(att[w].run, new)
       /\ Busy(w) \/ new = att[w].run
       /\ \/ att'[w].pc = "idle"
          \/ att'[w].run = run'
          \/ (Busy(w) /\ att'[w].run = new)

\* A step that leaves the row alone writes what it loaded.
LEMMA KeptWrites ==
  ASSUME IInv, NEW w \in Worker, run' = run, \A v \in Worker \ {w} : att'[v] = att[v],
         \/ att'[w].pc = "idle"
         \/ att'[w].run = run
         \/ (Busy(w) /\ att'[w].run = att[w].run)
  PROVE  Writes(w)
<1>1. att[w].run \in Row /\ run \in Row BY DEF IInv, TypeOK, Attempt
<1>2. Flush(att[w].run, att[w].run) BY <1>1 DEF Flush, Changed, Row
<1>3. Rewrites(att[w].run, att[w].run) BY DEF Rewrites
<1> QED BY <1>1, <1>2, <1>3 DEF Writes

LEMMA CommitWrites ==
  ASSUME IInv, NEW w \in Worker, Busy(w), NEW new \in Row, NEW pc, Commit(w, new, pc),
         Rewrites(att[w].run, new)
  PROVE  Writes(w)
<1>1. att \in [Worker -> Attempt] BY DEF IInv, TypeOK
<1>2. \A v \in Worker \ {w} : att'[v] = att[v] BY <1>1 DEF Commit
<1>3. att'[w].run = new BY <1>1 DEF Commit, Attempt
<1> QED BY <1>2, <1>3 DEF Commit, Writes

LEMMA ParkWrites ==
  ASSUME IInv, NEW w \in Worker, Busy(w), NEW t \in Status \ WithVideo, Park(w, t)
  PROVE  Writes(w)
<1> DEFINE new == Failed(att[w].run, t)
<1>1. att[w].run \in Row BY DEF IInv, TypeOK, Attempt
<1>2. new \in Row BY <1>1, FailedIsRow
<1>3. Rewrites(att[w].run, new) BY <1>1 DEF Rewrites, Failed, Row, WithVideo
<1>4. Commit(w, new, "answer") BY DEF Park
<1> HIDE DEF new
<1> QED BY <1>2, <1>3, <1>4, CommitWrites

LEMMA RaiseWrites ==
  ASSUME IInv, NEW w \in Worker, Raise(w)
  PROVE  Writes(w)
<1>1. att \in [Worker -> Attempt] BY DEF IInv, TypeOK
<1>2. \A v \in Worker \ {w} : att'[v] = att[v] BY <1>1 DEF Raise
<1>3. att'[w].pc = "idle" BY <1>1, IdleIsAttempt DEF Raise
<1> QED BY <1>2, <1>3, KeptWrites DEF Raise

LEMMA MoveWrites ==
  ASSUME IInv, NEW w \in Worker, Busy(w), NEW new \in Row, NEW pc, MoveTo(w, new, pc),
         Rewrites(att[w].run, new)
  PROVE  Writes(w)
BY CommitWrites, RaiseWrites DEF MoveTo

\* Every activity step writes as Writes has it.
LEMMA WorkerWrites ==
  ASSUME VInv, NEW w \in Worker, WorkerStep(w) \/ Die(w) \/ GiveUp(w)
  PROVE  Writes(w)
<1>1. IInv /\ att \in [Worker -> Attempt] /\ att[w].run \in Row /\ att[w] \in Attempt
  BY DEF VInv, IInv, TypeOK, Attempt
<1>2. Parked \cup Review \cup {"FAILED", "HUMAN_REVIEW_REQUIRED", "UPLOAD_INITIALIZING"}
        \subseteq Status \ WithVideo
  BY DEF Parked, Review, Status, WithVideo, AfterVideo
<1>3. ASSUME NEW pc, Go(w, pc), Busy(w) PROVE Writes(w)
  <2>1. att'[w].run = att[w].run /\ \A v \in Worker \ {w} : att'[v] = att[v]
    BY <1>1, <1>3 DEF Go, Attempt
  <2> QED BY <1>1, <1>3, <2>1, KeptWrites DEF Go
<1>4. ASSUME NEW n, NEW chunk, NEW pc, Checkpoint(w, n, chunk, pc), run' = run, Busy(w)
      PROVE  Writes(w)
  <2>1. att'[w].run = att[w].run /\ \A v \in Worker \ {w} : att'[v] = att[v]
    BY <1>1, <1>4 DEF Checkpoint, Attempt
  <2> QED BY <1>1, <1>4, <2>1, KeptWrites
<1>5. CASE Revalidate(w) \/ TokenRefused(w) \/ Skip(w) \/ Transfer(w) \/ Drop(w)
  BY <1>3, <1>5 DEF Revalidate, TokenRefused, NeedsToken, Skip, Transfer, Drop, At, Busy
<1>6. CASE Answer(w)
  <2>1. att'[w].pc = "idle" /\ \A v \in Worker \ {w} : att'[v] = att[v]
    BY <1>1, <1>6, IdleIsAttempt DEF Answer
  <2> QED BY <1>1, <1>6, <2>1, KeptWrites DEF Answer
<1>7. CASE Die(w) BY <1>1, <1>7, RaiseWrites DEF Die
<1>8. CASE GiveUp(w)
  <2>1. Busy(w) \/ att'[w].pc = "idle" BY <1>8 DEF GiveUp, Busy
  <2> QED BY <1>1, <1>8, <2>1, KeptWrites DEF GiveUp
<1>9. CASE Take(w)
  <2>1. att'[w].run = run /\ \A v \in Worker \ {w} : att'[v] = att[v]
    BY <1>1, <1>9 DEF Take, Attempt
  <2> QED BY <1>1, <1>9, <2>1, KeptWrites DEF Take
<1>10. CASE ResumeUpload(w) \/ ChunkFails(w)
  <2>1. att'[w].run = att[w].run /\ \A v \in Worker \ {w} : att'[v] = att[v]
    <3>1. CASE ResumeUpload(w) BY <1>1, <3>1 DEF ResumeUpload, Attempt
    <3>2. CASE ChunkFails(w) BY <1>1, <3>2 DEF ChunkFails, Attempt
    <3> QED BY <1>10, <3>1, <3>2
  <2> QED BY <1>1, <1>10, <2>1, KeptWrites DEF ResumeUpload, ChunkFails, At, Busy
<1>11. CASE OpenSession(w)
  <2>1. CASE Active = {}
    <3>1. PICK s \in Unused : att' = [att EXCEPT ![w].session = s, ![w].confirmed = 0,
                                                ![w].pc = "uploading"]
      BY <1>11, <2>1 DEF OpenSession
    <3>2. att'[w].run = att[w].run /\ \A v \in Worker \ {w} : att'[v] = att[v]
      BY <1>1, <3>1 DEF Attempt
    <3>3. run' = run /\ att[w].pc = "init" BY <1>11, <2>1 DEF OpenSession
    <3> QED BY <1>1, <3>2, <3>3, KeptWrites DEF Busy
  <2>2. CASE Active # {} BY <1>1, <1>11, <2>2, RaiseWrites DEF OpenSession
  <2> QED BY <2>1, <2>2
<1>12. CASE Query(w) \/ QueryFinal(w) \/ Acknowledge(w) \/ Resolve(w)
  <2>1. Busy(w) BY <1>12 DEF Query, QueryFinal, Acknowledge, Resolve, Busy
  <2>2. ASSUME NEW chunk, NEW pc, Answered(w, chunk, pc) PROVE Writes(w)
    BY <1>4, <2>1, <2>2 DEF Answered
  <2> QED BY <1>3, <1>4, <1>12, <2>1, <2>2 DEF Query, QueryFinal, Acknowledge, Resolve
<1>13. CASE Ineligible(w) \/ InitRefused(w) \/ QueryFails(w) \/ ResolveGone(w) \/ ResolveFails(w)
            \/ SessionGone(w) \/ PollRefused(w) \/ CaptionChanged(w) \/ VerifyRefused(w)
            \/ ParkUpload(w)
  <2>1. Busy(w)
    BY <1>13 DEF Ineligible, InitRefused, QueryFails, ResolveGone, ResolveFails, SessionGone,
                 PollRefused, CaptionChanged, VerifyRefused, ParkUpload, OfVideo, At, Busy
  <2>2. CASE ParkUpload(w)
    <3>1. att[w].why \in Parked BY <1>1, <2>2 DEF ParkUpload, IInv, DriveIsSound
    <3> QED BY <1>1, <1>2, <2>1, <2>2, <3>1, ParkWrites DEF ParkUpload
  <2>3. CASE ~ParkUpload(w)
    <3>1. \E t \in Parked \cup Review \cup {"FAILED", "UPLOAD_INITIALIZING"} : Park(w, t)
      BY <1>13, <2>3 DEF Ineligible, InitRefused, QueryFails, ResolveGone, ResolveFails,
                        SessionGone, Ambiguous, PollRefused, CaptionChanged, VerifyRefused,
                        Parked, Review
    <3> QED BY <1>1, <1>2, <2>1, <3>1, ParkWrites
  <2> QED BY <2>2, <2>3
<1>14. CASE Validate(w)
  <2> DEFINE r == att[w].run
             new == IF r.video = 0 /\ r.status \in PreUpload
                    THEN [r EXCEPT !.status = "READY"] ELSE r
  <2>1. new \in Row /\ Rewrites(r, new)
    BY <1>1 DEF Rewrites, Row, Status, WithVideo, AfterVideo
  <2>2. Commit(w, new, "answer") /\ Busy(w) BY <1>14 DEF Validate, At, Busy
  <2> HIDE DEF new
  <2> QED BY <1>1, <2>1, <2>2, CommitWrites
<1>15. ASSUME NEW status \in Status \ {"PUBLISHED"}, NEW pc, Busy(w),
              status \in WithVideo => att[w].run.video # 0,
              MoveTo(w, [att[w].run EXCEPT !.status = status], pc)
       PROVE  Writes(w)
  <2> DEFINE new == [att[w].run EXCEPT !.status = status]
  <2>1. new \in Row /\ Rewrites(att[w].run, new) BY <1>1, <1>15 DEF Row, Rewrites
  <2>2. MoveTo(w, new, pc) BY <1>15
  <2> HIDE DEF new
  <2> QED BY <1>1, <1>15, <2>1, <2>2, MoveWrites
<1>16. CASE BeginUpload(w)
  <2>1. "UPLOAD_INITIALIZING" \in Status \ {"PUBLISHED"} /\ "UPLOAD_INITIALIZING" \notin WithVideo
    BY DEF Status, WithVideo, AfterVideo
  <2> QED BY <1>15, <1>16, <2>1 DEF BeginUpload, At, Busy
<1>17. CASE Captions(w) \/ Verify(w)
  <2>1. {"UPLOADING_THUMBNAIL", "PRIVATE_READY"} \subseteq Status \ {"PUBLISHED"} BY DEF Status
  <2> QED BY <1>15, <1>17, <2>1 DEF Captions, Verify, OfVideo, At, Busy
<1>18. CASE BeginDrive(w)
  <2>1. Busy(w) BY <1>18 DEF BeginDrive, Busy
  <2>2. CASE May(att[w].run.status, "UPLOADING")
    <3> DEFINE new == [att[w].run EXCEPT !.status = "UPLOADING"]
    <3>1. new \in Row /\ Rewrites(att[w].run, new)
      BY <1>1 DEF Rewrites, Row, Status, WithVideo, AfterVideo
    <3>2. Flush(att[w].run, new) BY <1>18, <2>2 DEF BeginDrive
    <3>3. att'[w].run = new /\ \A v \in Worker \ {w} : att'[v] = att[v]
      BY <1>1, <1>18, <2>2 DEF BeginDrive, Attempt
    <3> HIDE DEF new
    <3> QED BY <2>1, <3>1, <3>2, <3>3 DEF Writes
  <2>3. CASE ~May(att[w].run.status, "UPLOADING")
    BY <1>1, <1>18, <2>3, RaiseWrites DEF BeginDrive
  <2> QED BY <2>2, <2>3
<1>19. CASE Poll(w)
  <2> DEFINE seen == youtube[att[w].run.video].processed
             new == [att[w].run EXCEPT !.processing = seen]
             up == [new EXCEPT !.status = "UPLOADING_CAPTIONS"]
             bad == Failed(new, "PROCESSING_FAILED")
  <2>1. seen \in {"succeeded", "failed", "processing"} /\ Busy(w) /\ att[w].run.video # 0
        /\ att[w].run.processing # "succeeded"
    BY <1>19 DEF Poll, OfVideo, At, Busy
  <2>2. /\ new \in Row /\ new.processing = seen /\ new.video = att[w].run.video
        /\ new.status = att[w].run.status /\ new.decided = att[w].run.decided
    BY <1>1, <2>1 DEF Row
  <2>3. Rewrites(att[w].run, new) BY <2>1, <2>2 DEF Rewrites
  <2> HIDE DEF new, seen
  <2>4. /\ up \in Row /\ up.processing = seen /\ up.video = att[w].run.video
        /\ up.status = "UPLOADING_CAPTIONS" /\ up.decided = att[w].run.decided
    BY <2>2 DEF Row, Status
  <2>5. Rewrites(att[w].run, up) BY <2>1, <2>4 DEF Rewrites, seen
  <2>6. bad \in Row BY <2>2, FailedIsRow DEF Status
  <2>7. /\ bad.processing = seen /\ bad.video = att[w].run.video
        /\ bad.status \in {att[w].run.status, "PROCESSING_FAILED"}
        /\ bad.decided = att[w].run.decided
    BY <2>2 DEF Failed, Row
  <2>8. Rewrites(att[w].run, bad) BY <2>1, <2>7 DEF Rewrites, seen
  <2>9. MoveTo(w, up, "answer") \/ Commit(w, bad, "answer") \/ Commit(w, new, "answer")
    BY <1>19 DEF Poll, new, seen
  <2> HIDE DEF up, bad
  <2> QED BY <1>1, <2>1, <2>2, <2>3, <2>4, <2>5, <2>6, <2>8, <2>9, CommitWrites, MoveWrites
<1>20. CASE Record(w)
  <2> DEFINE s == att[w].session
             new == [att[w].run EXCEPT !.video = s, !.status = "PROCESSING"]
  <2>1. s \in Session /\ s \in Video /\ s # 0 /\ att[w].run.video = 0 /\ Busy(w)
    BY <1>1, <1>20, PublicationAssumption
       DEF Record, VInv, IInv, NoVideoYet, DriveIsSound, Driving, Busy
  <2>2. new \in Row /\ new.video = s /\ new.status = "PROCESSING"
        /\ new.decided = att[w].run.decided /\ new.processing = att[w].run.processing
    BY <1>1, <2>1 DEF Row, Status
  <2>3. Commit(w, new, "answer") BY <1>20 DEF Record
  <2> HIDE DEF new, s
  <2>4. Rewrites(att[w].run, new) BY <2>1, <2>2 DEF Rewrites
  <2> QED BY <1>1, <2>1, <2>2, <2>3, <2>4, CommitWrites
<1> QED BY <1>5, <1>6, <1>7, <1>8, <1>9, <1>10, <1>11, <1>12, <1>13, <1>14, <1>16, <1>17,
           <1>18, <1>19, <1>20
        DEF WorkerStep, UploadStep, VideoStep

\* No step changes what YouTube holds of a video, but to process it or make it
\* public, and no attempt that was given up is forgotten.
LEMMA WorkerSurroundings ==
  ASSUME IInv, IInv', NEW w \in Worker, WorkerStep(w) \/ Die(w) \/ GiveUp(w)
  PROVE  /\ owner' = owner
         /\ overlaps' = 0 => overlaps = 0
         /\ \A s \in Session : /\ youtube'[s].processed = youtube[s].processed
                               /\ youtube'[s].privacy = youtube[s].privacy
<1>1. youtube \in [Session -> Upload] /\ overlaps \in Nat BY PublicationAssumption DEF IInv, TypeOK
<1>2. CASE Transfer(w)
  <2> DEFINE s == att[w].session
             y == [youtube[s] EXCEPT !.held = @ + 1]
  <2>1. s \in Session BY <1>2 DEF Transfer, IInv, DriveIsSound, Driving
  <2>2. y.processed = youtube[s].processed /\ y.privacy = youtube[s].privacy
    BY <1>1, <2>1 DEF Upload
  <2>3. youtube' = youtube \/ youtube' = [youtube EXCEPT ![s] = y] BY <1>2 DEF Transfer
  <2>4. owner' = owner /\ overlaps' = overlaps BY <1>2 DEF Transfer, ownerVars
  <2> HIDE DEF s, y
  <2> QED BY <1>1, <2>1, <2>2, <2>3, <2>4
<1>3. CASE GiveUp(w) BY <1>1, <1>3 DEF GiveUp, ownerVars
<1>4. CASE Query(w) \/ QueryFinal(w) \/ Acknowledge(w) \/ Resolve(w)
  <2>1. Frame BY <1>4 DEF Query, QueryFinal, Acknowledge, Resolve, Answered
  <2> QED BY <2>1 DEF Frame, ownerVars, worldVars
<1>5. CASE ~Transfer(w) /\ ~GiveUp(w) /\ ~Query(w) /\ ~QueryFinal(w) /\ ~Acknowledge(w) /\ ~Resolve(w)
  <2>1. UNCHANGED <<ownerVars, worldVars>> \/ UNCHANGED <<owner, youtube, overlaps>>
    <3>1. CASE Take(w) \/ Answer(w) \/ Die(w) BY <3>1 DEF Take, Answer, Die
    <3>2. CASE \/ Revalidate(w) \/ Ineligible(w) \/ Validate(w) \/ TokenRefused(w) \/ Skip(w)
      BY <3>2 DEF Revalidate, Ineligible, Validate, TokenRefused, Skip, Frame, FaultFrame,
                  ownerVars, worldVars
    <3>3. CASE UploadStep(w)
      BY <1>5, <3>3
         DEF UploadStep, BeginUpload, ResumeUpload, OpenSession, InitRefused, BeginDrive,
             QueryFails, Drop, ChunkFails, ResolveGone, ResolveFails, ParkUpload, SessionGone,
             Record, Frame, FaultFrame, MoveFrame
    <3>4. CASE VideoStep(w)
      BY <3>4 DEF VideoStep, Poll, PollRefused, Captions, CaptionChanged, Verify,
                  VerifyRefused, FaultFrame, MoveFrame
    <3> QED BY <1>5, <3>1, <3>2, <3>3, <3>4 DEF WorkerStep
  <2> QED BY <2>1 DEF ownerVars, worldVars
<1> QED BY <1>2, <1>3, <1>4, <1>5

\* An activity writes no state that its copy and the row together do not allow.
LEMMA WorkerRow ==
  ASSUME RInv, VInv', NEW w \in Worker, WorkerStep(w) \/ Die(w) \/ GiveUp(w)
  PROVE  RInv'
<1>0. VInv /\ IInv /\ IInv' BY DEF RInv, VInv
<1>1. /\ owner' = owner /\ (overlaps' = 0 => overlaps = 0)
      /\ \A s \in Session : /\ youtube'[s].processed = youtube[s].processed
                            /\ youtube'[s].privacy = youtube[s].privacy
  BY <1>0, WorkerSurroundings
<1>2. Writes(w) BY <1>0, WorkerWrites
<1> DEFINE old == att[w].run
<1>3. PICK new \in Row :
         /\ Rewrites(old, new) /\ Flush(old, new) /\ (Busy(w) \/ new = old)
         /\ \/ att'[w].pc = "idle"
            \/ att'[w].run = run'
            \/ (Busy(w) /\ att'[w].run = new)
  BY <1>2 DEF Writes
<1>4. \A v \in Worker \ {w} : att'[v] = att[v] BY <1>2 DEF Writes
<1>5. /\ run'.status     = IF new.status = old.status THEN run.status ELSE new.status
      /\ run'.video      = IF new.video = old.video THEN run.video ELSE new.video
      /\ run'.decided    = IF new.decided = old.decided THEN run.decided ELSE new.decided
      /\ run'.processing = IF new.processing = old.processing THEN run.processing
                                                             ELSE new.processing
  BY <1>3 DEF Flush, Changed
<1>6. VideoIsKnown /\ DecidedFirst BY DEF RInv
<1> HIDE DEF old
<1>7. (run.video # 0 => run'.video # 0) /\ (Busy(w) /\ new.video # 0 => run'.video # 0)
  BY <1>3, <1>5, <1>6 DEF Rewrites, VideoIsKnown, old
<1>8. VideoIsKnown'
  <2>1. \A v \in Worker : Busy(v)' /\ att'[v].run.video # 0 => run'.video # 0
    <3> SUFFICES ASSUME NEW v \in Worker, Busy(v)', att'[v].run.video # 0
                 PROVE  run'.video # 0
      OBVIOUS
    <3>1. CASE v = w BY <1>3, <1>7, <3>1 DEF Busy
    <3>2. CASE v # w
      <4>1. att'[v] = att[v] BY <1>4, <3>2
      <4> QED BY <1>6, <1>7, <4>1 DEF VideoIsKnown, Busy
    <3> QED BY <3>1, <3>2
  <2>2. run'.status \in WithVideo => run'.video # 0
    BY <1>3, <1>5, <1>6, <1>7 DEF Rewrites, VideoIsKnown
  <2>3. owner'.pc \in Visible => owner'.run.video # 0 /\ run'.video # 0
    BY <1>1, <1>6, <1>7 DEF VideoIsKnown
  <2> QED BY <2>1, <2>2, <2>3 DEF VideoIsKnown
<1>9. DecidedFirst'
  <2>1. run'.decided = run.decided BY <1>3, <1>5 DEF Rewrites
  <2> QED BY <1>1, <1>6, <2>1 DEF DecidedFirst
<1>10. ASSUME overlaps' = 0 PROVE ProcessedFirst'
  <2>1. overlaps = 0 /\ ProcessedFirst /\ CopiesKnowVideo BY <1>1, <1>10 DEF RInv, VInv
  <2>2. OneAttempt' BY <1>10 DEF VInv
  <2>3. Busy(w) => old.processing = run.processing /\ old.video = run.video
    BY <2>1 DEF ProcessedFirst, CopiesKnowVideo, old
  <2>4. Busy(w) => run'.processing = new.processing BY <1>5, <2>3
  <2>5. run.processing = "succeeded" => run'.processing = "succeeded"
    BY <1>3, <1>5, <2>3 DEF Rewrites
  <2>6. \A v \in Worker : Busy(v)' => att'[v].run.processing = run'.processing
    <3> SUFFICES ASSUME NEW v \in Worker, Busy(v)' PROVE att'[v].run.processing = run'.processing
      OBVIOUS
    <3>1. CASE v = w BY <1>3, <2>4, <3>1 DEF Busy
    <3>2. CASE v # w /\ Busy(w)
      <4>1. FALSE
        <5>1. att'[v] = att[v] BY <1>4, <3>2
        <5>2. Busy(v) BY <5>1 DEF Busy
        <5> QED BY <2>1, <3>2, <5>2, <1>0 DEF VInv, OneAttempt
      <4> QED BY <4>1
    <3>3. CASE v # w /\ ~Busy(w)
      <4>1. att'[v] = att[v] BY <1>4, <3>3
      <4>2. run'.processing = run.processing BY <1>3, <1>5, <3>3
      <4> QED BY <2>1, <4>1, <4>2 DEF ProcessedFirst, Busy
    <3> QED BY <3>1, <3>2, <3>3
  <2>7. run'.processing = "succeeded" =>
          run'.video # 0 /\ youtube'[run'.video].processed = "succeeded"
    <3> SUFFICES ASSUME run'.processing = "succeeded"
                 PROVE  run'.video # 0 /\ youtube'[run'.video].processed = "succeeded"
      OBVIOUS
    <3>1. run.video # 0 /\ youtube[run.video].processed = "succeeded" /\ run'.video = run.video
      <4>1. CASE new.processing = old.processing
        <5>1. run.video # 0 /\ youtube[run.video].processed = "succeeded"
          BY <1>5, <2>1, <4>1 DEF ProcessedFirst
        <5> QED BY <1>3, <1>5, <2>3, <5>1 DEF Rewrites
      <4>2. CASE new.processing # old.processing
        <5>1. Busy(w) BY <1>3, <4>2
        <5>2. new.processing = "succeeded" BY <1>5, <4>2
        <5> QED BY <1>3, <1>5, <2>3, <4>2, <5>1, <5>2 DEF Rewrites
      <4> QED BY <4>1, <4>2
    <3>2. run.video \in Session
      <4>1. run.video \in Video BY <1>0 DEF IInv, TypeOK, Row
      <4> QED BY <3>1, <4>1, PublicationAssumption
    <3> QED BY <1>1, <3>1, <3>2
  <2>8. run'.status = "PUBLISHED" => run'.processing = "succeeded"
    BY <1>3, <1>5, <2>1, <2>5 DEF Rewrites, ProcessedFirst
  <2>9. owner'.pc \in Visible => run'.processing = "succeeded"
    BY <1>1, <2>1, <2>5 DEF ProcessedFirst
  <2> QED BY <1>1, <2>1, <2>6, <2>7, <2>8, <2>9 DEF ProcessedFirst
<1> QED BY <1>8, <1>9, <1>10 DEF RInv

\* A step of a request: it decides before YouTube is asked, and leaves the video
\* and its processing alone.
LEMMA RequestRow ==
  ASSUME RInv, VInv', UNCHANGED <<att, overlaps>>,
         run'.video = run.video, run'.processing = run.processing,
         run.decided => run'.decided,
         run'.status \in {run.status, "CANCELLED"} \/ owner.pc \in Visible,
         \A s \in Session : youtube'[s].processed = youtube[s].processed,
         \A s \in Session : youtube'[s].privacy = youtube[s].privacy
                            \/ (owner.pc = "update" /\ s = owner.run.video),
         owner'.pc \in Visible =>
           \/ owner.pc \in Visible /\ owner'.run.video = owner.run.video
           \/ VisibilityOpen /\ owner'.run = run,
         owner'.pc # "none" /\ owner'.run.decided => run'.decided,
         owner'.pc \in {"update", "updated"} => run'.decided
  PROVE  RInv'
<1>1. VideoIsKnown /\ DecidedFirst /\ VInv BY DEF RInv
<1>2. VideoIsKnown'
  <2>1. run'.status \in WithVideo => run'.video # 0
    BY <1>1 DEF VideoIsKnown, WithVideo, AfterVideo
  <2>2. owner'.pc \in Visible => owner'.run.video # 0 /\ run'.video # 0
    BY <1>1 DEF VideoIsKnown, VisibilityOpen
  <2> QED BY <1>1, <2>1, <2>2 DEF VideoIsKnown, Busy
<1>3. DecidedFirst' BY <1>1 DEF DecidedFirst
<1>4. ASSUME overlaps = 0 PROVE ProcessedFirst'
  <2>1. ProcessedFirst /\ CopiesKnowVideo BY <1>4 DEF RInv, VInv
  <2>2. run.video # 0 => run.video \in Session
    BY <1>1, PublicationAssumption DEF VInv, IInv, TypeOK, Row
  <2>3. \A s \in Session : youtube'[s].privacy = "public" => youtube'[s].processed = "succeeded"
    <3> SUFFICES ASSUME NEW s \in Session, youtube'[s].privacy = "public"
                 PROVE  youtube[s].processed = "succeeded"
      OBVIOUS
    <3>1. CASE owner.pc = "update" /\ s = owner.run.video
      BY <1>1, <2>1, <3>1 DEF VideoIsKnown, ProcessedFirst, CopiesKnowVideo, Visible
    <3>2. CASE youtube'[s].privacy = youtube[s].privacy BY <2>1, <3>2 DEF ProcessedFirst
    <3> QED BY <3>1, <3>2
  <2>4. run'.status = "PUBLISHED" => run'.processing = "succeeded" BY <2>1 DEF ProcessedFirst
  <2>5. owner'.pc \in Visible => run'.processing = "succeeded"
    BY <2>1 DEF ProcessedFirst, VisibilityOpen
  <2>6. run'.processing = "succeeded" =>
          run'.video # 0 /\ youtube'[run'.video].processed = "succeeded"
    BY <2>1, <2>2 DEF ProcessedFirst
  <2>7. \A w \in Worker : Busy(w)' => att'[w].run.processing = run'.processing
    BY <2>1 DEF ProcessedFirst, Busy
  <2> QED BY <2>3, <2>4, <2>5, <2>6, <2>7 DEF ProcessedFirst
<1> QED BY <1>2, <1>3, <1>4 DEF RInv

LEMMA OwnerRow ==
  ASSUME RInv, VInv', OwnerStep \/ AskCancel \/ AskVisibility
  PROVE  RInv'
<1>1. /\ owner \in Request /\ owner.run \in Row /\ run \in Row /\ youtube \in [Session -> Upload]
      /\ DecidedFirst
  BY DEF RInv, VInv, IInv, TypeOK, Request
<1>2. UNCHANGED <<att, overlaps>>
  BY DEF OwnerStep, AskCancel, AskVisibility, Ask, CancelSession, CommitCancel, MarkVisibility,
         UpdateVisibility, Publish, VisibilityFails, RequestDies, OwnerFrame, workerVars
<1> DEFINE SameVideos == \A s \in Session : /\ youtube'[s].processed = youtube[s].processed
                                           /\ youtube'[s].privacy = youtube[s].privacy
<1>3. ASSUME NEW new \in Row, Flush(owner.run, new), new.video = owner.run.video,
             new.processing = owner.run.processing,
             new.decided = owner.run.decided \/ new.decided = TRUE
      PROVE  /\ run'.video = run.video /\ run'.processing = run.processing
             /\ run'.status \in {run.status, new.status} /\ (run.decided => run'.decided)
  BY <1>3 DEF Flush, Changed
<1>4. CASE AskCancel
  <2>1. owner'.pc = "cancel" /\ owner'.run = run /\ run' = run /\ youtube' = youtube
    BY <1>4 DEF AskCancel, Ask
  <2> QED BY <1>2, <2>1, RequestRow DEF Visible
<1>5. CASE AskVisibility
  <2>1. owner'.pc = "mark" /\ owner'.run = run /\ run' = run /\ youtube' = youtube
        /\ VisibilityOpen
    BY <1>5 DEF AskVisibility, Ask
  <2> QED BY <1>2, <2>1, RequestRow
<1>6. CASE RequestDies
  <2>1. owner'.pc = "none" /\ run' = run /\ youtube' = youtube
    BY <1>6 DEF RequestDies, NoRequest
  <2> QED BY <1>2, <2>1, RequestRow DEF Visible
<1>7. CASE CancelSession
  <2>1. owner'.pc = "commit" /\ owner'.run = owner.run /\ owner.pc = "cancel" /\ run' = run
    BY <1>1, <1>7 DEF CancelSession, Request
  <2>2. SameVideos
    <3> DEFINE u == owner.session
               y == [youtube[u] EXCEPT !.gone = TRUE]
    <3>1. CASE youtube' = youtube BY <3>1
    <3>2. CASE youtube' = [youtube EXCEPT ![u] = y] /\ u \in Session
      <4>1. y.processed = youtube[u].processed /\ y.privacy = youtube[u].privacy
        BY <1>1, <3>2 DEF Upload
      <4> HIDE DEF y, u
      <4> QED BY <1>1, <3>2, <4>1
    <3>3. CASE u \notin Session BY <1>1, <1>7, <3>3 DEF CancelSession
    <3> QED BY <1>7, <3>1, <3>2, <3>3 DEF CancelSession
  <2> QED BY <1>1, <1>2, <2>1, <2>2, RequestRow DEF Visible, DecidedFirst
<1>8. CASE CommitCancel
  <2> DEFINE new == [owner.run EXCEPT !.status = "CANCELLED"]
  <2>1. /\ new \in Row /\ new.video = owner.run.video /\ new.processing = owner.run.processing
        /\ new.decided = owner.run.decided /\ new.status = "CANCELLED"
    BY <1>1 DEF Row, Status
  <2>2. Flush(owner.run, new) /\ owner'.pc = "none" /\ youtube' = youtube
    BY <1>8 DEF CommitCancel, NoRequest
  <2> HIDE DEF new
  <2>3. /\ run'.video = run.video /\ run'.processing = run.processing
        /\ run'.status \in {run.status, "CANCELLED"} /\ (run.decided => run'.decided)
    BY <1>3, <2>1, <2>2
  <2> QED BY <1>2, <2>2, <2>3, RequestRow DEF Visible
<1>9. CASE MarkVisibility
  <2>0. owner.pc = "mark" /\ youtube' = youtube BY <1>9 DEF MarkVisibility
  <2>1. CASE Passes /\ May(owner.run.status, "VISIBILITY_UPDATING")
    <3> DEFINE new == [owner.run EXCEPT !.status = "VISIBILITY_UPDATING", !.decided = TRUE]
    <3>1. /\ new \in Row /\ new.video = owner.run.video
          /\ new.processing = owner.run.processing /\ new.decided = TRUE
      BY <1>1 DEF Row, Status
    <3>2. Flush(owner.run, new) /\ owner' = [owner EXCEPT !.pc = "update", !.run = new]
      BY <1>9, <2>1 DEF MarkVisibility
    <3> HIDE DEF new
    <3>3. run'.video = run.video /\ run'.processing = run.processing
          /\ (run.decided => run'.decided)
      BY <1>3, <3>1, <3>2
    <3>4. run'.decided
      <4>1. owner.run.decided \in BOOLEAN BY <1>1 DEF Row
      <4>2. run'.decided = IF TRUE = owner.run.decided THEN run.decided ELSE TRUE
        BY <3>1, <3>2 DEF Flush, Changed
      <4> QED BY <1>1, <2>0, <4>1, <4>2 DEF DecidedFirst
    <3>5. owner'.run.video = owner.run.video BY <1>1, <3>1, <3>2 DEF Request
    <3> QED BY <1>2, <2>0, <3>3, <3>4, <3>5, RequestRow DEF Visible
  <2>2. CASE ~(Passes /\ May(owner.run.status, "VISIBILITY_UPDATING"))
    <3> DEFINE new == Failed(owner.run, "HUMAN_REVIEW_REQUIRED")
    <3>1. owner'.pc = "none" /\ (run' = run \/ Flush(owner.run, new))
      BY <1>9, <2>2 DEF MarkVisibility, NoRequest
    <3>2. new \in Row BY <1>1, FailedIsRow DEF Status
    <3>3. /\ new.video = owner.run.video /\ new.processing = owner.run.processing
          /\ new.decided = owner.run.decided
      BY <1>1 DEF Failed, Row
    <3> HIDE DEF new
    <3>4. run'.video = run.video /\ run'.processing = run.processing
          /\ (run.decided => run'.decided)
      BY <1>3, <3>1, <3>2, <3>3
    <3> QED BY <1>2, <2>0, <3>1, <3>4, RequestRow DEF Visible
  <2> QED BY <2>1, <2>2
<1>10. CASE UpdateVisibility
  <2>1. owner'.pc = "updated" /\ owner'.run = owner.run /\ owner.pc = "update" /\ run' = run
    BY <1>1, <1>10 DEF UpdateVisibility, Request
  <2> DEFINE u == owner.run.video
             y == [youtube[u] EXCEPT !.privacy = "public"]
  <2>2. youtube' = [youtube EXCEPT ![u] = y] BY <1>10 DEF UpdateVisibility
  <2>3. u \in Session => y.processed = youtube[u].processed BY <1>1 DEF Upload
  <2> HIDE DEF y, u
  <2>4. \A s \in Session : /\ youtube'[s].processed = youtube[s].processed
                           /\ s # u => youtube'[s].privacy = youtube[s].privacy
    BY <1>1, <2>2, <2>3
  <2> QED BY <1>1, <1>2, <2>1, <2>4, RequestRow DEF Visible, DecidedFirst, u
<1>11. ASSUME NEW new \in Row, Flush(owner.run, new), new.video = owner.run.video,
              new.processing = owner.run.processing, new.decided = owner.run.decided,
              owner.pc \in {"update", "updated"}, owner' = NoRequest, youtube' = youtube
       PROVE  RInv'
  <2>1. run'.video = run.video /\ run'.processing = run.processing
        /\ (run.decided => run'.decided)
    BY <1>3, <1>11
  <2>2. owner'.pc = "none" BY <1>11 DEF NoRequest
  <2> QED BY <1>2, <1>11, <2>1, <2>2, RequestRow DEF Visible
<1>12. CASE Publish
  <2> DEFINE new == [owner.run EXCEPT !.status = "PUBLISHED"]
  <2>1. /\ new \in Row /\ new.video = owner.run.video
        /\ new.processing = owner.run.processing /\ new.decided = owner.run.decided
    BY <1>1 DEF Row, Status
  <2>2. Flush(owner.run, new) /\ owner.pc = "updated" /\ owner' = NoRequest /\ youtube' = youtube
    BY <1>12 DEF Publish
  <2> HIDE DEF new
  <2> QED BY <1>11, <2>1, <2>2
<1>13. CASE VisibilityFails
  <2>1. PICK t \in Parked \cup {"PRIVATE_READY"} : Flush(owner.run, Failed(owner.run, t))
    BY <1>13 DEF VisibilityFails
  <2> DEFINE new == Failed(owner.run, t)
  <2>2. new \in Row BY <1>1, FailedIsRow DEF Status, Parked
  <2>3. /\ new.video = owner.run.video /\ new.processing = owner.run.processing
        /\ new.decided = owner.run.decided
    BY <1>1 DEF Failed, Row
  <2>4. owner.pc \in {"update", "updated"} /\ owner' = NoRequest /\ youtube' = youtube
    BY <1>13 DEF VisibilityFails
  <2> HIDE DEF new
  <2> QED BY <1>11, <2>1, <2>2, <2>3, <2>4 DEF new
<1> QED BY <1>4, <1>5, <1>6, <1>7, <1>8, <1>9, <1>10, <1>12, <1>13 DEF OwnerStep

\* What was processed stays so.
LEMMA WorldRow ==
  ASSUME RInv, VInv', \/ Start \/ \E s \in Session : Process(s) \/ Collect(s)
                      \/ RevokeGrant \/ Reconnect \/ SelectOtherRender
  PROVE  RInv'
<1>1. youtube \in [Session -> Upload] /\ VideoIsKnown /\ DecidedFirst
      /\ (run.video # 0 => run.video \in Session)
  BY PublicationAssumption DEF RInv, VInv, IInv, TypeOK, Row
<1>2. UNCHANGED <<att, overlaps>> /\ UNCHANGED run /\ UNCHANGED owner
  BY DEF Start, Process, Collect, RevokeGrant, Reconnect, SelectOtherRender, programVars,
         ownerVars, worldVars
<1>3. \A s \in Session : /\ youtube'[s].privacy = youtube[s].privacy
                         /\ youtube[s].processed = "succeeded" =>
                              youtube'[s].processed = "succeeded"
  <2>1. CASE youtube' = youtube BY <2>1
  <2>2. ASSUME NEW u \in Session, NEW y, y.privacy = youtube[u].privacy,
               youtube[u].processed = "succeeded" => y.processed = "succeeded",
               youtube' = [youtube EXCEPT ![u] = y]
        PROVE  \A s \in Session : /\ youtube'[s].privacy = youtube[s].privacy
                                  /\ youtube[s].processed = "succeeded" =>
                                       youtube'[s].processed = "succeeded"
    BY <1>1, <2>2
  <2>3. ASSUME NEW u \in Session, Process(u)
        PROVE  \A s \in Session : /\ youtube'[s].privacy = youtube[s].privacy
                                  /\ youtube[s].processed = "succeeded" =>
                                       youtube'[s].processed = "succeeded"
    <3>1. PICK x \in {"succeeded", "failed"} : youtube' = [youtube EXCEPT ![u].processed = x]
      BY <2>3 DEF Process
    <3> DEFINE y == [youtube[u] EXCEPT !.processed = x]
    <3>2. y.privacy = youtube[u].privacy /\ youtube[u].processed = "processing"
      BY <1>1, <2>3 DEF Upload, Process
    <3>3. youtube' = [youtube EXCEPT ![u] = y] BY <3>1
    <3> HIDE DEF y
    <3> QED BY <2>2, <3>2, <3>3
  <2>4. ASSUME NEW u \in Session, Collect(u)
        PROVE  \A s \in Session : /\ youtube'[s].privacy = youtube[s].privacy
                                  /\ youtube[s].processed = "succeeded" =>
                                       youtube'[s].processed = "succeeded"
    <3> DEFINE y == [youtube[u] EXCEPT !.gone = TRUE]
    <3>1. y.privacy = youtube[u].privacy /\ y.processed = youtube[u].processed
      BY <1>1 DEF Upload
    <3>2. youtube' = [youtube EXCEPT ![u] = y] BY <2>4 DEF Collect
    <3> HIDE DEF y
    <3> QED BY <2>2, <3>1, <3>2
  <2> QED BY <2>1, <2>3, <2>4
      DEF Start, RevokeGrant, Reconnect, SelectOtherRender, worldVars
<1>4. VideoIsKnown' BY <1>1, <1>2 DEF VideoIsKnown, Busy
<1>5. DecidedFirst' BY <1>1, <1>2, <1>3 DEF DecidedFirst
<1>6. ASSUME overlaps' = 0 PROVE ProcessedFirst'
  <2>1. ProcessedFirst BY <1>2, <1>6 DEF RInv
  <2> QED BY <1>1, <1>2, <1>3, <2>1 DEF ProcessedFirst, Busy
<1> QED BY <1>4, <1>5, <1>6 DEF RInv

LEMMA RInvariance == Spec => []RInv
<1>1. Init => RInv
  <2> SUFFICES ASSUME Init PROVE RInv OBVIOUS
  <2>1. /\ \A w \in Worker : att[w].pc = "idle"
        /\ owner.pc = "none" /\ run.status = "DRAFT" /\ run.processing = "none"
    BY DEF Init, Idle, NoRequest, Draft
  <2>2. \A s \in Session : youtube[s].privacy = "private" BY DEF Init
  <2>3. VideoIsKnown BY <2>1 DEF VideoIsKnown, Visible, WithVideo, AfterVideo, Busy
  <2>4. DecidedFirst BY <2>1, <2>2 DEF DecidedFirst
  <2>5. ProcessedFirst BY <2>1, <2>2 DEF ProcessedFirst, Visible, Busy
  <2> QED BY VInit, <2>3, <2>4, <2>5 DEF RInv
<1>2. ASSUME RInv, [Next]_vars PROVE RInv'
  <2>1. VInv' BY <1>2, VStepKeeps DEF RInv
  <2>2. ASSUME NEW w \in Worker, WorkerStep(w) \/ Die(w) \/ GiveUp(w) PROVE RInv'
    BY <1>2, <2>1, <2>2, WorkerRow
  <2>3. CASE OwnerStep \/ AskCancel \/ AskVisibility BY <1>2, <2>1, <2>3, OwnerRow
  <2>4. CASE \/ Start \/ \E s \in Session : Process(s) \/ Collect(s)
             \/ RevokeGrant \/ Reconnect \/ SelectOtherRender
    BY <1>2, <2>1, <2>4, WorldRow
  <2>5. CASE UNCHANGED vars
    BY <1>2, <2>1, <2>5 DEF vars, RInv, VideoIsKnown, DecidedFirst, ProcessedFirst, Busy
  <2> QED BY <1>2, <2>2, <2>3, <2>4, <2>5 DEF Next
<1>3. RInv /\ [Next]_vars => RInv' BY <1>2
<1> QED BY <1>1, <1>3, PTL DEF Spec

\* A video is public by a recorded decision, and processed by then, whichever
\* stale copies of the row are written.
THEOREM PublicByDecision == Spec => []PublicIsDecided
<1>1. RInv => PublicIsDecided BY DEF RInv, DecidedFirst, ProcessedFirst, PublicIsDecided, Alone
<1> QED BY <1>1, RInvariance, PTL

\* The CHECKs of publication_runs refuse no row the copies can combine into.
THEOREM RowStaysAccepted == Spec => []RowIsAccepted
<1>1. RInv => RowIsAccepted BY DEF RInv, VideoIsKnown, ProcessedFirst, RowIsAccepted
<1> QED BY <1>1, RInvariance, PTL

=============================================================================
