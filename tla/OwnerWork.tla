----------------------------- MODULE OwnerWork ------------------------------
(***************************************************************************)
(* What an owner works with directly: the upload of the source video, the  *)
(* reference sheets its characters and places are drawn from, the YouTube  *)
(* channel its videos go to, and the events that keep the browser's pages  *)
(* current.  They share nothing, so a behaviour is one of one of them.     *)
(***************************************************************************)
EXTENDS Upload, Continuity, Connection, EventStream

VARIABLE side    \* which of the four this behaviour is about

vars == <<uploadVars, continuityVars, connectionVars, eventVars, side>>

TypeOK ==
  /\ side \in {"upload", "continuity", "connection", "events"}
  /\ upload \in {"uploading", "finalizing", "complete"}
  /\ kept \in [Parts -> Content \cup {"none"}] /\ file \in [Parts -> Content \cup {"none"}]
  /\ assembled \in [Parts -> Content \cup {"none"}]
  /\ swept \in BOOLEAN /\ asset \subseteq [Parts -> Content]
  /\ request \in [Requests -> [at : {"none", "streamed", "locked", "placed", "done", "refused", "error"},
                               part : Parts, content : Content, awaited : BOOLEAN]]
  /\ finalizer \in [Finalizers -> {"none", "waiting", "assembling", "stored", "sweeping",
                                   "answered", "refused", "error"}]
  /\ phase \in {"idle", "uploading", "finalizing", "complete", "failed", "cancelled"}
  /\ sent \subseteq Parts /\ retries \in [Parts -> 0..(MaxRetries + Cardinality(Requests))]
  /\ mishaps \in 0..MaxMishaps
  /\ identity \in [Entities -> Identity]
  /\ sheet \in [Sheet -> {"none", "draft", "approved", "rejected"}]
  /\ drawing \subseteq Sheet /\ drawn \in [Sheet -> Nat]
  /\ \A w \in Scope :
       /\ flow[w].status \in Building \cup Applying \cup {"none", "awaiting", "complete", "failed", "cancelled"}
       /\ flow[w].approval \in [given : BOOLEAN, sheets : SUBSET Sheet]
  /\ work \in [Scope -> [left : SUBSET Sheet, hand : SUBSET Sheet, wrote : SUBSET Sheet, table : {1, 2},
                         choice : [Entities -> SUBSET Sheet], shots : SUBSET Shots, changed : SUBSET Shots]]
  /\ since \in [Scope -> SUBSET Sheet] /\ contested \subseteq Sheet
  /\ approvals \in 0..MaxDecisions /\ decisions \in 0..MaxDecisions
  /\ starts \in 0..MaxStarts /\ deaths \in 0..MaxDeaths
  /\ binding \in [Shots -> SUBSET Sheet]
  /\ consent \in [Consents -> {"none", "open", "used", "expired"}] /\ grants \subseteq Consents
  /\ channel \in [status : {"none", "connected", "reauthorization", "revoked"}, present : BOOLEAN]
  /\ secret \in [grant : Consents \cup {"none"}, refreshKey : 0..MaxKey, accessKey : 0..MaxKey, version : 0..MaxKey]
  /\ key \in 1..MaxKey
  /\ callback \in [Callbacks -> [at : {"none", "exchanging"}, of : Consents \cup {"none"}]]
  /\ minter \in [Minters -> [at : {"none", "minting"}, seen : {"none", "connected", "reauthorization"},
                             grant : Consents \cup {"none"}]]
  /\ disconnect \in [Disconnects -> {"none", "revoking", "done"}]
  /\ events \subseteq 1..MaxEvents
  /\ writer \in [Writers -> [held : SUBSET (1..MaxEvents), wants : 0..MaxEvents, tries : 0..SequenceAttempts]]
  /\ stream \in [open : BOOLEAN, position : 0..MaxEvents] /\ wire \in Seq(1..MaxEvents)
  /\ browser \in [mode : {"connecting", "streaming", "reconnecting", "polling", "closed"}, last : 0..MaxEvents,
                  seen : SUBSET (1..MaxEvents), attempts : 0..SSEAttempts]
  /\ \A p \in Polls : poll[p].at \in {"none", "asked", "answered"} /\ poll[p].items \in Seq(1..MaxEvents)
  /\ breaks \in 0..MaxBreaks

Init == UploadInit /\ ContinuityInit /\ ConnectionInit /\ EventInit /\ side \in {"upload", "continuity", "connection", "events"}

Uploads(action) == side = "upload" /\ action /\ UNCHANGED <<continuityVars, connectionVars, eventVars, side>>
References(action) == side = "continuity" /\ action /\ UNCHANGED <<uploadVars, connectionVars, eventVars, side>>
Connects(action) == side = "connection" /\ action /\ UNCHANGED <<uploadVars, continuityVars, eventVars, side>>
Follows(action) == side = "events" /\ action /\ UNCHANGED <<uploadVars, continuityVars, connectionVars, side>>

Next == Uploads(UploadNext) \/ References(ContinuityNext) \/ Connects(ConnectionNext) \/ Follows(EventNext)

\* The browser and the server work on; a part is sent while one is free to send, an
\* open stream is read and a poll is asked and answered.
Fairness ==
  /\ WF_vars(Uploads(UploadServes))
  /\ WF_vars(Uploads(UploadSends))
  /\ WF_vars(Follows(EventServes))

Spec == Init /\ [][Next]_vars /\ Fairness

\* A shot is bound to sheets that were approved, with none undecided, when its workflow
\* read them, which is not always so when it commits; and a sheet is paid for once
\* unless two builds met over it or one was cut off with its answer.
ReferencesBound == [][BoundToApproved /\ SheetPaidOnce]_vars

\* The one source video of a project is the file that was hashed, and no part of
\* it holds other bytes than its row was accepted with, however requests overlap.
UploadIsTrue == UploadIsVerified /\ PartIsItsRow

\* An upload ends for the browser, and an event reaches the dashboard.
OwnerIsServed == UploadEnds /\ EventArrives


-----------------------------------------------------------------------------
\* The instance TLC checks: a shot shows the hero in the hall.
ShowsBoth == [s \in Shots |-> Entities]
=============================================================================
