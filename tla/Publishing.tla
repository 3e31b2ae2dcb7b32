----------------------------- MODULE Publishing ------------------------------
(***************************************************************************)
(* The decisions a publication rests on (services/publisher): whether the  *)
(* selected render may be published (eligibility.py), what its first draft *)
(* says (metadata.py), which byte ranges carry it to YouTube               *)
(* (resumable.py, youtube.py, youtube_adapter.py, providers.py) and what   *)
(* each write makes of the video's status.  Four kinds of question, told   *)
(* apart by "about"; the run of a publication itself is Publication.       *)
(***************************************************************************)
EXTENDS Integers, Sequences, FiniteSets, SequencesExt, TLC

Rendered == INSTANCE Assembly

-----------------------------------------------------------------------------
(* Eligibility.  A history is a project at its render, the edits made since,  *)
(* each asked and landed in one of three stretches (while the render runs,    *)
(* after it and before final QA, after final QA), and what the rows lack.     *)
RenderRuns == 1
BeforeQA == 2
AfterQA == 3

\* What an edit, once landed, does to what the project selects.  A transcript edit
\* selects nothing anew; the regeneration of a shot lands when its new clip is locked.
Edited(p, kind) ==
  CASE kind \in {"script", "version"} -> [p EXCEPT !.script.id = "edited"]
    [] kind \in {"shot", "attempt"}   -> [p EXCEPT !.shots[2].clip = "edited"]
    [] kind = "transcript"            -> p

\* InvalidationRecorder.record: selecting a script version or a shot's attempt leaves none.
Recorded == {"transcript", "script", "shot"}

Held(h, at) == FoldSet(LAMBDA e, p : Edited(p, e.kind), h.project, {e \in h.edits : e.landed <= at})

\* Final QA passes what it can evaluate.
PassedQA(h) == Rendered!Evaluable(Rendered!Manifest(h.project), Held(h, BeforeQA)) = "none"

\* Each check that ends the evaluation, in order, then those that are collected.
RowChecks == << <<"project", "CROSS_PROJECT_REFERENCE">>, <<"selection", "RENDER_NOT_SELECTED">>, <<"completion", "NO_ELIGIBLE_RENDER">>,
                <<"report", "NO_ELIGIBLE_RENDER">>, <<"asset", "MISSING_FINAL_ASSET">>, <<"blob", "MISSING_FINAL_ASSET">> >>
Ending(h) == SelectSeq(RowChecks, LAMBDA c : c[1] \in h.lacks)

MediaFailures(h) == IF h.lacks \cap {"media type", "size"} # {} THEN {"MISSING_FINAL_ASSET"} ELSE {}
ApprovalFailures(h) == IF "approval" \in h.lacks THEN {"RENDER_NOT_APPROVED"} ELSE {}

\* The run is looked up by the render's asset, its gate by the render's identity: two
\* renders of the same bytes share the asset.
GateFailures(h) ==
  IF "final run" \in h.lacks \/ ~PassedQA(h) \/ "gate" \in h.lacks THEN {"COMPLETION_GATE_NOT_PASSED"}
  ELSE IF h.twin THEN {"STALE_RENDER"} ELSE {}

\* Mutant: only what was invalidated since the final QA run counts.
StaleSinceQA(h) == \E e \in h.edits : e.kind \in Recorded /\ e.asked > BeforeQA

\* DownstreamInvalidation.created_at > job.completed_at.
Stale(h) == \E e \in h.edits : e.kind \in Recorded /\ e.asked > RenderRuns
StaleFailures(h) == IF Stale(h) THEN {"STALE_RENDER"} ELSE {}
RepairFailures(h) == IF "repair answer" \in h.lacks THEN {"UNRESOLVED_HUMAN_REVIEW"} ELSE {}
CaptionFailures(h) == IF h.lacks \cap {"captions", "caption asset", "caption size"} # {} THEN {"MISSING_CAPTION_ASSET"} ELSE {}
ThumbnailFailures(h) ==
  IF h.lacks \cap {"thumbnail asset", "thumbnail type", "thumbnail size"} # {} THEN {"INVALID_THUMBNAIL_ASSET"} ELSE {}

\* REQUIRED_SCOPES, and OPERATION_SCOPES of what a publication asks of YouTube.
RequiredScopes == {"upload", "force-ssl", "readonly"}
OperationScopes ==
  [o \in {"channels.list", "videos.insert", "videos.list", "videos.update", "captions.insert", "captions.list", "thumbnails.set"} |->
     CASE o \in {"channels.list", "videos.list"} -> {"readonly"}
       [] o \in {"videos.insert", "thumbnails.set"} -> {"upload"}
       [] o \in {"videos.update", "captions.insert", "captions.list"} -> {"force-ssl"}]

ConnectionFailures(h) ==
  IF h.lacks \cap {"connection", "grant"} # {} THEN {"AUTHENTICATION_REQUIRED"}
  ELSE IF "ownership" \in h.lacks THEN {"CONNECTION_NOT_OWNED"}
  ELSE IF ~(RequiredScopes \subseteq h.scopes) THEN {"INSUFFICIENT_SCOPE"} ELSE {}

\* evaluate: PublicationGate.allowed_is_complete wants no failure of an allowed gate.
Eligibility(h) ==
  IF Ending(h) # <<>> THEN {Head(Ending(h))[2]}
  ELSE UNION {MediaFailures(h), ApprovalFailures(h), GateFailures(h), StaleFailures(h), RepairFailures(h),
              CaptionFailures(h), ThumbnailFailures(h), ConnectionFailures(h)}

-----------------------------------------------------------------------------
(* The first draft.  A word is its size and what is left of it without angle *)
(* brackets and of its letters and digits; equal names are equal words.      *)
MaxTitle == 100
MaxTag == 30
MaxTags == 60
MaxTagsTotal == 500

TextSize(sizes) == FoldLeft(LAMBDA n, s : n + s, Len(sizes) - 1, sizes)
Cuttable(sizes) == {k \in 1..Len(sizes) : TextSize(SubSeq(sizes, 1, k)) < MaxTitle}

\* _truncate: at the last word boundary of the cut, when that loses at most 20 characters.
Truncated(sizes) ==
  LET whole == SelectSeq(sizes, LAMBDA s : s > 0)
      spaced == FoldSet(LAMBDA k, n : IF TextSize(SubSeq(whole, 1, k)) > n THEN TextSize(SubSeq(whole, 1, k)) ELSE n, 0, Cuttable(whole))
  IN  IF TextSize(whole) <= MaxTitle THEN TextSize(whole) ELSE IF spaced >= MaxTitle - 20 THEN spaced ELSE MaxTitle

\* "<name> - animated recap".
Title(name) == Truncated([i \in DOMAIN name |-> name[i].shown] \o <<1, 8, 5>>)

\* _tags_from: "recap", "animated recap", then the distinct words of three or more.
Tags(name, style) ==
  LET words == SelectSeq(name \o style, LAMBDA w : w.letters >= 3)
      fresh == SelectSeq([i \in DOMAIN words |-> i], LAMBDA i : \A j \in 1..(i - 1) : words[j] # words[i])
      sizes == <<5, 14>> \o [i \in DOMAIN fresh |-> IF words[fresh[i]].letters > MaxTag THEN MaxTag ELSE words[fresh[i]].letters]
      fits(k) == k <= MaxTags /\ FoldLeft(LAMBDA n, s : n + s, 0, SubSeq(sizes, 1, k)) <= MaxTagsTotal
  IN  SubSeq(sizes, 1, Cardinality({k \in DOMAIN sizes : fits(k)}))

FirstDraft(d) == [title |-> Title(d.name), tags |-> Tags(d.name, d.style)]

\* PublicationMetadata and validate.
DraftValid(m) ==
  /\ m.title \in 1..MaxTitle
  /\ Len(m.tags) <= MaxTags /\ \A i \in DOMAIN m.tags : m.tags[i] \in 1..MaxTag
  /\ FoldLeft(LAMBDA n, s : n + s, 0, m.tags) <= MaxTagsTotal

-----------------------------------------------------------------------------
(* The transfer.  Sizes are in quarters of YouTube's 256 KiB granule, the     *)
(* largest chunk scaled down to four granules; a script says what becomes of  *)
(* each request of each drive.                                                *)
Granule == 4
MaxChunk == 16

Chunk(requested) ==
  LET n == IF requested < Granule THEN Granule ELSE IF requested > MaxChunk THEN MaxChunk ELSE requested
  IN  (n \div Granule) * Granule

\* plan_chunks.
Planned(total, size, from) ==
  [i \in 1..((total - from + size - 1) \div size) |->
     [start |-> from + (i - 1) * size, length |-> IF from + i * size > total THEN total - from - (i - 1) * size ELSE size]]

\* YouTube's answers to a chunk: it takes the bytes, or a granule of them, or takes them
\* and is never heard (no status), or answers a status without taking any.
Answers == {"taken", "partly", "unheard", "400", "401", "403", "403 quotaExceeded", "410", "500"}

\* Bytes are appended to those held; what does not join on is not taken.
Appended(held, chunk, answer) ==
  LET end == IF answer = "partly" /\ chunk.length > Granule THEN chunk.start + Granule ELSE chunk.start + chunk.length
  IN  IF answer \notin {"taken", "partly", "unheard"} \/ chunk.start > held \/ end <= held THEN held ELSE end

\* classify: by Google's reason, then by the status; only what arrived without a failure has none.
ReasonCodes == ("403 quotaExceeded" :> "QUOTA_EXCEEDED")
Classified(answer) ==
  CASE answer \in DOMAIN ReasonCodes -> ReasonCodes[answer]
    [] answer \in {"unheard", "500"} -> "RETRYABLE_SERVER_ERROR"
    [] answer = "401" -> "AUTHENTICATION_REQUIRED"
    [] answer = "403" -> "INSUFFICIENT_SCOPE"
    [] answer = "400" -> "PROVIDER_REJECTED"
    [] OTHER -> "none"
Parking == {"QUOTA_EXCEEDED", "AUTHENTICATION_REQUIRED", "INSUFFICIENT_SCOPE"}

\* _confirmed_offset of a 308; a 200 confirms every byte.
Confirmed(held, offset) == IF held > offset THEN held ELSE offset

\* _resolve_after_interruption: YouTube is asked, and its answer is the outcome.
Resolved(d, code) ==
  IF d.held = d.total THEN [d EXCEPT !.offset = d.total, !.outcome = "video"]
  ELSE [d EXCEPT !.offset = Confirmed(d.held, @), !.outcome = IF code \in Parking THEN "parked" ELSE "later"]

\* drive: each chunk of the plan in turn, until an answer ends it.
SendChunk(d, chunk) ==
  LET answer == d.script[Len(d.sent) + 1]
      next == [d EXCEPT !.held = Appended(@, chunk, answer), !.sent = Append(@, chunk)]
  IN  CASE d.outcome # "sending" -> d
        [] Len(d.sent) = Len(d.script) -> [d EXCEPT !.outcome = "later"]
        [] answer = "410" -> [next EXCEPT !.outcome = IF chunk.start + chunk.length = d.total THEN "ambiguous" ELSE "expired"]
        [] Classified(answer) # "none" -> Resolved(next, Classified(answer))
        [] next.held = d.total -> [next EXCEPT !.offset = d.total, !.outcome = "video"]
        [] OTHER -> [next EXCEPT !.offset = Confirmed(next.held, @)]

\* query_upload_status: what a resumed drive knows before it sends.
Queried(d) == IF d.offset = 0 THEN d ELSE [d EXCEPT !.offset = d.held]

\* A drive of a session that is still open; the plan spent, the server is asked once more.
Drive(d, script) ==
  LET known == Queried(d)
      over == FoldLeft(SendChunk, [known EXCEPT !.script = script, !.sent = <<>>, !.outcome = "sending"], Planned(d.total, d.size, known.offset))
  IN  IF d.outcome \in {"video", "ambiguous", "expired"} THEN d
      ELSE IF over.outcome = "sending" THEN Resolved(over, "none") ELSE over

Transfer(t) ==
  FoldLeft(Drive, [total |-> t.total, size |-> Chunk(t.chunk), held |-> 0, offset |-> 0, script |-> <<>>, sent |-> <<>>, outcome |-> "later"], t.scripts)

\* ResumableUploadCheckpoint.offset_within_total.
Checkpointed(d) == d.offset <= d.total /\ (d.outcome = "video" => d.offset = d.total)

-----------------------------------------------------------------------------
(* What the writes leave on the video: the upload sends the draft's whole     *)
(* status, so does a change of visibility, and YouTube makes a scheduled      *)
(* private video public at its time.                                          *)
NoVideo == [exists |-> FALSE, privacy |-> "private", schedule |-> FALSE, synthetic |-> FALSE, kids |-> FALSE]
NewRun(draft) == [draft |-> draft, video |-> NoVideo, decided |-> FALSE, scheduled |-> FALSE]

\* to_provider_metadata: a time only for a video that goes out private.
Projected(draft, schedule, privacy) ==
  [privacy |-> privacy, schedule |-> schedule /\ privacy = "private", synthetic |-> draft.synthetic, kids |-> draft.kids]

\* _snippet_and_status: a write replaces the whole status part.
StatusPart(m) == [exists |-> TRUE, privacy |-> m.privacy, schedule |-> m.schedule, synthetic |-> m.synthetic, kids |-> m.kids]

\* schedule_requires_private_target: only what is to become public is scheduled.
Writable(draft) == draft.schedule => draft.requested = "public"

Edit(r, draft) == IF Writable(draft) THEN [r EXCEPT !.draft = draft] ELSE r
Insert(r) ==
  IF r.video.exists THEN r
  ELSE [r EXCEPT !.video = StatusPart(Projected(r.draft, r.draft.schedule, "private")), !.scheduled = @ \/ r.draft.schedule]
Show(r, privacy, schedule) ==
  IF ~r.video.exists \/ (schedule /\ privacy # "public") THEN r
  ELSE [r EXCEPT !.decided = TRUE, !.video = StatusPart(Projected(r.draft, schedule, IF schedule THEN "private" ELSE privacy))]
Elapse(r) == IF r.video.schedule THEN [r EXCEPT !.video.privacy = "public", !.video.schedule = FALSE] ELSE r

Written(r, op) ==
  CASE op.do = "edit" -> Edit(r, op.draft)
    [] op.do = "upload" -> Insert(r)
    [] op.do = "show" -> Show(r, op.privacy, op.schedule)
    [] op.do = "elapse" -> Elapse(r)

Writes(w) == [i \in 0..Len(w.ops) |-> FoldLeft(Written, NewRun(w.draft), SubSeq(w.ops, 1, i))]

-----------------------------------------------------------------------------
Published(q) ==
  CASE q.about = "eligible" -> [failures |-> Eligibility(q)]
    [] q.about = "draft"    -> FirstDraft(q)
    [] q.about = "transfer" -> Transfer(q)
    [] q.about = "writes"   -> [runs |-> Writes(q)]

Changes(e, p) == Edited(p, e.kind) # p

\* What may be published is what the project holds, but for an edit that landed after
\* final QA and that no later invalidation speaks of: a selection, which records none, or
\* a regeneration asked while the render still ran; and the channel's grant covers every
\* operation the publication will ask of YouTube.
EligibleHolds(h, failures) ==
  /\ failures = {} => \A e \in h.edits : Changes(e, h.project) =>
                      e.landed = AfterQA /\ (e.kind \in Recorded => e.asked = RenderRuns)
  /\ failures = {} => \A o \in DOMAIN OperationScopes : OperationScopes[o] \subseteq h.scopes

\* However each request ends, the checkpoint is never ahead of the bytes YouTube holds, no
\* chunk but the file's last is short of whole granules, and a video means every byte.
TransferHolds(t, d) ==
  /\ d.offset <= d.held /\ d.held <= d.total
  /\ \A i \in DOMAIN d.sent : d.sent[i].length % Granule = 0 \/ d.sent[i].start + d.sent[i].length = d.total
  /\ Checkpointed(d) /\ (d.outcome = "video" => d.held = d.total)

\* A video keeps its disclosures through every write; it is public by a decision of the
\* owner or by the time the draft was uploaded with.
WritesHold(w, runs) ==
  \A i \in DOMAIN runs : LET r == runs[i] IN
    /\ r.video.exists /\ i > 0 /\ w.ops[i].do \in {"upload", "show"} /\ r # runs[i - 1]
         => r.video.synthetic = r.draft.synthetic /\ r.video.kids = r.draft.kids
    /\ r.video.privacy # "private" => r.decided \/ r.scheduled
    /\ r.video.schedule => r.video.privacy = "private"

PublishingHolds(q, a) ==
  CASE q.about = "eligible" -> EligibleHolds(q, a.failures)
    [] q.about = "draft"    -> DraftValid(a)
    [] q.about = "transfer" -> TransferHolds(q, a)
    [] q.about = "writes"   -> WritesHold(q, a.runs)
=============================================================================
