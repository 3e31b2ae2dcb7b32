----------------------------- MODULE Continuity -----------------------------
(***************************************************************************)
(* services/continuity and packages/workflows/continuity.py: a reference   *)
(* sheet of every character and location is drafted, the owner decides on  *)
(* each, and the shots are bound to the approved ones.  The project's own  *)
(* workflow and one per regenerated entity run beside each other over the  *)
(* same sheets; decisions reach the project's workflow as commands.        *)
(***************************************************************************)
EXTENDS Naturals, FiniteSets

CONSTANTS
  Entities,      \* characters and locations with evidence frames
  Characters,    \* the entities that are characters; the others are locations
  Shots,         \* the shots of the storyboard
  DependsOn,     \* [Shots -> SUBSET Entities]
  MaxIdentity,   \* bound: identities of an entity, as later analyses see it
  Changing,      \* bound: the entities whose look later analyses change
  MaxDecisions,  \* bound: decisions of the owner
  MaxStarts,     \* bound: executions of the reference workflows
  MaxDeaths      \* bound: activities that end half way

ASSUME ContinuityAssumption ==
  /\ Characters \subseteq Entities /\ Changing \subseteq Entities
  /\ DependsOn \in [Shots -> SUBSET Entities]
  /\ MaxIdentity \in Nat \ {0} /\ MaxDecisions \in Nat /\ MaxStarts \in Nat /\ MaxDeaths \in Nat

VARIABLES
  identity,     \* the identity version the evidence of an entity gives
  sheet,        \* the committed reference sets: status, by entity and identity version
  drawing,      \* the sheets whose image is an asset
  drawn,        \* history: images paid for
  flow,         \* the workflows: the project's and each entity's
  work,         \* what the activity of a workflow holds, uncommitted
  approvals,    \* reference_apply commands not yet dispatched
  decisions, starts, deaths,
  binding,      \* the bundle of each shot
  since,        \* history: sheets drafted or decided on since a workflow read them
  contested     \* history: sheets looked for while a build drew them, or paid for in vain

continuityVars == <<identity, sheet, drawing, drawn, flow, work, approvals, decisions, starts,
                    deaths, binding, since, contested>>

Identity == 1..MaxIdentity
Sheet == Entities \X Identity
Scope == Entities \cup {"project"}
InScope(w) == IF w = "project" THEN Entities ELSE {w}

\* Characters and locations have tables of their own, which are read in this order.
Table(t) == IF t = 1 THEN Characters ELSE Entities \ Characters
InTable(t) == {s \in Sheet : s[1] \in Table(t)}

\* A workflow execution: where it stands and the sheets its approval names.
NoSheets == [given |-> FALSE, sheets |-> {}]
NoFlow == [status |-> "none", approval |-> NoSheets]
Building == {"drafting", "drawing", "answered", "stored", "inserting"}
Applying == {"binding", "pending", "choosing", "comparing"}
IsLive(w) == flow[w].status \in Building \cup Applying \cup {"awaiting"}

\* What a build holds: the sheets left to see to, the one in hand and the draft rows
\* it has inserted.  What an apply holds: the table it reads next, the sheets it has
\* chosen, the shots left to compare and those whose bundle moved.
NoWork == [left |-> {}, hand |-> {}, wrote |-> {}, table |-> 1,
           choice |-> [e \in Entities |-> {}], shots |-> Shots, changed |-> {}]

ContinuityInit ==
  /\ identity = [e \in Entities |-> 1]
  /\ sheet = [s \in Sheet |-> "none"]
  /\ drawing = {} /\ drawn = [s \in Sheet |-> 0]
  /\ flow = [w \in Scope |-> NoFlow] /\ work = [w \in Scope |-> NoWork]
  /\ approvals = 0 /\ decisions = 0 /\ starts = 0 /\ deaths = 0
  /\ binding = [s \in Shots |-> {}]
  /\ since = [w \in Scope |-> {}] /\ contested = {}

Current(e) == <<e, identity[e]>>
Approved == {s \in Sheet : sheet[s] = "approved"}
Pending == {s \in Sheet : sheet[s] = "draft"}

\* An activity of w moves on: to a status, holding this.
Goes(w, status, holding) ==
  /\ flow' = [flow EXCEPT ![w].status = status]
  /\ work' = [work EXCEPT ![w] = holding]

\* The workflow of w is over, and with it the approval it was given.
FlowEnds(w, status) ==
  /\ flow' = [flow EXCEPT ![w] = [NoFlow EXCEPT !.status = status]]
  /\ work' = [work EXCEPT ![w] = NoWork]

\* The sheets S become visible in a new status, to a workflow that has read them too.
Marks(S) == since' = [w \in Scope |->
  IF flow[w].status \in {"pending", "choosing", "comparing"} THEN since[w] \cup S ELSE {}]
Unmarks(w) == since' = [since EXCEPT ![w] = {}]

\* w's transaction commits the drafts it has inserted.
CommitDrafts(w) ==
  /\ sheet' = [s \in Sheet |-> IF s \in work[w].wrote THEN "draft" ELSE sheet[s]]
  /\ Marks(work[w].wrote)

-----------------------------------------------------------------------------
(* Drafting the sheets. *)

\* A build begins with the identities the evidence gives at that time.
Requirements(w) == [NoWork EXCEPT !.left = {Current(e) : e \in InScope(w)}]

\* start_references, by the project's workflow, a build or a regeneration.  An
\* execution of the same run is adopted.
StartFlow(w) ==
  /\ starts < MaxStarts
  /\ ~IsLive(w)
  /\ flow' = [flow EXCEPT ![w] = [status |-> "drafting", approval |-> NoSheets]]
  /\ work' = [work EXCEPT ![w] = Requirements(w)]
  /\ starts' = starts + 1
  /\ UNCHANGED <<identity, sheet, drawing, drawn, approvals, decisions, deaths, binding, since,
                 contested>>

\* The image of a reference identity is an asset under its own idempotency key.
InStore(s) == s \in drawing

Draws(w, s) == flow[w].status \in {"drawing", "answered"} /\ s \in work[w].hand

\* The next sheet: a draft or an approved one is reused, any other has an image in
\* store or is to be drawn.  Another build may be drawing it at this moment.
LooksFor(w, s) ==
  /\ flow[w].status = "drafting" /\ s \in work[w].left
  /\ s[1] \in Characters \/ work[w].left \cap InTable(1) = {}
  /\ LET rest == [work[w] EXCEPT !.left = @ \ {s}] IN
       CASE sheet[s] \in {"draft", "approved"} -> Goes(w, "drafting", rest)
         [] sheet[s] \notin {"draft", "approved"} /\ InStore(s) ->
              Goes(w, "stored", [rest EXCEPT !.hand = {s}])
         [] OTHER -> Goes(w, "drawing", [rest EXCEPT !.hand = {s}])
  /\ contested' = IF \E v \in Scope \ {w} : Draws(v, s) THEN contested \cup {s} ELSE contested
  /\ UNCHANGED <<identity, sheet, drawing, drawn, approvals, decisions, starts, deaths, binding,
                 since>>

\* The reservation is committed, and the drafts before it with it; the provider is
\* asked.  A reservation that is there already stops nobody.
Asks(w, s) ==
  /\ flow[w].status = "drawing" /\ work[w].hand = {s}
  /\ CommitDrafts(w)
  /\ drawn' = [drawn EXCEPT ![s] = @ + 1]
  /\ Goes(w, "answered", [work[w] EXCEPT !.wrote = {}])
  /\ UNCHANGED <<identity, drawing, approvals, decisions, starts, deaths, binding, contested>>

\* The answer is an asset, committed before the sheet's row is written.
Stores(w) ==
  /\ flow[w].status = "answered"
  /\ drawing' = drawing \cup work[w].hand
  /\ Goes(w, "stored", work[w])
  /\ UNCHANGED <<identity, sheet, drawn, approvals, decisions, starts, deaths, binding, since,
                 contested>>

\* Where the identity has a set already, which may be one the owner rejected, that
\* set is adopted.
Adopts(w, s) ==
  /\ flow[w].status = "stored" /\ work[w].hand = {s}
  /\ IF sheet[s] # "none" THEN Goes(w, "drafting", [work[w] EXCEPT !.hand = {}])
                          ELSE Goes(w, "inserting", work[w])
  /\ UNCHANGED <<identity, sheet, drawing, drawn, approvals, decisions, starts, deaths, binding,
                 since, contested>>

\* The row is inserted, once no other transaction holds one of that identity; one
\* that was committed meanwhile fails the activity, which begins again.
Inserts(w, s) ==
  /\ flow[w].status = "inserting" /\ work[w].hand = {s}
  /\ \A v \in Scope : s \notin work[v].wrote
  /\ IF sheet[s] = "none"
       THEN Goes(w, "drafting", [work[w] EXCEPT !.hand = {}, !.wrote = @ \cup {s}])
       ELSE Goes(w, "drafting", Requirements(w))
  /\ UNCHANGED <<identity, sheet, drawing, drawn, approvals, decisions, starts, deaths, binding,
                 since, contested>>

\* The build is through: it commits the drafts it still holds and says whether a
\* decision is owed.  A cancellation that came meanwhile counts before an approval
\* that did.
Drafted(w, cancelled) ==
  /\ flow[w].status = "drafting" /\ work[w].left = {}
  /\ CommitDrafts(w)
  /\ LET pending == Pending \cup work[w].wrote # {} IN
       flow' = [flow EXCEPT ![w] =
         CASE cancelled             -> [NoFlow EXCEPT !.status = "cancelled"]
           [] ~cancelled /\ ~pending -> [status |-> "binding", approval |-> [given |-> TRUE, sheets |-> {}]]
           [] ~cancelled /\ pending /\ @.approval.given -> [@ EXCEPT !.status = "binding"]
           [] OTHER                 -> [@ EXCEPT !.status = "awaiting"]]
  /\ work' = [work EXCEPT ![w] = NoWork]
  /\ UNCHANGED <<identity, drawing, drawn, approvals, decisions, starts, deaths, binding, contested>>

\* A worker dies, a call fails or an image is no valid one: nothing uncommitted is
\* left, and the activity is retried from its beginning or has been too often.
BuildDies(w) ==
  /\ flow[w].status \in Building /\ deaths < MaxDeaths
  /\ \/ Goes(w, "drafting", Requirements(w)) \/ FlowEnds(w, "failed")
  /\ deaths' = deaths + 1
  /\ contested' = IF flow[w].status = "answered" THEN contested \cup work[w].hand ELSE contested
  /\ UNCHANGED <<identity, sheet, drawing, drawn, approvals, decisions, starts, binding, since>>

Builds(w) ==
  \/ \E s \in Sheet : LooksFor(w, s) \/ Asks(w, s) \/ Adopts(w, s) \/ Inserts(w, s)
  \/ Stores(w) \/ (\E c \in BOOLEAN : Drafted(w, c)) \/ BuildDies(w)

-----------------------------------------------------------------------------
(* The owner and the analysis. *)

\* The owner approves or rejects a sheet, whatever was decided before; an
\* approval is delivered by a command.
Decide(s, decision) ==
  /\ decisions < MaxDecisions
  /\ sheet[s] \notin {"none", decision}
  /\ sheet' = [sheet EXCEPT ![s] = decision]
  /\ Marks({s})
  /\ decisions' = decisions + 1
  /\ approvals' = IF decision = "approved" THEN approvals + 1 ELSE approvals
  /\ UNCHANGED <<identity, drawing, drawn, flow, work, starts, deaths, binding, contested>>

\* dispatch_reference_apply: the project's workflow is signalled with every
\* approved set, and is started for it where none is waiting.  The first approval
\* a workflow receives is the one it acts on.
DispatchApproval ==
  /\ approvals > 0
  /\ approvals' = approvals - 1
  /\ LET given == [given |-> TRUE, sheets |-> Approved] IN
       \/ /\ IsLive("project")
          /\ flow' = [flow EXCEPT !["project"] =
               CASE @.approval.given -> @
                 [] ~@.approval.given /\ @.status = "awaiting" ->
                      [status |-> "binding", approval |-> given]
                 [] OTHER -> [@ EXCEPT !.approval = given]]
          /\ UNCHANGED <<work, starts>>
       \/ /\ ~IsLive("project") /\ starts < MaxStarts
          /\ flow' = [flow EXCEPT !["project"] = [status |-> "drafting", approval |-> given]]
          /\ work' = [work EXCEPT !["project"] = Requirements("project")]
          /\ starts' = starts + 1
  /\ UNCHANGED <<identity, sheet, drawing, drawn, decisions, deaths, binding, since, contested>>

\* The owner cancels the workflow, or its project closes.
CancelFlow(w) ==
  /\ flow[w].status = "awaiting"
  /\ FlowEnds(w, "cancelled")
  /\ UNCHANGED <<identity, sheet, drawing, drawn, approvals, decisions, starts, deaths,
                 binding, since, contested>>

\* A later analysis changes what an entity looks like.
Reanalyse(e) ==
  /\ e \in Changing /\ identity[e] < MaxIdentity
  /\ identity' = [identity EXCEPT ![e] = @ + 1]
  /\ UNCHANGED <<sheet, drawing, drawn, flow, work, approvals, decisions, starts, deaths, binding,
                 since, contested>>

-----------------------------------------------------------------------------
(* Applying what was approved.  Every read is a statement of its own under READ   *)
(* COMMITTED and locks nothing: the owner and the other workflows go on between.  *)

\* The read of one table is over: that of the next begins, or the next thing does.
ReadOn(w, next, holding) ==
  IF work[w].table = 1 THEN Goes(w, flow[w].status, [holding EXCEPT !.table = 2])
                       ELSE Goes(w, next, [holding EXCEPT !.table = 1])

\* An approval that names a sheet that is approved no more is refused for good.
Stale(w) == ~(flow[w].approval.sheets \cap InTable(work[w].table) \subseteq Approved)

ChecksApproval(w) ==
  /\ flow[w].status = "binding"
  /\ IF Stale(w) THEN FlowEnds(w, "failed") ELSE ReadOn(w, "pending", work[w])
  /\ UNCHANGED <<identity, sheet, drawing, drawn, approvals, decisions, starts, deaths, binding,
                 since, contested>>

\* Mutant: the drafts of the locations are not looked for.
UndecidedCharacters(t) == Pending \cap InTable(1)

Undecided(t) == Pending \cap InTable(t)

\* A draft that is still pending refuses it for good as well.
ChecksPending(w) ==
  /\ flow[w].status = "pending"
  /\ IF Undecided(work[w].table) # {} THEN FlowEnds(w, "failed")
                                      ELSE ReadOn(w, "choosing", work[w])
  /\ IF Undecided(work[w].table) # {} THEN Unmarks(w)
                                      ELSE since' = [since EXCEPT ![w] = @ \ InTable(work[w].table)]
  /\ UNCHANGED <<identity, sheet, drawing, drawn, approvals, decisions, starts, deaths, binding,
                 contested>>

\* Which sheet of an entity binds: any of its approved ones, in no order.
SheetChoices(t) == {c \in [Table(t) -> SUBSET Approved] : \A e \in Table(t) :
  LET own == {s \in Approved : s[1] = e} IN
    IF own = {} THEN c[e] = {} ELSE \E s \in own : c[e] = {s}}

Chooses(w) ==
  /\ flow[w].status = "choosing"
  /\ \E c \in SheetChoices(work[w].table) :
       /\ ReadOn(w, "comparing", [work[w] EXCEPT
            !.choice = [e \in Entities |-> IF e \in Table(work[w].table) THEN c[e] ELSE @[e]]])
       /\ since' = [since EXCEPT ![w] = @ \ UNION {c[e] : e \in Table(work[w].table)}]
  /\ UNCHANGED <<identity, sheet, drawing, drawn, approvals, decisions, starts, deaths, binding,
                 contested>>

Bundle(choice, shot) == UNION {choice[e] : e \in DependsOn[shot]}

\* The bundle a shot has is compared with the one it should have.
Compares(w, s) ==
  /\ flow[w].status = "comparing" /\ s \in work[w].shots
  /\ Goes(w, "comparing", [work[w] EXCEPT !.shots = @ \ {s},
       !.changed = IF binding[s] = Bundle(work[w].choice, s) THEN @ ELSE @ \cup {s}])
  /\ UNCHANGED <<identity, sheet, drawing, drawn, approvals, decisions, starts, deaths, binding,
                 since, contested>>

\* The bundles that moved are committed, over whatever was committed meanwhile.
Writes(w) ==
  /\ flow[w].status = "comparing" /\ work[w].shots = {}
  /\ binding' = [s \in Shots |->
       IF s \in work[w].changed THEN Bundle(work[w].choice, s) ELSE binding[s]]
  /\ FlowEnds(w, "complete") /\ Unmarks(w)
  /\ UNCHANGED <<identity, sheet, drawing, drawn, approvals, decisions, starts, deaths, contested>>

ApplyDies(w) ==
  /\ flow[w].status \in Applying /\ deaths < MaxDeaths
  /\ \/ Goes(w, "binding", NoWork) \/ FlowEnds(w, "failed")
  /\ deaths' = deaths + 1 /\ Unmarks(w)
  /\ UNCHANGED <<identity, sheet, drawing, drawn, approvals, decisions, starts, binding, contested>>

Applies(w) ==
  \/ ChecksApproval(w) \/ ChecksPending(w) \/ Chooses(w)
  \/ (\E s \in Shots : Compares(w, s)) \/ Writes(w) \/ ApplyDies(w)

ContinuityNext ==
  \/ \E w \in Scope :
       \/ StartFlow(w) \/ CancelFlow(w) \/ Builds(w) \/ Applies(w)
  \/ \E s \in Sheet, d \in {"approved", "rejected"} : Decide(s, d)
  \/ DispatchApproval
  \/ \E e \in Entities : Reanalyse(e)

-----------------------------------------------------------------------------

\* A bundle is written by a workflow that, whenever it read them, found every sheet in
\* it approved and no sheet undecided: what is not so at the commit has been decided on
\* or drafted since that read.
BoundToApproved ==
  \A s \in Shots : binding'[s] # binding[s] =>
    \E w \in Scope :
      /\ flow[w].status = "comparing" /\ flow'[w].status = "complete"
      /\ binding'[s] \subseteq Approved \cup since[w]
      /\ Pending \subseteq since[w]

\* However many workflows want a sheet and whatever becomes of them, its image is paid
\* for once, unless a build looked for it while another was drawing it or one was cut
\* off with its answer.
SheetPaidOnce == \A s \in Sheet : drawn'[s] <= 1 \/ s \in contested'
=============================================================================
