------------------------------ MODULE RenderJob ------------------------------
(***************************************************************************)
(* Render jobs: rows of render_jobs in PostgreSQL and the executions that  *)
(* claim them, resolve the project's inputs, bind a manifest, drive FFmpeg *)
(* and commit the deliverable.  An execution is one call of execute(): by  *)
(* the polling worker, by a Temporal activity or by the CLI.  The attempts *)
(* of one activity share its worker id, so WorkerOf need not be injective. *)
(*                                                                         *)
(* A session keeps the copy of the row it loaded (expire_on_commit=False)  *)
(* and writes only the columns it changed, by primary key.  The model     *)
(* keeps of the copy what is used later: `held' is what it says of        *)
(* claimed_by, and require_lease looks at nothing else.                   *)
(* Between a step's commit and the next any other session may act.         *)
(*                                                                         *)
(* An input identity stands for the hash over every input and setting; the *)
(* render identity is a function of it.                                    *)
(***************************************************************************)
EXTENDS Integers, Sequences, FiniteSets

CONSTANTS
  Executor,       \* executions that may run at once
  Poller,         \* those that are the --poll loop of workers/render_job
  WorkerOf,       \* Executor -> worker ids
  None,           \* SQL NULL
  Inputs,         \* input identities
  MaxAttempts,    \* --max-attempts (3)
  MaxJobs,        \* bound: rows in a behaviour
  MaxChanges,     \* bound: changes of the project's inputs
  MaxFaults       \* bound: crashes, raised errors, stalls and shutdowns

ASSUME RenderAssumption ==
  /\ Poller \subseteq Executor
  /\ Executor \subseteq DOMAIN WorkerOf
  /\ None \notin {WorkerOf[x] : x \in Executor} \cup Inputs
  /\ Inputs # {}
  /\ MaxAttempts \in Nat \ {0} /\ MaxJobs \in Nat
  /\ MaxChanges \in Nat /\ MaxFaults \in Nat

VARIABLES
  jobs,     \* the committed rows, oldest first
  input,    \* the identity the project's inputs resolve to, None if refused
  pc, at,   \* per execution: its next step and its job
  copy,     \* what it keeps of the row it read, and the identity it resolved
  changes, faults

execVars == <<pc, at, copy>>
vars == <<jobs, input, execVars, changes, faults>>

Worker == {WorkerOf[x] : x \in Executor}

-----------------------------------------------------------------------------
(* Rows. *)

\* `running' stands for claiming, preparing, manifest_ready and rendering, which
\* no guard tells apart.
Status == {"queued", "running", "complete", "failed", "cancelled"}

Claimable == Status \ {"complete", "cancelled"}

\* The poll query; `failed' is claimable but never polled.
Pollable == Claimable \ {"failed"}

Row == [status: Status, holder: Worker \cup {None}, live: BOOLEAN,
        attempts: 0..MaxAttempts, cancel: BOOLEAN,
        input: Inputs \cup {None},     \* input_hash
        identity: Inputs \cup {None},  \* render_identity
        out: Inputs \cup {None},       \* what the stored outputs show
        selected: BOOLEAN,
        stamped: BOOLEAN]              \* history: input_hash set when queued

QueuedRow(hash) ==
  [status |-> "queued", holder |-> None, live |-> FALSE, attempts |-> 0,
   cancel |-> FALSE, input |-> hash, identity |-> None,
   out |-> None, selected |-> FALSE, stamped |-> hash # None]

Copy == [stopped: BOOLEAN, marked: BOOLEAN, attempts: 0..MaxAttempts, held: BOOLEAN,
         input: Inputs \cup {None}, outputs: BOOLEAN]

Blank == [stopped |-> FALSE, marked |-> FALSE, attempts |-> 0, held |-> FALSE,
          input |-> None, outputs |-> FALSE]

Id == DOMAIN jobs

Write(j, row) == jobs' = [jobs EXCEPT ![j] = row]

Goto(x, step) == pc' = [pc EXCEPT ![x] = step]

\* The session is closed; nothing of it is used again.
Return(x) ==
  /\ Goto(x, "idle")
  /\ at' = [at EXCEPT ![x] = 1]
  /\ copy' = [copy EXCEPT ![x] = Blank]

-----------------------------------------------------------------------------
(* Queueing. *)

\* _existing_job: a job of the same inputs that has neither failed nor been
\* cancelled is reused.
Reusable(hash) ==
  \E j \in Id : jobs[j].input = hash /\ jobs[j].status \notin {"failed", "cancelled"}

\* queue_render_job.  A lineage refusal, a reused job and a taken idempotency key
\* (the unique index aborts the insert) leave the table as it was.
Queue ==
  /\ Len(jobs) < MaxJobs
  /\ input # None
  /\ ~Reusable(input)
  /\ jobs' = Append(jobs, QueuedRow(input))
  /\ UNCHANGED <<input, execVars, faults, changes>>

\* The review route's start_render queues whatever the project's state; the
\* identity is stamped only when the inputs resolve.
QueueForReview ==
  /\ Len(jobs) < MaxJobs
  /\ jobs' = Append(jobs, QueuedRow(input))
  /\ UNCHANGED <<input, execVars, faults, changes>>

\* Upstream stages select another clip, narration or storyboard, or reopen one.
ChangeInputs ==
  /\ changes < MaxChanges
  /\ changes' = changes + 1
  /\ input' \in (Inputs \cup {None}) \ {input}
  /\ UNCHANGED <<jobs, execVars, faults>>

-----------------------------------------------------------------------------
(* Claiming. *)

Stopped(row) == row.cancel \/ row.status = "cancelled"

\* execute() and the refresh in claim_render_job: the row is read; a completed
\* job is returned as it is.
Read(x, j) ==
  /\ pc[x] = "idle"
  /\ jobs[j].status # "complete"
  /\ Goto(x, "read")
  /\ at' = [at EXCEPT ![x] = j]
  /\ copy' = [copy EXCEPT ![x] =
       [Blank EXCEPT !.stopped = Stopped(jobs[j]), !.marked = jobs[j].status = "cancelled",
                     !.attempts = jobs[j].attempts]]
  /\ UNCHANGED <<jobs, input, faults, changes>>

Polled(j) == jobs[j].status \in Pollable /\ ~jobs[j].cancel

\* The poll query orders by creation and takes the first row.
Candidate(j) == Polled(j) /\ \A k \in 1..(j - 1) : ~Polled(k)

Poll(x) == x \in Poller /\ \E j \in Id : Candidate(j) /\ Read(x, j)

ExecuteDirectly(x) == x \notin Poller /\ \E j \in Id : Read(x, j)

\* A job found cancelled is marked so, whoever holds it.
CancelUnstarted(x) ==
  /\ pc[x] = "read"
  /\ copy[x].stopped
  /\ Write(at[x], IF copy[x].marked THEN jobs[at[x]]
                  ELSE [jobs[at[x]] EXCEPT !.status = "cancelled", !.holder = None, !.live = FALSE])
  /\ Return(x)
  /\ UNCHANGED <<input, faults, changes>>

MayClaim(x) == ~copy[x].stopped /\ copy[x].attempts < MaxAttempts

\* Mutant: a lease is never taken over.
FreeOfHolder(row, worker) ==
  row.status \in Claimable /\ ~row.cancel /\ row.holder \in {None, worker}

\* Mutant: the claim does not look at the lease.
FreeOfAnyone(row, worker) == row.status \in Claimable /\ ~row.cancel

\* The WHERE clause of the claiming UPDATE.
Free(row, worker) ==
  /\ row.status \in Claimable
  /\ ~row.cancel
  /\ row.holder = None \/ ~row.live \/ row.holder = worker

Claim(x) ==
  LET j == at[x]
      row == [jobs[j] EXCEPT !.status = "running", !.holder = WorkerOf[x],
                             !.live = TRUE, !.attempts = copy[x].attempts + 1]
  IN /\ pc[x] = "read"
     /\ MayClaim(x)
     /\ Free(jobs[j], WorkerOf[x])
     /\ Write(j, row)
     /\ copy' = [copy EXCEPT ![x] =
          [Blank EXCEPT !.held = TRUE, !.input = row.input, !.outputs = row.out # None]]
     /\ Goto(x, "claimed")
     /\ UNCHANGED <<input, at, faults, changes>>

\* Attempts used up, or another worker's live lease.
ClaimRefused(x) ==
  /\ pc[x] = "read"
  /\ ~copy[x].stopped
  /\ MayClaim(x) => ~Free(jobs[at[x]], WorkerOf[x])
  /\ Return(x)
  /\ UNCHANGED <<jobs, input, faults, changes>>

-----------------------------------------------------------------------------
(* The stages.  A checkpoint writes the status by primary key, on the word of
   the copy. *)

Checkpoint(x) == Write(at[x], [jobs[at[x]] EXCEPT !.status = "running"])

Prepare(x) ==
  /\ pc[x] = "claimed"
  /\ copy[x].held
  /\ Checkpoint(x)
  /\ Goto(x, "preparing")
  /\ UNCHANGED <<input, at, copy, faults, changes>>

\* Mutant: the stored identity is not compared.
IdentityIgnored(stored, hash) == TRUE

\* The inputs are resolved and frozen; a job queued for other inputs is refused.
IdentityKept(stored, hash) == stored \in {None, hash}

Resolve(x) ==
  LET j == at[x] IN
  /\ pc[x] = "preparing"
  /\ input # None
  /\ IdentityKept(copy[x].input, input)
  /\ Write(j, IF copy[x].input = input THEN jobs[j] ELSE [jobs[j] EXCEPT !.input = input])
  /\ copy' = [copy EXCEPT ![x].input = input]
  /\ Goto(x, "resolved")
  /\ UNCHANGED <<input, at, faults, changes>>

ResolveRefused(x) ==
  /\ pc[x] = "preparing"
  /\ ~(input # None /\ IdentityKept(copy[x].input, input))
  /\ Goto(x, "failing")
  /\ UNCHANGED <<jobs, input, at, copy, faults, changes>>

IdentityOwner(x) == {k \in Id \ {at[x]} : jobs[k].identity = copy[x].input}

\* Captions are stored under keys derived from the input identity, the manifest
\* is bound to the job; the render identity is unique among jobs.
Bind(x) ==
  /\ pc[x] = "resolved"
  /\ IdentityOwner(x) = {}
  /\ Write(at[x], [jobs[at[x]] EXCEPT !.identity = copy[x].input, !.status = "running"])
  /\ Goto(x, "bound")
  /\ UNCHANGED <<input, at, copy, faults, changes>>

DuplicateIdentity(x) ==
  /\ pc[x] = "resolved"
  /\ IdentityOwner(x) # {}
  /\ Goto(x, "failing")
  /\ UNCHANGED <<jobs, input, at, copy, faults, changes>>

\* Outputs the copy already records are not made again: the identity they are
\* compared by is the one Bind has just written.
StartRender(x) ==
  /\ pc[x] = "bound"
  /\ Checkpoint(x)
  /\ Goto(x, IF copy[x].outputs THEN "encoded" ELSE "encoding")
  /\ copy' = [copy EXCEPT ![x].outputs = FALSE]
  /\ UNCHANGED <<input, at, faults, changes>>

\* is_cancelled: twice a second the row is read again, for the flag only.
PollCancel(x) ==
  /\ pc[x] = "encoding"
  /\ copy' = [copy EXCEPT ![x].held = jobs[at[x]].holder = WorkerOf[x]]
  /\ Goto(x, IF jobs[at[x]].cancel THEN "cancelling" ELSE "encoding")
  /\ UNCHANGED <<jobs, input, at, faults, changes>>

\* on_heartbeat, before each phase and every 15 s of it.
Heartbeat(x) ==
  LET j == at[x] IN
  /\ pc[x] = "encoding"
  /\ IF jobs[j].holder = WorkerOf[x]
     THEN /\ Write(j, [jobs[j] EXCEPT !.live = TRUE])
          /\ copy' = [copy EXCEPT ![x].held = TRUE]
          /\ UNCHANGED pc
     ELSE Goto(x, "failing") /\ UNCHANGED <<jobs, copy>>
  /\ UNCHANGED <<input, at, faults, changes>>

\* The last phase ends; probing, decoding and storing the outputs follow
\* without a heartbeat, in the transaction that completes the job.
Encode(x) ==
  /\ pc[x] = "encoding"
  /\ Goto(x, "encoded")
  /\ UNCHANGED <<jobs, input, at, copy, faults, changes>>

\* _select_render clears the project's other selection in the same transaction.
Deselected(rows, j) == [k \in DOMAIN rows |-> [rows[k] EXCEPT !.selected = (k = j)]]

Complete(x) ==
  LET j == at[x]
      done == [jobs EXCEPT ![j].status = "complete", ![j].out = copy[x].input,
                           ![j].holder = None, ![j].live = FALSE]
  IN /\ pc[x] = "encoded"
     /\ copy[x].held
     /\ jobs' = Deselected(done, j)
     /\ Return(x)
     /\ UNCHANGED <<input, faults, changes>>

LeaseFoundLost(x) ==
  /\ pc[x] = "encoded"
  /\ ~copy[x].held
  /\ Goto(x, "failing")
  /\ UNCHANGED <<jobs, input, at, copy, faults, changes>>

-----------------------------------------------------------------------------
(* Endings.  After a rollback the row is read anew and the status written,
   whoever holds the job and whatever the status is; the lease is dropped if it
   is this worker's. *)

Released(row, worker) ==
  IF row.holder = worker THEN [row EXCEPT !.holder = None, !.live = FALSE] ELSE row

End(x, step, status) ==
  /\ pc[x] = step
  /\ Write(at[x], [Released(jobs[at[x]], WorkerOf[x]) EXCEPT !.status = status])
  /\ Return(x)
  /\ UNCHANGED <<input, faults, changes>>

RecordFailure(x) == End(x, "failing", "failed")

RecordCancellation(x) == End(x, "cancelling", "cancelled")

Working == {"claimed", "preparing", "resolved", "bound", "encoding", "encoded"}

Fault == faults < MaxFaults /\ faults' = faults + 1

\* FFmpeg fails or times out, verification refuses, storage is full, an insert
\* collides: every exception of a stage ends in _record_failure.
Raise(x) ==
  /\ Fault
  /\ pc[x] \in Working
  /\ Goto(x, "failing")
  /\ UNCHANGED <<jobs, input, at, copy, changes>>

Crash(x) ==
  /\ Fault
  /\ pc[x] # "idle"
  /\ Return(x)
  /\ UNCHANGED <<jobs, input, changes>>

\* SIGTERM between the poll query and the execution: the worker asks for the
\* candidate's cancellation.
Shutdown(x) ==
  /\ Fault
  /\ x \in Poller /\ pc[x] = "idle"
  /\ \E j \in Id : /\ jobs[j].status \notin {"complete", "cancelled"}
                   /\ Write(j, [jobs[j] EXCEPT !.cancel = TRUE])
  /\ UNCHANGED <<input, execVars, changes>>

Held(j) == \E x \in Executor : pc[x] # "idle" /\ at[x] = j /\ copy[x].held

\* An execution that holds a lease renews it every 15 s; it expires when the
\* execution is gone, or stalls.
Expire(j) ==
  /\ jobs[j].live
  /\ IF Held(j) THEN Fault ELSE UNCHANGED faults
  /\ Write(j, [jobs[j] EXCEPT !.live = FALSE])
  /\ UNCHANGED <<input, execVars, changes>>

-----------------------------------------------------------------------------

Init ==
  /\ jobs = <<>>
  /\ input \in Inputs \cup {None}
  /\ pc = [x \in Executor |-> "idle"]
  /\ at = [x \in Executor |-> 1]
  /\ copy = [x \in Executor |-> Blank]
  /\ changes = 0 /\ faults = 0

Stage(x) ==
  \/ CancelUnstarted(x) \/ Claim(x) \/ ClaimRefused(x)
  \/ Prepare(x) \/ Resolve(x) \/ ResolveRefused(x)
  \/ Bind(x) \/ DuplicateIdentity(x) \/ StartRender(x)
  \/ Encode(x) \/ Complete(x) \/ LeaseFoundLost(x)
  \/ RecordFailure(x) \/ RecordCancellation(x)

Next ==
  \/ Queue \/ QueueForReview
  \/ ChangeInputs
  \/ \E x \in Executor :
       \/ Poll(x) \/ ExecuteDirectly(x) \/ Stage(x)
       \/ PollCancel(x) \/ Heartbeat(x)
       \/ Raise(x) \/ Crash(x) \/ Shutdown(x)
  \/ \E j \in Id : Expire(j)

\* A poller keeps polling, a stage that began goes on, time passes.
Fairness ==
  /\ \A x \in Poller : WF_vars(Poll(x))
  /\ \A x \in Executor : WF_vars(Stage(x))
  /\ \A j \in 1..MaxJobs : WF_vars(j \in Id /\ ~Held(j) /\ Expire(j))

Spec == Init /\ [][Next]_vars

FairSpec == Spec /\ Fairness

-----------------------------------------------------------------------------
(* Properties. *)

TypeOK ==
  /\ Len(jobs) <= MaxJobs /\ \A j \in Id : jobs[j] \in Row
  /\ input \in Inputs \cup {None}
  /\ pc \in [Executor -> Working \cup {"idle", "read", "failing", "cancelling"}]
  /\ at \in [Executor -> 1..(MaxJobs + 1)]
  /\ copy \in [Executor -> Copy]
  /\ changes \in 0..MaxChanges /\ faults \in 0..MaxFaults

\* However many executions race, retry and die, a project has at most one
\* selected render and that render has its outputs: what the download route and
\* publication hand out exists.
OneSelected ==
  /\ \A j, k \in Id : jobs[j].selected /\ jobs[k].selected => j = k
  /\ \A j \in Id : jobs[j].selected \/ jobs[j].status = "complete" => jobs[j].out # None

\* The outputs of a job that was queued for given inputs were rendered from
\* those, and no two jobs hold a manifest of the same inputs.
OutputsOfItsInputs ==
  /\ \A j \in Id : jobs[j].stamped /\ jobs[j].out # None => jobs[j].out = jobs[j].input
  /\ \A j, k \in Id : jobs[j].identity # None /\ jobs[j].identity = jobs[k].identity => j = k

\* A claim never takes a job from under another worker's live lease.
LeaseExcludes ==
  [][\A j \in Id : jobs'[j].holder \notin {jobs[j].holder, None}
        => jobs[j].holder = None \/ ~jobs[j].live]_vars

\* Every job the poll query offers first is settled, or has used its attempts.
HeadSettles ==
  \A j \in 1..MaxJobs :
    (j \in Id /\ Candidate(j)) ~> (j \in Id => ~Candidate(j) \/ jobs[j].attempts = MaxAttempts)

\* What a project shows as its render exists, is one, and shows what was asked for.
RenderIsTrue == OneSelected /\ OutputsOfItsInputs

-----------------------------------------------------------------------------
\* The instance TLC checks: every execution under a worker id of its own.
OwnWorkerId == [x \in Executor |-> x]
=============================================================================
