--------------------------- MODULE ControlCommand ---------------------------
(***************************************************************************)
(* The durable control plane: command rows in PostgreSQL, the replicas of  *)
(* the dispatcher that claim them and turn them into Temporal workflows,   *)
(* the owner's cancel and retry requests, and the workflow executions.     *)
(*                                                                         *)
(* Every SQL statement that can be interleaved with another session is a   *)
(* step of its own.  Three facts about the sessions are kept exactly:      *)
(*  - a guarded UPDATE carries the row version that was read.  Versions    *)
(*    only grow, so the model keeps, instead of the number, whether a copy *)
(*    is still `fresh', that is, whether the row was not written since;    *)
(*  - the sessions do not expire their copies on commit, but a rollback    *)
(*    and a write expire them, and an expired copy is read again;          *)
(*  - an UPDATE holds the row's lock until its transaction ends, so        *)
(*    `dispatching' is never visible to another session.                   *)
(* The locks FOR UPDATE SKIP LOCKED takes in the scan last until the first *)
(* claim commits and only spare the first candidate a lost race; the model *)
(* leaves that race in, as SQLite does.                                    *)
(*                                                                         *)
(* A definition marked `Mutant' is a plausible mistake in the definition   *)
(* that follows it; nothing uses it, and README.md says which property     *)
(* catches it.                                                             *)
(***************************************************************************)
EXTENDS Naturals

CONSTANTS
  Command,        \* the rows of control_commands
  Replica,        \* the dispatcher processes
  None,           \* SQL NULL
  Kind,           \* Command -> Kinds: which handler and which settle rule
  MaxAttempts,    \* max_attempts of a new row (5)
  MaxDeferrals,   \* MAX_INFRASTRUCTURE_DEFERRALS (20)
  MaxRequests,    \* bound: owner requests in a behaviour
  MaxCrashes      \* bound: killed replicas in a behaviour

Kinds == {"references", "final_qa", "render", "shot", "shot_remediation"}

ASSUME CommandAssumption ==
  /\ None \notin Replica
  /\ None \notin Command
  /\ Kind \in [Command -> Kinds]
  /\ MaxAttempts \in Nat \ {0}
  /\ MaxDeferrals \in Nat
  /\ MaxRequests \in Nat
  /\ MaxCrashes \in Nat

VARIABLES
  row,      \* the committed rows
  lock,     \* the replica whose open transaction has updated the row
  exec,     \* the latest execution of the command's workflow ID
  starts,   \* history: executions ever started for the command
  achieved, \* history: how executions of the command have ended
  told,     \* history: the cluster was asked to cancel the latest execution
  pc, cur, batch, copy, seen,   \* the dispatcher processes
  req,      \* the owner's request in flight for a command
  requests, crashes             \* the two bounded counters

rowVars  == <<row, lock>>
execVars == <<exec, starts, achieved, told>>
procVars == <<pc, cur, batch, copy, seen>>
vars == <<rowVars, execVars, procVars, req, requests, crashes>>

-----------------------------------------------------------------------------
(* The status graph. *)

Status == {"pending", "claimed", "dispatching", "running", "awaiting_review",
           "completed", "failed", "cancelled", "superseded"}

Terminal == {"completed", "failed", "cancelled", "superseded"}

Dispatched == {"running", "awaiting_review", "completed"}

Settleable == {"running", "awaiting_review"}

\* Mutant: a command under review is taken to have no workflow behind it.
StopOnlyRunning == {"dispatching", "running"}

DispatchedOrStarting == {"dispatching"} \cup Settleable

Claimable == {"pending", "claimed", "dispatching"}

Allowed(s) ==
  CASE s = "pending"         -> {"claimed", "cancelled", "superseded"}
    [] s = "claimed"         -> {"dispatching", "pending", "failed", "cancelled"}
    [] s = "dispatching"     -> {"running", "pending", "claimed", "failed", "cancelled"}
    [] s = "running"         -> {"awaiting_review", "completed", "failed", "cancelled"}
    [] s = "awaiting_review" -> {"running", "completed", "failed", "cancelled"}
    [] s = "failed"          -> {"pending"}
    [] OTHER                 -> {}

\* cancelRequested is cancel_requested_at: 0 for NULL, else the request's rank.
Row == [status: Status, attempt: Nat, maxAttempts: Nat, deferrals: Nat,
        owner: Replica \cup {None}, lease: {"none", "live", "expired"},
        due: BOOLEAN, workflow: BOOLEAN, cancelRequested: Nat]

NewRow == [status |-> "pending", attempt |-> 0, maxAttempts |-> MaxAttempts,
           deferrals |-> 0, owner |-> None, lease |-> "none",
           due |-> TRUE, workflow |-> FALSE, cancelRequested |-> 0]

-----------------------------------------------------------------------------
(* The workflow executions, as far as their handlers and queries show. *)

ExecState == {"none", "working", "review", "binding", "stopping",
              "succeeded", "failed", "crashed", "cancelled"}

\* A reference workflow waits for its approval while it runs; a shot workflow
\* that needs a person has returned.
Live(c) == \/ exec[c] \in {"working", "binding", "stopping"}
           \/ exec[c] = "review" /\ Kind[c] = "references"

\* start_workflow with ALLOW_DUPLICATE: a live execution is adopted, anything
\* else under the same ID makes room for a new one.
StartOrAdopt(c) ==
  IF Live(c)
  THEN UNCHANGED execVars
  ELSE /\ exec' = [exec EXCEPT ![c] = "working"]
       /\ starts' = [starts EXCEPT ![c] = @ + 1]
       /\ told' = [told EXCEPT ![c] = FALSE]
       /\ UNCHANGED achieved

\* Mutant: a closed execution without a result counts as done.
TakeCrashForDone(c) ==
  IF exec[c] \in {"succeeded", "crashed"} THEN {"done"} ELSE {"working"}

\* What describe_* may answer.  A manual final-QA or render workflow whose
\* activity raised has no result to show; a reference workflow the cluster
\* cancelled still shows the last status it had; and a query a workflow does not
\* define is rejected: a shot started by a remediation is asked for a render.
Observations(c) ==
  CASE Kind[c] = "shot_remediation"                       -> {"rejected"}
    [] exec[c] = "succeeded"                              -> {"done"}
    [] exec[c] = "failed"                                 -> {"failed"}
    [] exec[c] = "review"                                 -> {"review"}
    [] exec[c] = "cancelled" /\ Kind[c] = "shot"          -> {"failed"}
    [] exec[c] \in {"stopping", "cancelled"} /\ Kind[c] = "references"
                                    -> {"working"} \cup (achieved[c] \cap {"review"})
    [] OTHER                                              -> {"working"}

Observation == {"none", "rejected", "done", "failed", "review", "working"}

-----------------------------------------------------------------------------
(* The sessions of the dispatcher. *)

PC == {"scan", "claim", "prepare", "mark", "dispatch", "record", "to_running",
       "fail_retry", "fail_final", "defer",
       "to_pending", "to_failed", "to_deferred", "to_exhausted",
       "cancel_scan", "cancel_rpc", "cancel_row",
       "settle_scan", "observe", "settle", "dead"}

Copy == [status: Status \cup {"expired"}, fresh: BOOLEAN]

ExpiredCopy == [status |-> "expired", fresh |-> FALSE]

Load(c) == [status |-> row[c].status, fresh |-> TRUE]

NoCopies == [c \in Command |-> ExpiredCopy]

CopiesOf(S) == [c \in Command |-> IF c \in S THEN Load(c) ELSE ExpiredCopy]

Stale(k) == [status |-> k.status, fresh |-> FALSE]

\* A write moves the row version on: the writer's copy is expired, and whoever
\* else read the row before has lost.
Outdate(writer, c) ==
  [r \in Replica |->
     [copy[r] EXCEPT ![c] = IF r = writer THEN ExpiredCopy ELSE Stale(copy[r][c])]]

Unlocked(r) == [c \in Command |-> IF lock[c] = r THEN None ELSE lock[c]]

\* One guarded UPDATE of c through r's copy, committed with its transaction.
\* `Rollback' and `Commit' both end the transaction and release its locks.
Commit(r, c, new) ==
  /\ row' = [row EXCEPT ![c] = new]
  /\ lock' = Unlocked(r)
  /\ copy' = Outdate(r, c)
  /\ req' = [req EXCEPT ![c].fresh = FALSE]

NoWrite == UNCHANGED <<row, lock, copy, req>>

Rollback(r) ==
  /\ lock' = Unlocked(r)
  /\ copy' = [copy EXCEPT ![r] = NoCopies]
  /\ UNCHANGED <<row, req>>

Goto(r, label) == pc' = [pc EXCEPT ![r] = label]

\* The loop over the claimed batch goes on, or the pass moves to cancellations.
NextCommand(r) ==
  /\ cur' = [cur EXCEPT ![r] = None]
  /\ Goto(r, IF batch[r] = {} THEN "cancel_scan" ELSE "claim")

\* An exception nothing catches ends the process; so does a kill.
Die(r) ==
  /\ Goto(r, "dead")
  /\ cur' = [cur EXCEPT ![r] = None]
  /\ batch' = [batch EXCEPT ![r] = {}]
  /\ seen' = [seen EXCEPT ![r] = "none"]
  /\ Rollback(r)

-----------------------------------------------------------------------------
(* run_once: claim and dispatch. *)

IsClaimable(c) ==
  /\ row[c].status \in Claimable
  /\ row[c].attempt < row[c].maxAttempts
  /\ IF row[c].status = "pending" THEN row[c].due ELSE row[c].lease = "expired"

Scan(r) ==
  /\ pc[r] = "scan"
  /\ LET found == {c \in Command : IsClaimable(c) /\ lock[c] = None}
     IN  /\ batch' = [batch EXCEPT ![r] = found]
         /\ copy' = [copy EXCEPT ![r] = CopiesOf(found)]
         /\ Goto(r, IF found = {} THEN "cancel_scan" ELSE "claim")
  /\ UNCHANGED <<rowVars, execVars, cur, seen, req, requests, crashes>>

\* Mutant: an UPDATE without the row version in its WHERE clause.
TrustStaleCopy(r, c) == TRUE

\* The row version is the only guard: an expired copy reads the current one.
HoldsVersion(r, c) == copy[r][c].status = "expired" \/ copy[r][c].fresh

Claim(r, c) ==
  /\ pc[r] = "claim"
  /\ c \in batch[r]
  /\ HoldsVersion(r, c) => lock[c] = None
  /\ batch' = [batch EXCEPT ![r] = @ \ {c}]
  /\ IF /\ HoldsVersion(r, c)
        /\ row[c].status \in Claimable
        /\ row[c].attempt < row[c].maxAttempts
     THEN /\ Commit(r, c, [row[c] EXCEPT !.status = "claimed", !.owner = r,
                             !.lease = "live", !.attempt = @ + 1])
          /\ cur' = [cur EXCEPT ![r] = c]
          /\ Goto(r, "prepare")
     ELSE /\ NoWrite
          /\ cur' = [cur EXCEPT ![r] = None]
          /\ Goto(r, IF batch[r] = {c} THEN "cancel_scan" ELSE "claim")
  /\ UNCHANGED <<execVars, seen, requests, crashes>>

\* _transition reads the row's status before it builds its UPDATE.  A status
\* that forbids the target raises, and nothing around mark_dispatching catches.
Prepare(r) ==
  /\ pc[r] = "prepare"
  /\ IF "dispatching" \in Allowed(row[cur[r]].status)
     THEN /\ copy' = [copy EXCEPT ![r][cur[r]] = Load(cur[r])]
          /\ Goto(r, "mark")
          /\ UNCHANGED <<row, lock, req, cur, batch, seen>>
     ELSE Die(r)
  /\ UNCHANGED <<execVars, requests, crashes>>

\* Mutant: mark_dispatching commits before the workflow is started.
CommitDispatching(r) ==
  /\ pc[r] = "mark"
  /\ IF copy[r][cur[r]].fresh
     THEN Commit(r, cur[r], [row[cur[r]] EXCEPT !.status = "dispatching"])
     ELSE NoWrite
  /\ Goto(r, "dispatch")
  /\ UNCHANGED <<execVars, cur, batch, seen, requests, crashes>>

\* The UPDATE takes the row's lock; losing it is not noticed by the caller.
MarkDispatching(r) ==
  /\ pc[r] = "mark"
  /\ LET c == cur[r]
     IN  /\ copy[r][c].fresh => lock[c] = None
         /\ lock' = IF copy[r][c].fresh THEN [lock EXCEPT ![c] = r] ELSE lock
         /\ copy' = [copy EXCEPT ![r][c] = ExpiredCopy]
  /\ Goto(r, "dispatch")
  /\ UNCHANGED <<row, execVars, cur, batch, seen, req, requests, crashes>>

\* Mutant: the command is recorded running before its workflow is started.
RecordBeforeStart(r) ==
  /\ pc[r] = "dispatch"
  /\ Goto(r, "record")
  /\ UNCHANGED <<rowVars, execVars, cur, batch, copy, seen, req, requests, crashes>>

\* dispatch() succeeds: the handler started, or adopted, the workflow.
StartWorkflow(r) ==
  /\ pc[r] = "dispatch"
  /\ StartOrAdopt(cur[r])
  /\ Goto(r, "record")
  /\ UNCHANGED <<rowVars, cur, batch, copy, seen, req, requests, crashes>>

\* DispatchFailure: ownership, lineage or an approval nobody could take refuses
\* the command, for good unless the failure says it is retryable.
Refuse(r) ==
  /\ pc[r] = "dispatch"
  /\ Rollback(r)
  /\ \E handler \in {"fail_final", "fail_retry"} : Goto(r, handler)
  /\ UNCHANGED <<execVars, cur, batch, seen, requests, crashes>>

\* The cluster did not answer, or something else raised: in both cases the
\* start may already have been accepted.
DispatchRaises(r, handler) ==
  /\ pc[r] = "dispatch"
  /\ StartOrAdopt(cur[r]) \/ UNCHANGED execVars
  /\ Rollback(r)
  /\ Goto(r, handler)
  /\ UNCHANGED <<cur, batch, seen, requests, crashes>>

Unreachable(r) == DispatchRaises(r, "defer")

DispatchError(r) == DispatchRaises(r, "fail_retry")

\* Mutant: the deferral budget is compared before this deferral is counted in.
DeferOnceTooOften(r) ==
  LET c == cur[r]
  IN  IF pc[r] = "defer"
      THEN IF row[c].deferrals > MaxDeferrals THEN "to_exhausted" ELSE "to_deferred"
      ELSE "to_failed"

\* repository.get after the rollback; fail and defer choose their target here.
ReleaseTarget(r) ==
  LET c == cur[r]
  IN  CASE pc[r] = "defer" ->
             IF row[c].deferrals + 1 > MaxDeferrals THEN "to_exhausted" ELSE "to_deferred"
        [] pc[r] = "fail_retry" ->
             IF row[c].attempt < row[c].maxAttempts THEN "to_pending" ELSE "to_failed"
        [] OTHER -> "to_failed"

ReleasedStatus(label) ==
  IF label \in {"to_pending", "to_deferred"} THEN "pending" ELSE "failed"

ReadForRelease(r) ==
  /\ pc[r] \in {"fail_retry", "fail_final", "defer"}
  /\ LET c == cur[r]
         target == ReleasedStatus(ReleaseTarget(r))
     IN  \/ /\ target \in Allowed(row[c].status)
            /\ copy' = [copy EXCEPT ![r][c] = Load(c)]
            /\ Goto(r, ReleaseTarget(r))
            /\ UNCHANGED <<row, lock, req, cur, batch, seen>>
         \/ /\ target = row[c].status
            /\ NextCommand(r)
            /\ NoWrite
            /\ UNCHANGED <<batch, seen>>
         \/ /\ target \notin Allowed(row[c].status) \cup {row[c].status}
            /\ Die(r)
  /\ UNCHANGED <<execVars, requests, crashes>>

\* Mutant: a deferral is not counted.
DeferForFree(c, label) ==
  LET free == [row[c] EXCEPT !.owner = None, !.lease = "none"]
  IN  CASE label = "to_deferred" -> [free EXCEPT !.status = "pending", !.due = FALSE,
                                       !.attempt = IF @ = 0 THEN 0 ELSE @ - 1]
        [] label = "to_pending"  -> [free EXCEPT !.status = "pending", !.due = FALSE]
        [] OTHER                 -> [free EXCEPT !.status = "failed"]

\* fail: back to pending on a backoff below the attempt bound, terminal at it.
\* defer: the attempt is handed back and the wait has a budget of its own.
Released(c, label) ==
  LET free == [row[c] EXCEPT !.owner = None, !.lease = "none"]
      back == IF row[c].attempt = 0 THEN 0 ELSE row[c].attempt - 1
  IN  CASE label = "to_pending"  -> [free EXCEPT !.status = "pending", !.due = FALSE]
        [] label = "to_failed"   -> [free EXCEPT !.status = "failed"]
        [] label = "to_deferred" -> [free EXCEPT !.status = "pending", !.due = FALSE,
                                       !.attempt = back, !.deferrals = @ + 1]
        [] OTHER                 -> [free EXCEPT !.status = "failed", !.attempt = back]

Release(r) ==
  /\ pc[r] \in {"to_pending", "to_failed", "to_deferred", "to_exhausted"}
  /\ LET c == cur[r]
     IN  IF copy[r][c].fresh
         THEN lock[c] = None /\ Commit(r, c, Released(c, pc[r]))
         ELSE NoWrite
  /\ NextCommand(r)
  /\ UNCHANGED <<execVars, batch, seen, requests, crashes>>

\* mark_running reads the status its own transaction wrote, if it wrote one.
VisibleStatus(r, c) == IF lock[c] = r THEN "dispatching" ELSE row[c].status

ReadForRunning(r) ==
  /\ pc[r] = "record"
  /\ LET c == cur[r]
         s == VisibleStatus(r, c)
     IN  \/ /\ "running" \in Allowed(s)
            /\ copy' = [copy EXCEPT ![r][c] = Load(c)]
            /\ Goto(r, "to_running")
            /\ UNCHANGED <<row, lock, req, cur, batch, seen>>
         \/ /\ s = "running"
            /\ NextCommand(r)
            /\ NoWrite
            /\ UNCHANGED <<batch, seen>>
         \/ /\ "running" \notin Allowed(s) \cup {s}
            /\ Die(r)
  /\ UNCHANGED <<execVars, requests, crashes>>

MarkedRunning(c) ==
  [row[c] EXCEPT !.status = "running", !.workflow = TRUE, !.deferrals = 0]

MarkRunning(r) ==
  /\ pc[r] = "to_running"
  /\ LET c == cur[r]
     IN  IF copy[r][c].fresh
         THEN lock[c] \in {None, r} /\ Commit(r, c, MarkedRunning(c))
         ELSE NoWrite
  /\ NextCommand(r)
  /\ UNCHANGED <<execVars, batch, seen, requests, crashes>>

-----------------------------------------------------------------------------
(* honour_cancellations: one transaction over every requested row. *)

ScanCancellations(r) ==
  /\ pc[r] = "cancel_scan"
  /\ LET found == {c \in Command : /\ row[c].cancelRequested > 0
                                   /\ row[c].status \in DispatchedOrStarting}
     IN  /\ batch' = [batch EXCEPT ![r] = found]
         /\ copy' = [copy EXCEPT ![r] = CopiesOf(found)]
         /\ Goto(r, IF found = {} THEN "settle_scan" ELSE "cancel_rpc")
  /\ UNCHANGED <<rowVars, execVars, cur, seen, req, requests, crashes>>

\* The rows are taken in the order of the requests, by every replica.
NextCancellation(r, c) ==
  /\ c \in batch[r]
  /\ \A d \in batch[r] : row[c].cancelRequested <= row[d].cancelRequested

\* cancel_workflow: NOT_FOUND also counts as told, there is nothing to stop.
CancelWorkflow(r, c) ==
  /\ pc[r] = "cancel_rpc"
  /\ NextCancellation(r, c)
  /\ batch' = [batch EXCEPT ![r] = @ \ {c}]
  /\ exec' = IF Live(c) THEN [exec EXCEPT ![c] = "stopping"] ELSE exec
  /\ told' = [told EXCEPT ![c] = TRUE]
  /\ cur' = [cur EXCEPT ![r] = c]
  /\ Goto(r, "cancel_row")
  /\ UNCHANGED <<rowVars, starts, achieved, copy, seen, req, requests, crashes>>

\* Mutant: a cluster that could not be reached counts as told.
SwallowUnreachable(r, c) ==
  /\ pc[r] = "cancel_rpc"
  /\ NextCancellation(r, c)
  /\ batch' = [batch EXCEPT ![r] = @ \ {c}]
  /\ cur' = [cur EXCEPT ![r] = c]
  /\ Goto(r, "cancel_row")
  /\ UNCHANGED <<rowVars, execVars, copy, seen, req, requests, crashes>>

\* The cluster could not be reached: the request stands for the next pass.
CancelUnreachable(r, c) ==
  /\ pc[r] = "cancel_rpc"
  /\ NextCancellation(r, c)
  /\ batch' = [batch EXCEPT ![r] = @ \ {c}]
  /\ UNCHANGED <<rowVars, execVars, pc, cur, copy, seen, req, requests, crashes>>

CancelRow(r) ==
  /\ pc[r] = "cancel_row"
  /\ LET c == cur[r]
     IN  /\ copy[r][c].fresh => lock[c] = None
         /\ lock' = IF copy[r][c].fresh THEN [lock EXCEPT ![c] = r] ELSE lock
         /\ copy' = [copy EXCEPT ![r][c] = ExpiredCopy]
  /\ cur' = [cur EXCEPT ![r] = None]
  /\ Goto(r, "cancel_rpc")
  /\ UNCHANGED <<row, execVars, batch, seen, req, requests, crashes>>

Cancelled(c) ==
  [row[c] EXCEPT !.status = "cancelled", !.owner = None, !.lease = "none"]

\* The one commit: every row the pass cancelled becomes visible at once.
CommitCancellations(r) ==
  /\ pc[r] = "cancel_rpc"
  /\ batch[r] = {}
  /\ row' = [c \in Command |-> IF lock[c] = r THEN Cancelled(c) ELSE row[c]]
  /\ copy' = [s \in Replica |-> IF s = r THEN NoCopies ELSE
                [c \in Command |-> IF lock[c] = r THEN Stale(copy[s][c]) ELSE copy[s][c]]]
  /\ req' = [c \in Command |-> IF lock[c] = r THEN [req[c] EXCEPT !.fresh = FALSE]
                                             ELSE req[c]]
  /\ lock' = Unlocked(r)
  /\ Goto(r, "settle_scan")
  /\ UNCHANGED <<execVars, cur, batch, seen, requests, crashes>>

-----------------------------------------------------------------------------
(* settle_running: each command in its own transaction, all read up front. *)

ScanRunning(r) ==
  /\ pc[r] = "settle_scan"
  /\ LET found == {c \in Command : row[c].status \in Settleable}
     IN  /\ batch' = [batch EXCEPT ![r] = found]
         /\ copy' = [copy EXCEPT ![r] = CopiesOf(found)]
         /\ Goto(r, IF found = {} THEN "scan" ELSE "observe")
  /\ UNCHANGED <<rowVars, execVars, cur, seen, req, requests, crashes>>

Observe(r, c) ==
  /\ pc[r] = "observe"
  /\ c \in batch[r]
  /\ batch' = [batch EXCEPT ![r] = @ \ {c}]
  /\ cur' = [cur EXCEPT ![r] = c]
  /\ \E answer \in Observations(c) \ {"rejected"} : seen' = [seen EXCEPT ![r] = answer]
  /\ Goto(r, "settle")
  /\ UNCHANGED <<rowVars, execVars, copy, req, requests, crashes>>

\* WorkflowControlUnavailable, or a rejected query: caught, rolled back, and
\* with the rollback every copy of the pass expires.
ObserveFails(r, c) ==
  /\ pc[r] = "observe"
  /\ c \in batch[r]
  /\ batch' = [batch EXCEPT ![r] = @ \ {c}]
  /\ Rollback(r)
  /\ UNCHANGED <<execVars, pc, cur, seen, requests, crashes>>

\* Where one observation takes a command that was read in status s.
SettleTarget(c, s, observation) ==
  CASE observation = "done"   -> "completed"
    [] observation = "failed" -> "failed"
    [] observation = "review" -> "awaiting_review"
    [] observation = "working" /\ Kind[c] = "references" /\ s = "awaiting_review" -> "running"
    [] OTHER -> s

Settled(c, target) ==
  CASE target \in {"completed", "failed"} ->
         [row[c] EXCEPT !.status = target, !.owner = None, !.lease = "none"]
    [] target = "running" -> MarkedRunning(c)
    [] OTHER -> [row[c] EXCEPT !.status = target]

Settle(r) ==
  /\ pc[r] = "settle"
  /\ LET c == cur[r]
         s == IF copy[r][c].status = "expired" THEN row[c].status ELSE copy[r][c].status
         target == SettleTarget(c, s, seen[r])
     IN  \/ /\ target \notin Allowed(s) \cup {s}
            /\ Rollback(r)
         \/ /\ target \in Allowed(s)
            /\ HoldsVersion(r, c)
            /\ lock[c] = None
            /\ Commit(r, c, Settled(c, target))
         \/ /\ target = s \/ (target \in Allowed(s) /\ ~HoldsVersion(r, c))
            /\ NoWrite
  /\ cur' = [cur EXCEPT ![r] = None]
  /\ seen' = [seen EXCEPT ![r] = "none"]
  /\ Goto(r, "observe")
  /\ UNCHANGED <<execVars, batch, requests, crashes>>

EndPass(r) ==
  /\ pc[r] = "observe"
  /\ batch[r] = {}
  /\ copy' = [copy EXCEPT ![r] = NoCopies]
  /\ Goto(r, "scan")
  /\ UNCHANGED <<rowVars, execVars, cur, batch, seen, req, requests, crashes>>

-----------------------------------------------------------------------------
(* Kills and restarts, and time. *)

Kill(r) ==
  /\ pc[r] # "dead"
  /\ crashes < MaxCrashes
  /\ crashes' = crashes + 1
  /\ Die(r)
  /\ UNCHANGED <<execVars, requests>>

Restart(r) ==
  /\ pc[r] = "dead"
  /\ Goto(r, "scan")
  /\ UNCHANGED <<rowVars, execVars, cur, batch, copy, seen, req, requests, crashes>>

\* Only a claim's lease is ever read again; the row is not written.
LeaseExpires(c) ==
  /\ row[c].status = "claimed"
  /\ row[c].lease = "live"
  /\ row' = [row EXCEPT ![c].lease = "expired"]
  /\ UNCHANGED <<lock, execVars, procVars, req, requests, crashes>>

BackoffEnds(c) ==
  /\ row[c].status = "pending"
  /\ ~row[c].due
  /\ row' = [row EXCEPT ![c].due = TRUE]
  /\ UNCHANGED <<lock, execVars, procVars, req, requests, crashes>>

-----------------------------------------------------------------------------
(* The owner: cancel and retry read the row, then write through its version. *)

\* rank orders the requests, as cancel_requested_at does; bound is the
\* max_attempts a retry will write, 0 when the bound is not spent.  The model
\* lets one request of a command be in flight at a time.
Request == [op: {"none", "cancel", "retry"}, status: Status, fresh: BOOLEAN,
            rank: Nat, bound: Nat]

NoRequest ==
  [op |-> "none", status |-> "pending", fresh |-> FALSE, rank |-> 0, bound |-> 0]

Asked(c, op, bound) ==
  [op |-> op, status |-> row[c].status, fresh |-> TRUE, rank |-> requests + 1, bound |-> bound]

Ask(c, op, bound) ==
  /\ req[c].op = "none"
  /\ requests < MaxRequests
  /\ req' = [req EXCEPT ![c] = Asked(c, op, bound)]
  /\ requests' = requests + 1
  /\ UNCHANGED <<rowVars, execVars, procVars, crashes>>

\* Mutant: cancel() does not look whether the command has finished.
CancelFinishedToo(c) == Ask(c, "cancel", 0)

AskCancel(c) == row[c].status \notin Terminal /\ Ask(c, "cancel", 0)

\* requeue: one more attempt if the bound is spent.
AskRetry(c) ==
  /\ row[c].status = "failed"
  /\ Ask(c, "retry",
         IF row[c].attempt >= row[c].maxAttempts THEN row[c].maxAttempts + 1 ELSE 0)

\* A dispatched command is only asked to stop; anything earlier is cancelled
\* here and now.
OwnerCancelled(c) ==
  IF req[c].status \in DispatchedOrStarting
  THEN [row[c] EXCEPT !.cancelRequested = req[c].rank]
  ELSE Cancelled(c)

Rebounded(c) ==
  [row[c] EXCEPT !.maxAttempts = IF req[c].bound > 0 THEN req[c].bound ELSE @]

\* Both budgets start over.
Requeued(c) ==
  [Rebounded(c) EXCEPT !.status = "pending", !.due = TRUE, !.owner = None, !.lease = "none",
                       !.deferrals = 0]

OwnerWrites(c, new) ==
  /\ lock[c] = None
  /\ row' = [row EXCEPT ![c] = new]
  /\ copy' = Outdate(None, c)

AnswerRequest(c, op) ==
  /\ req[c].op = op
  /\ req' = [req EXCEPT ![c] = NoRequest]
  /\ UNCHANGED <<lock, execVars, pc, cur, batch, seen, requests, crashes>>

\* request_cancellation writes nothing when a cancellation is already pending.
OwnerCancel(c) ==
  /\ AnswerRequest(c, "cancel")
  /\ IF req[c].fresh /\ (req[c].status \in Settleable => row[c].cancelRequested = 0)
     THEN OwnerWrites(c, OwnerCancelled(c))
     ELSE UNCHANGED <<row, copy>>

\* max_attempts is flushed before the guarded UPDATE and without its guard: it
\* is written even when the retry itself comes too late.
OwnerRetry(c) ==
  /\ AnswerRequest(c, "retry")
  /\ IF req[c].fresh
     THEN OwnerWrites(c, Requeued(c))
     ELSE /\ req[c].bound > 0 => lock[c] = None
          /\ row' = [row EXCEPT ![c] = Rebounded(c)]
          /\ UNCHANGED copy

-----------------------------------------------------------------------------
(* The cluster and its workers: what an execution may do on its own. *)

ExecStep(c, from, to) ==
  /\ exec[c] \in from
  /\ exec' = [exec EXCEPT ![c] = to]
  /\ achieved' = [achieved EXCEPT ![c] = @ \cup {to}]
  /\ UNCHANGED <<rowVars, starts, told, procVars, req, requests, crashes>>

\* references await an approval, a shot returns for review
ReachReview(c) == Kind[c] \in {"references", "shot"} /\ ExecStep(c, {"working"}, "review")

\* the approval signal: binding resumes
Approve(c) == Kind[c] = "references" /\ ExecStep(c, {"review"}, "binding")

Succeed(c) == ExecStep(c, {"working", "binding", "stopping"}, "succeeded")

\* a failure the workflow returns as its result
ReportFailure(c) == Kind[c] # "final_qa" /\ ExecStep(c, {"working", "binding"}, "failed")

\* an activity raised past its retries: the execution is closed, its query
\* still shows the last state it had
CrashExecution(c) == ExecStep(c, {"working", "binding"}, "crashed")

StopExecution(c) == ExecStep(c, {"stopping"}, "cancelled")

-----------------------------------------------------------------------------
Init ==
  /\ row = [c \in Command |-> NewRow]
  /\ lock = [c \in Command |-> None]
  /\ exec = [c \in Command |-> "none"]
  /\ starts = [c \in Command |-> 0]
  /\ achieved = [c \in Command |-> {}]
  /\ told = [c \in Command |-> FALSE]
  /\ pc = [r \in Replica |-> "scan"]
  /\ cur = [r \in Replica |-> None]
  /\ batch = [r \in Replica |-> {}]
  /\ copy = [r \in Replica |-> NoCopies]
  /\ seen = [r \in Replica |-> "none"]
  /\ req = [c \in Command |-> NoRequest]
  /\ requests = 0
  /\ crashes = 0

Dispatch(r) ==
  \/ Scan(r)
  \/ \E c \in Command : Claim(r, c)
  \/ Prepare(r)
  \/ MarkDispatching(r)
  \/ StartWorkflow(r)
  \/ Refuse(r)
  \/ Unreachable(r)
  \/ DispatchError(r)
  \/ ReadForRelease(r)
  \/ Release(r)
  \/ ReadForRunning(r)
  \/ MarkRunning(r)

HonourCancellations(r) ==
  \/ ScanCancellations(r)
  \/ \E c \in Command : CancelWorkflow(r, c) \/ CancelUnreachable(r, c)
  \/ CancelRow(r)
  \/ CommitCancellations(r)

SettleRunning(r) ==
  \/ ScanRunning(r)
  \/ \E c \in Command : Observe(r, c) \/ ObserveFails(r, c)
  \/ Settle(r)
  \/ EndPass(r)

RunOnce(r) == Dispatch(r) \/ HonourCancellations(r) \/ SettleRunning(r)

Owner(c) == AskCancel(c) \/ AskRetry(c) \/ OwnerCancel(c) \/ OwnerRetry(c)

Cluster(c) ==
  \/ ReachReview(c)
  \/ Approve(c)
  \/ Succeed(c)
  \/ ReportFailure(c)
  \/ CrashExecution(c)
  \/ StopExecution(c)

Clock(c) == LeaseExpires(c) \/ BackoffEnds(c)

Next ==
  \/ \E r \in Replica : RunOnce(r) \/ Kill(r) \/ Restart(r)
  \/ \E c \in Command : Owner(c) \/ Cluster(c) \/ Clock(c)

Spec == Init /\ [][Next]_vars

-----------------------------------------------------------------------------
(* Fairness: replicas keep polling and are restarted, the clock advances, an  *)
(* RPC that is tried for ever is answered in the end, and activity timeouts   *)
(* and bounded retries end every execution.                                   *)

ExecutionEnds(c) ==
  ReachReview(c) \/ Succeed(c) \/ ReportFailure(c) \/ CrashExecution(c)

Fairness ==
  /\ \A r \in Replica :
       /\ WF_vars(RunOnce(r))
       /\ WF_vars(Restart(r))
       /\ \A c \in Command : SF_vars(CancelWorkflow(r, c)) /\ SF_vars(Observe(r, c))
  /\ \A c \in Command : WF_vars(Clock(c)) /\ WF_vars(ExecutionEnds(c))

FairSpec == Spec /\ Fairness

-----------------------------------------------------------------------------
(* Properties. *)

\* Every variable has its type; a row's status is a committed one, so
\* `dispatching' never appears outside the transaction that wrote it.
TypeOK ==
  /\ row \in [Command -> Row]
  /\ \A c \in Command : row[c].status # "dispatching"
  /\ lock \in [Command -> Replica \cup {None}]
  /\ exec \in [Command -> ExecState]
  /\ starts \in [Command -> Nat]
  /\ achieved \in [Command -> SUBSET ExecState]
  /\ told \in [Command -> BOOLEAN]
  /\ pc \in [Replica -> PC]
  /\ cur \in [Replica -> Command \cup {None}]
  /\ batch \in [Replica -> SUBSET Command]
  /\ copy \in [Replica -> [Command -> Copy]]
  /\ seen \in [Replica -> Observation]
  /\ req \in [Command -> Request]
  /\ requests \in Nat
  /\ crashes \in Nat

\* A command is reported running, under review or completed only behind the
\* recorded identity of an execution that was really started (mark_running is
\* the only way there, and comes after the start).
DispatchedNamesWorkflow ==
  \A c \in Command :
    row[c].status \in Dispatched => row[c].workflow /\ starts[c] > 0

\* However claims, refunds, stolen leases and owner retries interleave, neither
\* budget of a command is ever overspent.
BudgetsBounded ==
  \A c \in Command :
    row[c].attempt <= row[c].maxAttempts /\ row[c].deferrals <= MaxDeferrals

\* settle_running never claims more than an execution achieved: completed
\* needs one that succeeded, a review prompt one that asked for a review.
StatusIsEarned ==
  \A c \in Command :
    /\ row[c].status = "completed" => "succeeded" \in achieved[c]
    /\ row[c].status = "awaiting_review" => "review" \in achieved[c]

\* No stale copy, late start or late observation brings back a command that
\* was completed or cancelled.
FinishedStays ==
  [][\A c \in Command :
       row[c].status \in Terminal \ {"failed"} => row'[c].status = row[c].status]_vars

\* A failed command goes back to the queue for its owner's retry and for
\* nothing else.
FailedNeedsRetry ==
  [][\A c \in Command :
       row[c].status = "failed" /\ row'[c].status # "failed" =>
         /\ row'[c].status = "pending"
         /\ req[c].op = "retry"
         /\ req'[c].op = "none"]_vars

\* A dispatched command reads `cancelled' only once the cluster was told to
\* stop the execution behind it, or that execution is over.
CancelledAfterTold ==
  [][\A c \in Command :
       row[c].status \in Settleable /\ row'[c].status = "cancelled" =>
         (Live(c) => told[c])]_vars

\* An owner's cancellation of a dispatched command is carried out, or the
\* command finished first.
CancellationHonoured ==
  \A c \in Command :
    row[c].status \in Settleable /\ row[c].cancelRequested > 0 ~>
      row[c].status \in Terminal

ClaimAbandoned(c) == row[c].status = "claimed" /\ row[c].lease = "expired"

Stranded(c) == ClaimAbandoned(c) /\ row[c].attempt >= row[c].maxAttempts

\* A claim whose replica is gone is recovered once its lease expires, as long as
\* the command has an attempt left to be claimed with.
ClaimRecoveredWithinBound ==
  \A c \in Command : ClaimAbandoned(c) ~> ~ClaimAbandoned(c) \/ Stranded(c)

\* A queued command does not wait for ever, whatever outage meets it: it is
\* dispatched, or fails, or is cancelled, unless its replica was killed during
\* its last attempt.
QueueMoves ==
  \A c \in Command : row[c].status = "pending" ~>
    row[c].status \in Settleable \cup Terminal \/ Stranded(c)

\* A dispatched command finishes or asks for a review, unless the execution
\* behind it closed without leaving a result.
SettlesUnlessCrashed ==
  \A c \in Command : row[c].status = "running" ~>
    row[c].status \in Terminal \cup {"awaiting_review"} \/ exec[c] = "crashed"

\* No command waits for ever, in whatever phase an outage, a full queue or a dead
\* replica meets it.
CommandMoves == QueueMoves /\ ClaimRecoveredWithinBound /\ SettlesUnlessCrashed

-----------------------------------------------------------------------------
\* The instances TLC checks: every command builds references, or one makes a shot
\* and the others are the final check; replicas are interchangeable.
References == [c \in Command |-> "references"]

MixedKinds ==
  LET one == CHOOSE c \in Command : TRUE
  IN  [c \in Command |-> IF c = one THEN "shot" ELSE "final_qa"]

LOCAL INSTANCE TLC

ReplicaSymmetry == Permutations(Replica)
=============================================================================
