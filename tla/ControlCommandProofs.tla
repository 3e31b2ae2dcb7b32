------------------------ MODULE ControlCommandProofs ------------------------
(***************************************************************************)
(* Theorems about ControlCommand, for every set of commands and replicas,  *)
(* every kind, and every value of the budgets and of the bounds; the last  *)
(* section is about a dispatcher that is alone.                            *)
(***************************************************************************)
EXTENDS ControlCommand, TLAPS

-----------------------------------------------------------------------------
(* The inductive invariant, one named part per idea. *)

\* Optimistic locking works: a copy that is still fresh shows the row's status.
CopiesAreCurrent(r) ==
  \A c \in Command : copy[r][c].fresh => copy[r][c].status = row[c].status

\* The open transaction that has updated a row belongs to a replica that is
\* dispatching that row or cancelling it.
HoldsItsLocks(r) ==
  \A c \in Command : lock[c] = r =>
    \/ /\ pc[r] \in {"dispatch", "record", "to_running"}
       /\ cur[r] = c
       /\ row[c].status = "claimed"
    \/ /\ pc[r] \in {"cancel_rpc", "cancel_row"}
       /\ row[c].status \in Settleable

\* The steps at which a replica works on its current command.
Working == {"prepare", "mark", "dispatch", "record", "to_running",
            "fail_retry", "fail_final", "defer",
            "to_pending", "to_failed", "to_deferred", "to_exhausted",
            "cancel_row", "settle"}

Releasing == {"to_pending", "to_failed", "to_deferred", "to_exhausted"}

\* A replica about to write through a fresh copy has checked the status graph.
CopyAllows(r) ==
  LET c == cur[r]
  IN  /\ pc[r] \in Working => c \in Command
      /\ pc[r] = "mark" /\ copy[r][c].fresh => row[c].status = "claimed"
      /\ pc[r] \in Releasing /\ copy[r][c].fresh =>
           ReleasedStatus(pc[r]) \in Allowed(row[c].status)
      /\ pc[r] = "to_deferred" /\ copy[r][c].fresh => row[c].deferrals < MaxDeferrals
      /\ pc[r] = "to_running" /\ copy[r][c].fresh =>
           row[c].status \in {"claimed", "awaiting_review"}
      /\ pc[r] = "to_running" /\ lock[c] = r => copy[r][c].fresh
      /\ pc[r] \in {"cancel_rpc", "cancel_row"} =>
           \A d \in Command : copy[r][d].fresh => row[d].status \in Settleable

\* What a replica carries from one statement to the next really happened.
EvidenceIsReal(r) ==
  /\ pc[r] \in {"record", "to_running"} => starts[cur[r]] > 0
  /\ pc[r] = "settle" /\ seen[r] = "done" => "succeeded" \in achieved[cur[r]]
  /\ pc[r] = "settle" /\ seen[r] = "review" => "review" \in achieved[cur[r]]

ReplicaIsSound(r) ==
  CopiesAreCurrent(r) /\ HoldsItsLocks(r) /\ CopyAllows(r) /\ EvidenceIsReal(r)

\* A request in flight was granted on a status that allows it.
RequestIsSound(c) ==
  /\ req[c].fresh => req[c].status = row[c].status
  /\ req[c].op = "cancel" => req[c].status \notin Terminal
  /\ req[c].op = "retry" => req[c].status = "failed"
  /\ req[c].bound > 0 => req[c].bound = row[c].maxAttempts + 1

HistoryIsSound ==
  \A c \in Command :
    /\ exec[c] \in {"succeeded", "review"} => exec[c] \in achieved[c]
    /\ exec[c] # "none" => starts[c] > 0

IInv ==
  /\ TypeOK
  /\ \A r \in Replica : ReplicaIsSound(r)
  /\ \A c \in Command : RequestIsSound(c)
  /\ HistoryIsSound
  /\ DispatchedNamesWorkflow
  /\ BudgetsBounded
  /\ StatusIsEarned

-----------------------------------------------------------------------------
(* Lemmas about the building blocks of the actions. *)

\* A replica that takes no step stays sound, as long as nothing it holds fresh
\* or has locked is written by somebody else.
LEMMA BystanderIsSound ==
  ASSUME NEW s \in Replica, TypeOK, ReplicaIsSound(s),
         pc'[s] = pc[s], cur'[s] = cur[s], seen'[s] = seen[s],
         \A c \in Command : /\ starts[c] > 0 => starts'[c] > 0
                            /\ achieved[c] \subseteq achieved'[c],
         \A c \in Command : copy'[s][c].fresh =>
           /\ copy[s][c].fresh
           /\ copy'[s][c].status = copy[s][c].status
           /\ row'[c].status = row[c].status
           /\ row'[c].deferrals = row[c].deferrals,
         \A c \in Command : lock'[c] = s =>
           /\ lock[c] = s
           /\ row'[c].status = row[c].status
           /\ copy[s][c].fresh => copy'[s][c].fresh
  PROVE  ReplicaIsSound(s)'
<1>1. CopiesAreCurrent(s)'
  BY DEF ReplicaIsSound, CopiesAreCurrent
<1>2. HoldsItsLocks(s)'
  BY DEF ReplicaIsSound, HoldsItsLocks
<1>3. CopyAllows(s)'
  BY DEF ReplicaIsSound, CopyAllows, Working, Releasing
<1>4. EvidenceIsReal(s)'
  BY DEF ReplicaIsSound, EvidenceIsReal, CopyAllows, Working
<1> QED BY <1>1, <1>2, <1>3, <1>4 DEF ReplicaIsSound

\* A row stays a row when one of its columns is set.
LEMMA RowColumns ==
  ASSUME NEW x \in Row
  PROVE  /\ \A v \in Status : [x EXCEPT !.status = v] \in Row
         /\ \A v \in Nat : [x EXCEPT !.attempt = v] \in Row
         /\ \A v \in Nat : [x EXCEPT !.maxAttempts = v] \in Row
         /\ \A v \in Nat : [x EXCEPT !.deferrals = v] \in Row
         /\ \A v \in Replica \cup {None} : [x EXCEPT !.owner = v] \in Row
         /\ \A v \in {"none", "live", "expired"} : [x EXCEPT !.lease = v] \in Row
         /\ \A v \in BOOLEAN : [x EXCEPT !.due = v] \in Row
         /\ \A v \in BOOLEAN : [x EXCEPT !.workflow = v] \in Row
         /\ \A v \in Nat : [x EXCEPT !.cancelRequested = v] \in Row
BY DEF Row

\* What the writes put in a row.
LEMMA ReleasedIsSound ==
  ASSUME TypeOK, BudgetsBounded, NEW c \in Command, NEW label \in Releasing,
         label = "to_deferred" => row[c].deferrals < MaxDeferrals
  PROVE  /\ Released(c, label) \in Row
         /\ Released(c, label).status = ReleasedStatus(label)
         /\ Released(c, label).status \in {"pending", "failed"}
         /\ Released(c, label).attempt <= Released(c, label).maxAttempts
         /\ Released(c, label).maxAttempts = row[c].maxAttempts
         /\ Released(c, label).deferrals <= MaxDeferrals
<1> DEFINE free == [row[c] EXCEPT !.owner = None, !.lease = "none"]
           back == IF row[c].attempt = 0 THEN 0 ELSE row[c].attempt - 1
<1>1. row[c] \in Row /\ row[c].attempt <= row[c].maxAttempts /\ row[c].deferrals <= MaxDeferrals
  BY DEF TypeOK, BudgetsBounded
<1>2. free \in Row /\ free.attempt = row[c].attempt /\ free.maxAttempts = row[c].maxAttempts
      /\ free.deferrals = row[c].deferrals
  <2>1. free \in Row BY <1>1, RowColumns
  <2> QED BY <1>1, <2>1 DEF Row
<1>3. back \in Nat /\ back <= row[c].maxAttempts /\ row[c].deferrals + 1 \in Nat
  BY <1>1 DEF Row
<1>4. {"pending", "failed"} \subseteq Status BY DEF Status
<1> HIDE DEF free, back
<1>5. CASE label = "to_pending"
  <2>1. Released(c, label) = [free EXCEPT !.status = "pending", !.due = FALSE]
    BY <1>5 DEF Released, free
  <2>2. [free EXCEPT !.status = "pending", !.due = FALSE] \in Row
    BY <1>2, <1>4, RowColumns
  <2> QED BY <1>1, <1>2, <1>5, <2>1, <2>2 DEF Row, ReleasedStatus
<1>6. CASE label = "to_failed"
  <2>1. Released(c, label) = [free EXCEPT !.status = "failed"]
    BY <1>6 DEF Released, free
  <2>2. [free EXCEPT !.status = "failed"] \in Row
    BY <1>2, <1>4, RowColumns
  <2> QED BY <1>1, <1>2, <1>6, <2>1, <2>2 DEF Row, ReleasedStatus
<1>7. CASE label = "to_deferred"
  <2> DEFINE new == [free EXCEPT !.status = "pending", !.due = FALSE,
                                 !.attempt = back, !.deferrals = free.deferrals + 1]
  <2>1. Released(c, label) = new
    BY <1>7 DEF Released, free, back
  <2>2. new \in Row
    BY <1>2, <1>3, <1>4, RowColumns
  <2>3. row[c].deferrals + 1 <= MaxDeferrals
    BY <1>1, <1>7, CommandAssumption DEF Row
  <2>4. /\ new.status = "pending" /\ new.attempt = back
        /\ new.maxAttempts = free.maxAttempts /\ new.deferrals = free.deferrals + 1
    BY <1>2 DEF Row
  <2> HIDE DEF new
  <2> QED BY <1>2, <1>3, <1>7, <2>1, <2>2, <2>3, <2>4 DEF ReleasedStatus
<1>8. CASE label = "to_exhausted"
  <2> DEFINE new == [free EXCEPT !.status = "failed", !.attempt = back]
  <2>1. Released(c, label) = new
    BY <1>8 DEF Released, free, back
  <2>2. new \in Row
    BY <1>2, <1>3, <1>4, RowColumns
  <2> QED BY <1>1, <1>2, <1>3, <1>8, <2>1, <2>2 DEF Row, ReleasedStatus
<1> QED BY <1>5, <1>6, <1>7, <1>8 DEF Releasing

LEMMA MarkedRunningIsSound ==
  ASSUME TypeOK, BudgetsBounded, NEW c \in Command
  PROVE  /\ MarkedRunning(c) \in Row
         /\ MarkedRunning(c).status = "running"
         /\ MarkedRunning(c).workflow
         /\ MarkedRunning(c).attempt <= MarkedRunning(c).maxAttempts
         /\ MarkedRunning(c).maxAttempts = row[c].maxAttempts
         /\ MarkedRunning(c).deferrals <= MaxDeferrals
<1>1. row[c] \in Row /\ row[c].attempt <= row[c].maxAttempts
  BY DEF TypeOK, BudgetsBounded
<1>2. MarkedRunning(c) \in Row
  BY <1>1, RowColumns DEF MarkedRunning, Status
<1> QED BY <1>1, <1>2, CommandAssumption DEF MarkedRunning, Row

\* A committed write changes one row, releases the writer's locks, and leaves
\* no fresh copy of that row anywhere.
LEMMA CommitEffect ==
  ASSUME TypeOK, NEW r \in Replica, NEW c \in Command, NEW new \in Row,
         Commit(r, c, new)
  PROVE  /\ row' \in [Command -> Row]
         /\ row'[c] = new
         /\ \A d \in Command : d # c => row'[d] = row[d]
         /\ lock' \in [Command -> Replica \cup {None}]
         /\ \A d \in Command : lock'[d] = IF lock[d] = r THEN None ELSE lock[d]
         /\ copy' \in [Replica -> [Command -> Copy]]
         /\ \A s \in Replica : ~copy'[s][c].fresh
         /\ \A s \in Replica, d \in Command : d # c => copy'[s][d] = copy[s][d]
         /\ req' \in [Command -> Request]
         /\ ~req'[c].fresh
         /\ req'[c].op = req[c].op /\ req'[c].status = req[c].status
      /\ req'[c].bound = req[c].bound
         /\ req'[c].bound = req[c].bound
         /\ \A d \in Command : d # c => req'[d] = req[d]
<1>1. /\ row' \in [Command -> Row]
      /\ row'[c] = new
      /\ \A d \in Command : d # c => row'[d] = row[d]
  BY DEF Commit, TypeOK
<1>2. /\ lock' \in [Command -> Replica \cup {None}]
      /\ \A d \in Command : lock'[d] = IF lock[d] = r THEN None ELSE lock[d]
  BY DEF Commit, TypeOK, Unlocked
<1>3. /\ copy' \in [Replica -> [Command -> Copy]]
      /\ \A s \in Replica : ~copy'[s][c].fresh
      /\ \A s \in Replica, d \in Command : d # c => copy'[s][d] = copy[s][d]
  BY DEF Commit, TypeOK, Outdate, Stale, ExpiredCopy, Copy
<1>4. /\ req' \in [Command -> Request]
      /\ ~req'[c].fresh
      /\ req'[c].op = req[c].op /\ req'[c].status = req[c].status
      /\ req'[c].bound = req[c].bound
      /\ \A d \in Command : d # c => req'[d] = req[d]
  BY DEF Commit, TypeOK, Request
<1> QED BY <1>1, <1>2, <1>3, <1>4

\* A rollback releases the locks of the replica and expires its copies.
LEMMA RollbackEffect ==
  ASSUME TypeOK, NEW r \in Replica, Rollback(r)
  PROVE  /\ row' = row /\ req' = req
         /\ lock' \in [Command -> Replica \cup {None}]
         /\ \A d \in Command : lock'[d] = IF lock[d] = r THEN None ELSE lock[d]
         /\ copy' \in [Replica -> [Command -> Copy]]
         /\ \A d \in Command : ~copy'[r][d].fresh
         /\ \A s \in Replica : s # r => copy'[s] = copy[s]
<1>1. /\ lock' \in [Command -> Replica \cup {None}]
      /\ \A d \in Command : lock'[d] = IF lock[d] = r THEN None ELSE lock[d]
  BY DEF Rollback, TypeOK, Unlocked
<1>2. /\ copy' \in [Replica -> [Command -> Copy]]
      /\ \A d \in Command : ~copy'[r][d].fresh
      /\ \A s \in Replica : s # r => copy'[s] = copy[s]
  BY DEF Rollback, TypeOK, NoCopies, ExpiredCopy, Copy
<1> QED BY <1>1, <1>2 DEF Rollback

\* Starting or adopting leaves the command with an execution, and forgets
\* nothing of its history.
LEMMA StartEffect ==
  ASSUME TypeOK, HistoryIsSound, NEW c \in Command, StartOrAdopt(c)
  PROVE  /\ exec' \in [Command -> ExecState]
         /\ starts' \in [Command -> Nat]
         /\ achieved' = achieved
         /\ told' \in [Command -> BOOLEAN]
         /\ \A d \in Command : starts[d] > 0 => starts'[d] > 0
         /\ HistoryIsSound'
<1>1. CASE Live(c)
  BY <1>1 DEF TypeOK, StartOrAdopt, execVars, HistoryIsSound
<1>2. CASE ~Live(c)
  <2>1. /\ exec' = [exec EXCEPT ![c] = "working"]
        /\ starts' = [starts EXCEPT ![c] = @ + 1]
        /\ told' = [told EXCEPT ![c] = FALSE]
        /\ achieved' = achieved
    BY <1>2 DEF StartOrAdopt
  <2>2. exec' \in [Command -> ExecState] /\ told' \in [Command -> BOOLEAN]
    BY <2>1 DEF TypeOK, ExecState
  <2>3. starts' \in [Command -> Nat] /\ \A d \in Command : starts[d] > 0 => starts'[d] > 0
    BY <2>1 DEF TypeOK
  <2>4. HistoryIsSound'
    BY <2>1 DEF TypeOK, HistoryIsSound
  <2> QED BY <2>1, <2>2, <2>3, <2>4
<1> QED BY <1>1, <1>2

\* The step of a replica that commits a write of one row.
LEMMA CommitStep ==
  ASSUME IInv, NEW r \in Replica, NEW c \in Command, NEW new \in Row, Commit(r, c, new),
         lock[c] \in {None, r},
         new.status # "dispatching",
         new.status \in Dispatched => new.workflow /\ starts[c] > 0,
         new.attempt <= new.maxAttempts,
         new.maxAttempts = row[c].maxAttempts,
         new.deferrals <= MaxDeferrals,
         new.status = "completed" => "succeeded" \in achieved[c],
         new.status = "awaiting_review" => "review" \in achieved[c],
         NEW label \in {"prepare", "claim", "cancel_scan", "observe"},
         pc' = [pc EXCEPT ![r] = label],
         NEW next \in Command \cup {None}, label = "prepare" => next \in Command,
         cur' = [cur EXCEPT ![r] = next],
         batch' \in [Replica -> SUBSET Command],
         seen' \in [Replica -> Observation],
         \A s \in Replica : s # r => seen'[s] = seen[s],
         UNCHANGED <<execVars, requests, crashes>>
  PROVE  IInv'
<1>1. TypeOK BY DEF IInv
<1> USE CommandAssumption
<1>2. /\ row' \in [Command -> Row]
      /\ row'[c] = new
      /\ \A d \in Command : d # c => row'[d] = row[d]
      /\ lock' \in [Command -> Replica \cup {None}]
      /\ \A d \in Command : lock'[d] = IF lock[d] = r THEN None ELSE lock[d]
      /\ copy' \in [Replica -> [Command -> Copy]]
      /\ \A s \in Replica : ~copy'[s][c].fresh
      /\ \A s \in Replica, d \in Command : d # c => copy'[s][d] = copy[s][d]
      /\ req' \in [Command -> Request]
      /\ ~req'[c].fresh
      /\ req'[c].op = req[c].op /\ req'[c].status = req[c].status
      /\ req'[c].bound = req[c].bound
      /\ \A d \in Command : d # c => req'[d] = req[d]
  BY <1>1, CommitEffect
<1>3. TypeOK'
  BY <1>1, <1>2 DEF TypeOK, execVars, PC
<1>4. ASSUME NEW s \in Replica, s # r PROVE ReplicaIsSound(s)'
  <2>1. ReplicaIsSound(s) BY DEF IInv
  <2>2. pc'[s] = pc[s] /\ cur'[s] = cur[s] /\ seen'[s] = seen[s]
    BY <1>1, <1>4 DEF TypeOK
  <2>3. \A d \in Command : lock'[d] = s => lock[d] = s /\ d # c
    BY <1>1, <1>2, <1>4 DEF TypeOK
  <2>4. \A d \in Command : (starts[d] > 0 => starts'[d] > 0) /\ achieved[d] \subseteq achieved'[d]
    BY DEF execVars
  <2>5. \A d \in Command : copy'[s][d].fresh =>
          copy[s][d].fresh /\ copy'[s][d].status = copy[s][d].status
          /\ row'[d].status = row[d].status /\ row'[d].deferrals = row[d].deferrals
    BY <1>2
  <2>6. \A d \in Command : lock'[d] = s =>
          lock[d] = s /\ row'[d].status = row[d].status
          /\ (copy[s][d].fresh => copy'[s][d].fresh)
    BY <1>2, <2>3
  <2> QED BY <1>1, <2>1, <2>2, <2>4, <2>5, <2>6, BystanderIsSound
<1>5. ReplicaIsSound(r)'
  <2>1. pc'[r] = label /\ cur'[r] = next
    BY <1>1 DEF TypeOK
  <2>2. \A d \in Command : lock'[d] # r
    BY <1>1, <1>2 DEF TypeOK
  <2>3. CopiesAreCurrent(r)'
    BY <1>2, SMTT(30) DEF IInv, ReplicaIsSound, CopiesAreCurrent
  <2>4. HoldsItsLocks(r)' /\ CopyAllows(r)' /\ EvidenceIsReal(r)'
    BY <2>1, <2>2 DEF HoldsItsLocks, CopyAllows, EvidenceIsReal, Working, Releasing
  <2> QED BY <2>3, <2>4 DEF ReplicaIsSound
<1>6. \A d \in Command : RequestIsSound(d)'
  BY <1>2 DEF IInv, RequestIsSound
<1>7. HistoryIsSound' /\ DispatchedNamesWorkflow' /\ BudgetsBounded' /\ StatusIsEarned'
  BY <1>1, <1>2 DEF IInv, HistoryIsSound, DispatchedNamesWorkflow, BudgetsBounded,
                    StatusIsEarned, execVars
<1> QED BY <1>3, <1>4, <1>5, <1>6, <1>7 DEF IInv

\* The step of a replica that writes no row and keeps its transaction as it is.
LEMMA QuietStep ==
  ASSUME IInv, NEW r \in Replica, ReplicaIsSound(r)',
         pc' \in [Replica -> PC], cur' \in [Replica -> Command \cup {None}],
         batch' \in [Replica -> SUBSET Command], seen' \in [Replica -> Observation],
         copy' \in [Replica -> [Command -> Copy]],
         \A s \in Replica : s # r =>
           /\ pc'[s] = pc[s]
           /\ cur'[s] = cur[s]
           /\ seen'[s] = seen[s]
           /\ copy'[s] = copy[s],
         UNCHANGED <<row, lock, req, execVars, requests, crashes>>
  PROVE  IInv'
<1>1. TypeOK' BY DEF IInv, TypeOK, execVars
<1>2. ASSUME NEW s \in Replica, s # r PROVE ReplicaIsSound(s)'
  <2>1. CopiesAreCurrent(s)' BY <1>2 DEF IInv, ReplicaIsSound, CopiesAreCurrent
  <2>2. HoldsItsLocks(s)' BY <1>2 DEF IInv, ReplicaIsSound, HoldsItsLocks
  <2>3. CopyAllows(s)' BY <1>2 DEF IInv, ReplicaIsSound, CopyAllows
  <2>4. EvidenceIsReal(s)' BY <1>2 DEF IInv, ReplicaIsSound, EvidenceIsReal, execVars
  <2> QED BY <2>1, <2>2, <2>3, <2>4 DEF ReplicaIsSound
<1>3. \A c \in Command : RequestIsSound(c)'
  BY DEF IInv, RequestIsSound
<1>4. HistoryIsSound' /\ DispatchedNamesWorkflow' /\ BudgetsBounded' /\ StatusIsEarned'
  BY DEF IInv, HistoryIsSound, DispatchedNamesWorkflow, BudgetsBounded, StatusIsEarned, execVars
<1> QED BY <1>1, <1>2, <1>3, <1>4 DEF IInv

\* The step of a replica that rolls its transaction back.
LEMMA RollbackStep ==
  ASSUME IInv, NEW r \in Replica, Rollback(r),
         NEW label \in {"dead", "fail_retry", "fail_final", "defer", "observe"},
         pc' = [pc EXCEPT ![r] = label],
         NEW next \in Command \cup {None}, label \in Working => next \in Command,
         cur' = [cur EXCEPT ![r] = next],
         batch' \in [Replica -> SUBSET Command],
         seen' \in [Replica -> Observation],
         \A s \in Replica : s # r => seen'[s] = seen[s],
         exec' \in [Command -> ExecState], starts' \in [Command -> Nat],
         achieved' = achieved, told' \in [Command -> BOOLEAN],
         \A d \in Command : starts[d] > 0 => starts'[d] > 0,
         HistoryIsSound', requests' \in Nat, crashes' \in Nat
  PROVE  IInv'
<1>1. TypeOK BY DEF IInv
<1> USE CommandAssumption
<1>2. /\ row' = row /\ req' = req
      /\ lock' \in [Command -> Replica \cup {None}]
      /\ \A d \in Command : lock'[d] = IF lock[d] = r THEN None ELSE lock[d]
      /\ copy' \in [Replica -> [Command -> Copy]]
      /\ \A d \in Command : ~copy'[r][d].fresh
      /\ \A s \in Replica : s # r => copy'[s] = copy[s]
  BY <1>1, RollbackEffect
<1>3. TypeOK'
  BY <1>1, <1>2 DEF TypeOK, PC
<1>4. ASSUME NEW s \in Replica, s # r PROVE ReplicaIsSound(s)'
  <2>1. ReplicaIsSound(s) BY DEF IInv
  <2>2. pc'[s] = pc[s] /\ cur'[s] = cur[s] /\ seen'[s] = seen[s]
    BY <1>1, <1>4 DEF TypeOK
  <2>3. \A d \in Command : lock'[d] = s => lock[d] = s
    BY <1>1, <1>2, <1>4 DEF TypeOK
  <2> QED BY <1>1, <1>2, <1>4, <2>1, <2>2, <2>3, BystanderIsSound
<1>5. ReplicaIsSound(r)'
  <2>1. pc'[r] = label /\ cur'[r] = next
    BY <1>1 DEF TypeOK
  <2>2. \A d \in Command : lock'[d] # r
    BY <1>1, <1>2 DEF TypeOK
  <2> QED
    BY <1>2, <2>1, <2>2 DEF ReplicaIsSound, CopiesAreCurrent, HoldsItsLocks, CopyAllows,
                            EvidenceIsReal, Working, Releasing
<1>6. (\A d \in Command : RequestIsSound(d)') /\ DispatchedNamesWorkflow'
      /\ BudgetsBounded' /\ StatusIsEarned'
  BY <1>2 DEF IInv, RequestIsSound, DispatchedNamesWorkflow, BudgetsBounded, StatusIsEarned
<1> QED BY <1>3, <1>4, <1>5, <1>6 DEF IInv

\* The step that reads the current command's row and goes on to write it.
LEMMA LoadStep ==
  ASSUME IInv, NEW r \in Replica, cur[r] \in Command,
         copy' = [copy EXCEPT ![r][cur[r]] = Load(cur[r])],
         NEW label \in {"mark", "to_running"} \cup Releasing,
         pc' = [pc EXCEPT ![r] = label],
         UNCHANGED <<row, lock, req, cur, batch, seen, execVars, requests, crashes>>,
         label = "mark" => row[cur[r]].status = "claimed",
         label \in Releasing => ReleasedStatus(label) \in Allowed(row[cur[r]].status),
         label = "to_deferred" => row[cur[r]].deferrals < MaxDeferrals,
         label = "to_running" =>
           row[cur[r]].status \in {"claimed", "awaiting_review"} /\ starts[cur[r]] > 0,
         \A d \in Command : lock[d] = r =>
           label = "to_running" /\ d = cur[r] /\ row[d].status = "claimed"
  PROVE  IInv'
<1>1. TypeOK /\ ReplicaIsSound(r) BY DEF IInv
<1>2. Load(cur[r]) \in Copy /\ Load(cur[r]).status = row[cur[r]].status /\ Load(cur[r]).fresh
  BY <1>1 DEF Load, Copy, TypeOK, Row
<1>3. /\ copy' \in [Replica -> [Command -> Copy]]
      /\ \A s \in Replica : s # r => copy'[s] = copy[s]
      /\ \A d \in Command : copy'[r][d] = IF d = cur[r] THEN Load(d) ELSE copy[r][d]
  BY <1>1, <1>2 DEF TypeOK
<1>4. pc'[r] = label /\ pc' \in [Replica -> PC]
      /\ \A s \in Replica : s # r => pc'[s] = pc[s]
  BY <1>1 DEF TypeOK, PC, Releasing
<1>5. ReplicaIsSound(r)'
  <2>1. CopiesAreCurrent(r)'
    BY <1>1, <1>2, <1>3 DEF ReplicaIsSound, CopiesAreCurrent
  <2>2. HoldsItsLocks(r)' /\ EvidenceIsReal(r)'
    BY <1>4 DEF HoldsItsLocks, EvidenceIsReal, Releasing, execVars
  <2>3. CopyAllows(r)'
    BY <1>2, <1>3, <1>4 DEF CopyAllows, Working, Releasing
  <2> QED BY <2>1, <2>2, <2>3 DEF ReplicaIsSound
<1> QED BY <1>1, <1>3, <1>4, <1>5, QuietStep DEF TypeOK

\* The step that gives the current command up without writing anything.
LEMMA SkipStep ==
  ASSUME IInv, NEW r \in Replica, NEW label \in {"claim", "cancel_scan", "observe"},
         pc' = [pc EXCEPT ![r] = label], cur' = [cur EXCEPT ![r] = None], NoWrite,
         batch' \in [Replica -> SUBSET Command], seen' \in [Replica -> Observation],
         \A s \in Replica : s # r => seen'[s] = seen[s],
         UNCHANGED <<execVars, requests, crashes>>,
         \A d \in Command : lock[d] # r
  PROVE  IInv'
<1>1. TypeOK /\ ReplicaIsSound(r) BY DEF IInv
<1>2. pc'[r] = label /\ cur'[r] = None
      /\ pc' \in [Replica -> PC] /\ cur' \in [Replica -> Command \cup {None}]
      /\ \A s \in Replica : s # r => pc'[s] = pc[s] /\ cur'[s] = cur[s]
  BY <1>1 DEF TypeOK, PC
<1>3. ReplicaIsSound(r)'
  BY <1>1, <1>2 DEF ReplicaIsSound, CopiesAreCurrent, HoldsItsLocks, CopyAllows,
                    EvidenceIsReal, Working, Releasing, NoWrite
<1> QED BY <1>1, <1>2, <1>3, QuietStep DEF TypeOK, NoWrite

LEMMA DieStep ==
  ASSUME IInv, NEW r \in Replica, Die(r), UNCHANGED execVars,
         requests' \in Nat, crashes' \in Nat
  PROVE  IInv'
<1>1. TypeOK BY DEF IInv
<1>2. batch' \in [Replica -> SUBSET Command] /\ seen' \in [Replica -> Observation]
      /\ \A s \in Replica : s # r => seen'[s] = seen[s]
  BY <1>1 DEF Die, TypeOK, Observation
<1> QED BY <1>1, <1>2, RollbackStep
        DEF Die, Goto, TypeOK, execVars, Working, IInv, HistoryIsSound

-----------------------------------------------------------------------------
(* run_once: claim and dispatch. *)

LEMMA ScanStep ==
  ASSUME IInv, NEW r \in Replica, Scan(r)
  PROVE  IInv'
<1>1. TypeOK /\ ReplicaIsSound(r) BY DEF IInv
<1>2. PICK found \in SUBSET Command :
        /\ batch' = [batch EXCEPT ![r] = found]
        /\ copy' = [copy EXCEPT ![r] = CopiesOf(found)]
        /\ Goto(r, IF found = {} THEN "cancel_scan" ELSE "claim")
  BY DEF Scan
<1>3. CopiesOf(found) \in [Command -> Copy]
      /\ \A c \in Command : CopiesOf(found)[c].fresh =>
           CopiesOf(found)[c].status = row[c].status
  BY <1>1 DEF CopiesOf, Load, ExpiredCopy, Copy, TypeOK, Row
<1>4. pc'[r] \in {"cancel_scan", "claim"} /\ copy'[r] = CopiesOf(found)
  BY <1>1, <1>2 DEF Goto, TypeOK
<1>5. ReplicaIsSound(r)'
  <2>1. \A c \in Command : lock'[c] # r
    BY <1>1 DEF ReplicaIsSound, HoldsItsLocks, Scan, rowVars
  <2> QED BY <1>3, <1>4, <2>1 DEF ReplicaIsSound, CopiesAreCurrent, HoldsItsLocks, CopyAllows,
            EvidenceIsReal, Working, Releasing, Scan, rowVars
<1>6. /\ pc' \in [Replica -> PC] /\ batch' \in [Replica -> SUBSET Command]
      /\ copy' \in [Replica -> [Command -> Copy]]
      /\ \A s \in Replica : s # r => pc'[s] = pc[s] /\ copy'[s] = copy[s]
  BY <1>1, <1>2, <1>3 DEF Goto, TypeOK, PC
<1> QED BY <1>1, <1>5, <1>6, QuietStep DEF Scan, TypeOK, rowVars

LEMMA ClaimStep ==
  ASSUME IInv, NEW r \in Replica, NEW c \in Command, Claim(r, c)
  PROVE  IInv'
<1>1. TypeOK /\ ReplicaIsSound(r) /\ BudgetsBounded BY DEF IInv
<1>2. /\ batch' \in [Replica -> SUBSET Command]
      /\ UNCHANGED <<execVars, seen, requests, crashes>>
  BY <1>1 DEF Claim, TypeOK
<1>3. CASE /\ HoldsVersion(r, c)
           /\ row[c].status \in Claimable
           /\ row[c].attempt < row[c].maxAttempts
  <2> DEFINE new == [row[c] EXCEPT !.status = "claimed", !.owner = r,
                                   !.lease = "live", !.attempt = @ + 1]
  <2>1. /\ Commit(r, c, new)
        /\ lock[c] = None
        /\ pc' = [pc EXCEPT ![r] = "prepare"]
        /\ cur' = [cur EXCEPT ![r] = c]
    BY <1>3 DEF Claim, Goto
  <2>2. row[c] \in Row BY <1>1 DEF TypeOK
  <2>3. new \in Row
    <3>1. "claimed" \in Status /\ row[c].attempt + 1 \in Nat
      BY <2>2 DEF Status, Row
    <3> QED BY <2>2, <3>1, RowColumns
  <2>4. /\ new.status = "claimed"
        /\ new.attempt <= new.maxAttempts
        /\ new.maxAttempts = row[c].maxAttempts
        /\ new.deferrals <= MaxDeferrals
    BY <1>1, <1>3, <2>2 DEF Row, BudgetsBounded
  <2> HIDE DEF new
  <2> QED BY <1>1, <1>2, <2>1, <2>3, <2>4, CommitStep DEF Dispatched, TypeOK
<1>4. CASE ~(/\ HoldsVersion(r, c)
             /\ row[c].status \in Claimable
             /\ row[c].attempt < row[c].maxAttempts)
  <2>1. /\ NoWrite
        /\ cur' = [cur EXCEPT ![r] = None]
        /\ pc' = [pc EXCEPT ![r] = IF batch[r] = {c} THEN "cancel_scan" ELSE "claim"]
    BY <1>4 DEF Claim, Goto
  <2>2. \A d \in Command : lock[d] # r
    BY <1>1 DEF ReplicaIsSound, HoldsItsLocks, Claim
  <2> QED BY <1>1, <1>2, <2>1, <2>2, SkipStep DEF TypeOK
<1> QED BY <1>3, <1>4

LEMMA PrepareStep ==
  ASSUME IInv, NEW r \in Replica, Prepare(r)
  PROVE  IInv'
<1>1. TypeOK /\ ReplicaIsSound(r) BY DEF IInv
<1>2. cur[r] \in Command /\ pc[r] = "prepare" /\ \A d \in Command : lock[d] # r
  BY <1>1 DEF Prepare, ReplicaIsSound, CopyAllows, HoldsItsLocks, Working
<1>3. CASE "dispatching" \in Allowed(row[cur[r]].status)
  <2>1. row[cur[r]].status = "claimed"
    BY <1>1, <1>2, <1>3 DEF TypeOK, Row, Status, Allowed
  <2> QED BY <1>2, <1>3, <2>1, LoadStep DEF Prepare, Goto, Releasing
<1>4. CASE "dispatching" \notin Allowed(row[cur[r]].status)
  BY <1>1, <1>4, DieStep DEF Prepare, TypeOK
<1> QED BY <1>3, <1>4

\* Taking or not taking the row's lock at `mark'; the copy expires either way.
LEMMA LockStep ==
  ASSUME IInv, NEW r \in Replica, NEW c \in Command, c = cur[r],
         copy[r][c].fresh => lock[c] = None,
         lock' = IF copy[r][c].fresh THEN [lock EXCEPT ![c] = r] ELSE lock,
         copy' = [copy EXCEPT ![r][c] = ExpiredCopy],
         ReplicaIsSound(r)', pc' \in [Replica -> PC], cur' \in [Replica -> Command \cup {None}],
         \A s \in Replica : s # r => pc'[s] = pc[s] /\ cur'[s] = cur[s],
         UNCHANGED <<row, execVars, batch, seen, req, requests, crashes>>
  PROVE  IInv'
<1>1. TypeOK BY DEF IInv
<1>2. /\ copy' \in [Replica -> [Command -> Copy]]
      /\ \A s \in Replica : s # r => copy'[s] = copy[s]
  BY <1>1 DEF TypeOK, ExpiredCopy, Copy
<1>3. lock' \in [Command -> Replica \cup {None}]
      /\ \A d \in Command : lock'[d] = lock[d] \/ lock'[d] = r
  BY <1>1 DEF TypeOK
<1>4. TypeOK'
  BY <1>1, <1>2, <1>3 DEF TypeOK, execVars
<1>5. ASSUME NEW s \in Replica, s # r PROVE ReplicaIsSound(s)'
  <2>1. ReplicaIsSound(s) BY DEF IInv
  <2> QED BY <1>1, <1>2, <1>3, <1>5, <2>1, BystanderIsSound DEF execVars
<1>6. (\A d \in Command : RequestIsSound(d)') /\ HistoryIsSound' /\ DispatchedNamesWorkflow'
      /\ BudgetsBounded' /\ StatusIsEarned'
  BY DEF IInv, RequestIsSound, HistoryIsSound, DispatchedNamesWorkflow, BudgetsBounded,
         StatusIsEarned, execVars
<1> QED BY <1>4, <1>5, <1>6 DEF IInv

LEMMA MarkDispatchingStep ==
  ASSUME IInv, NEW r \in Replica, MarkDispatching(r)
  PROVE  IInv'
<1>1. TypeOK /\ ReplicaIsSound(r) BY DEF IInv
<1>2. cur[r] \in Command /\ pc[r] = "mark" /\ \A d \in Command : lock[d] # r
  BY <1>1 DEF MarkDispatching, ReplicaIsSound, CopyAllows, HoldsItsLocks, Working
<1>3. pc'[r] = "dispatch" /\ pc' \in [Replica -> PC]
      /\ \A s \in Replica : s # r => pc'[s] = pc[s]
  BY <1>1 DEF MarkDispatching, Goto, TypeOK, PC
<1>4. \A d \in Command : copy'[r][d].fresh =>
        copy'[r][d] = copy[r][d] /\ copy[r][d].fresh
  BY <1>1, <1>2 DEF MarkDispatching, TypeOK, ExpiredCopy
<1>5. \A d \in Command : lock'[d] = r => d = cur[r] /\ row[d].status = "claimed"
  BY <1>1, <1>2 DEF MarkDispatching, TypeOK, ReplicaIsSound, CopyAllows
<1>6. ReplicaIsSound(r)'
  BY <1>1, <1>2, <1>3, <1>4, <1>5 DEF MarkDispatching, ReplicaIsSound, CopiesAreCurrent,
     HoldsItsLocks, CopyAllows, EvidenceIsReal, Working, Releasing
<1> QED BY <1>1, <1>2, <1>3, <1>6, LockStep DEF MarkDispatching, TypeOK

LEMMA StartWorkflowStep ==
  ASSUME IInv, NEW r \in Replica, StartWorkflow(r)
  PROVE  IInv'
<1>1. TypeOK /\ ReplicaIsSound(r) /\ HistoryIsSound BY DEF IInv
<1>2. cur[r] \in Command /\ pc[r] = "dispatch"
  BY <1>1 DEF StartWorkflow, ReplicaIsSound, CopyAllows, Working
<1>3. /\ exec' \in [Command -> ExecState]
      /\ starts' \in [Command -> Nat]
      /\ achieved' = achieved
      /\ told' \in [Command -> BOOLEAN]
      /\ \A d \in Command : starts[d] > 0 => starts'[d] > 0
      /\ HistoryIsSound'
  BY <1>1, <1>2, StartEffect DEF StartWorkflow
<1>4. starts'[cur[r]] > 0
  <2>1. CASE Live(cur[r])
    <3>1. starts[cur[r]] > 0
      BY <1>1, <1>2, <2>1 DEF HistoryIsSound, Live
    <3> QED BY <1>2, <1>3, <3>1
  <2>2. CASE ~Live(cur[r])
    <3>1. starts' = [starts EXCEPT ![cur[r]] = @ + 1]
      BY <2>2 DEF StartWorkflow, StartOrAdopt
    <3> QED BY <1>1, <1>2, <3>1 DEF TypeOK
  <2> QED BY <2>1, <2>2
<1>5. TypeOK'
  BY <1>1, <1>3 DEF StartWorkflow, Goto, TypeOK, PC, rowVars
<1>6. ASSUME NEW s \in Replica, s # r PROVE ReplicaIsSound(s)'
  <2>1. ReplicaIsSound(s) BY DEF IInv
  <2>2. pc'[s] = pc[s]
    BY <1>1, <1>6 DEF StartWorkflow, Goto, TypeOK
  <2> QED BY <1>1, <1>3, <2>1, <2>2, BystanderIsSound DEF StartWorkflow, rowVars
<1>7. ReplicaIsSound(r)'
  <2>1. pc'[r] = "record"
    BY <1>1 DEF StartWorkflow, Goto, TypeOK
  <2> QED BY <1>1, <1>2, <1>4, <2>1 DEF StartWorkflow, rowVars, ReplicaIsSound,
            CopiesAreCurrent, HoldsItsLocks, CopyAllows, EvidenceIsReal, Working, Releasing
<1>8. (\A d \in Command : RequestIsSound(d)') /\ DispatchedNamesWorkflow'
      /\ BudgetsBounded' /\ StatusIsEarned'
  BY <1>3 DEF StartWorkflow, rowVars, IInv, RequestIsSound, DispatchedNamesWorkflow,
              BudgetsBounded, StatusIsEarned
<1> QED BY <1>3, <1>5, <1>6, <1>7, <1>8 DEF IInv

LEMMA RefuseStep ==
  ASSUME IInv, NEW r \in Replica, Refuse(r)
  PROVE  IInv'
<1>1. TypeOK /\ ReplicaIsSound(r) BY DEF IInv
<1>2. cur[r] \in Command
  BY <1>1 DEF Refuse, ReplicaIsSound, CopyAllows, Working
<1>3. PICK handler \in {"fail_final", "fail_retry"} : pc' = [pc EXCEPT ![r] = handler]
  BY DEF Refuse, Goto
<1>4. cur' = [cur EXCEPT ![r] = cur[r]]
  BY <1>1 DEF Refuse, TypeOK
<1> QED BY <1>1, <1>2, <1>3, <1>4, RollbackStep
        DEF Refuse, TypeOK, execVars, IInv, HistoryIsSound

LEMMA DispatchRaisesStep ==
  ASSUME IInv, NEW r \in Replica, NEW handler \in {"defer", "fail_retry"},
         DispatchRaises(r, handler)
  PROVE  IInv'
<1>1. TypeOK /\ ReplicaIsSound(r) /\ HistoryIsSound BY DEF IInv
<1>2. cur[r] \in Command
  BY <1>1 DEF DispatchRaises, ReplicaIsSound, CopyAllows, Working
<1>3. /\ exec' \in [Command -> ExecState]
      /\ starts' \in [Command -> Nat]
      /\ achieved' = achieved
      /\ told' \in [Command -> BOOLEAN]
      /\ \A d \in Command : starts[d] > 0 => starts'[d] > 0
      /\ HistoryIsSound'
  <2>1. CASE StartOrAdopt(cur[r])
    BY <1>1, <1>2, <2>1, StartEffect
  <2>2. CASE UNCHANGED execVars
    BY <1>1, <2>2 DEF execVars, TypeOK, HistoryIsSound
  <2> QED BY <2>1, <2>2 DEF DispatchRaises
<1>4. cur' = [cur EXCEPT ![r] = cur[r]]
  BY <1>1 DEF DispatchRaises, TypeOK
<1> QED BY <1>1, <1>2, <1>3, <1>4, RollbackStep DEF DispatchRaises, Goto, TypeOK

LEMMA ReadForReleaseStep ==
  ASSUME IInv, NEW r \in Replica, ReadForRelease(r)
  PROVE  IInv'
<1> DEFINE c == cur[r]
           label == ReleaseTarget(r)
           target == ReleasedStatus(label)
<1>1. TypeOK /\ ReplicaIsSound(r) BY DEF IInv
<1>2. c \in Command /\ \A d \in Command : lock[d] # r
  BY <1>1 DEF ReadForRelease, ReplicaIsSound, CopyAllows, HoldsItsLocks, Working
<1>3. label \in Releasing
  BY DEF ReleaseTarget, Releasing
<1>4. CASE /\ target \in Allowed(row[c].status)
           /\ copy' = [copy EXCEPT ![r][c] = Load(c)]
           /\ Goto(r, label)
           /\ UNCHANGED <<row, lock, req, cur, batch, seen, execVars, requests, crashes>>
  <2>1. label = "to_deferred" => row[c].deferrals < MaxDeferrals
    BY <1>1, <1>2, CommandAssumption DEF ReleaseTarget, TypeOK, Row
  <2> QED BY <1>2, <1>3, <1>4, <2>1, LoadStep DEF Releasing, Goto
<1>5. CASE NextCommand(r) /\ NoWrite /\ UNCHANGED <<batch, seen, execVars, requests, crashes>>
  BY <1>1, <1>2, <1>5, SkipStep DEF NextCommand, Goto, TypeOK
<1>6. CASE Die(r) /\ UNCHANGED <<execVars, requests, crashes>>
  BY <1>1, <1>6, DieStep DEF TypeOK
<1> QED BY <1>4, <1>5, <1>6 DEF ReadForRelease

LEMMA ReleaseStep ==
  ASSUME IInv, NEW r \in Replica, Release(r)
  PROVE  IInv'
<1> DEFINE c == cur[r]
<1>1. TypeOK /\ ReplicaIsSound(r) /\ BudgetsBounded BY DEF IInv
<1>2. c \in Command /\ pc[r] \in Releasing /\ \A d \in Command : lock[d] # r
  BY <1>1 DEF Release, ReplicaIsSound, CopyAllows, HoldsItsLocks, Working, Releasing
<1>3. row[c] \in Row BY <1>1, <1>2 DEF TypeOK
<1>4. CASE copy[r][c].fresh
  <2> DEFINE new == Released(c, pc[r])
  <2>1. lock[c] = None /\ Commit(r, c, new) /\ NextCommand(r)
        /\ UNCHANGED <<execVars, batch, seen, requests, crashes>>
    BY <1>4 DEF Release
  <2>2. new \in Row /\ new.status \in {"pending", "failed"}
        /\ new.attempt <= new.maxAttempts /\ new.deferrals <= MaxDeferrals
        /\ new.maxAttempts = row[c].maxAttempts
    BY <1>1, <1>2, <1>3, <1>4, ReleasedIsSound DEF ReplicaIsSound, CopyAllows
  <2> HIDE DEF new
  <2> QED BY <1>1, <1>2, <2>1, <2>2, CommitStep DEF NextCommand, Goto, Dispatched, TypeOK
<1>5. CASE ~copy[r][c].fresh
  <2>1. NoWrite /\ NextCommand(r) /\ UNCHANGED <<execVars, batch, seen, requests, crashes>>
    BY <1>5 DEF Release
  <2> QED BY <1>1, <1>2, <2>1, SkipStep DEF NextCommand, Goto, TypeOK
<1> QED BY <1>4, <1>5

LEMMA ReadForRunningStep ==
  ASSUME IInv, NEW r \in Replica, ReadForRunning(r)
  PROVE  IInv'
<1> DEFINE c == cur[r]
           s == VisibleStatus(r, c)
<1>1. TypeOK /\ ReplicaIsSound(r) BY DEF IInv
<1>2. /\ c \in Command /\ pc[r] = "record" /\ starts[c] > 0
      /\ \A d \in Command : lock[d] = r => d = c /\ row[d].status = "claimed"
  BY <1>1 DEF ReadForRunning, ReplicaIsSound, CopyAllows, HoldsItsLocks, EvidenceIsReal, Working
<1>3. CASE /\ "running" \in Allowed(s)
           /\ copy' = [copy EXCEPT ![r][c] = Load(c)]
           /\ Goto(r, "to_running")
           /\ UNCHANGED <<row, lock, req, cur, batch, seen, execVars, requests, crashes>>
  <2>1. row[c].status \in {"claimed", "awaiting_review"}
    BY <1>1, <1>2, <1>3 DEF VisibleStatus, Allowed, TypeOK, Row, Status
  <2> QED BY <1>2, <1>3, <2>1, LoadStep DEF Goto, Releasing
<1>4. CASE /\ s = "running"
           /\ NextCommand(r)
           /\ NoWrite
           /\ UNCHANGED <<batch, seen, execVars, requests, crashes>>
  <2>1. \A d \in Command : lock[d] # r
    BY <1>2, <1>4 DEF VisibleStatus
  <2> QED BY <1>1, <1>4, <2>1, SkipStep DEF NextCommand, Goto, TypeOK
<1>5. CASE Die(r) /\ UNCHANGED <<execVars, requests, crashes>>
  BY <1>1, <1>5, DieStep DEF TypeOK
<1> QED BY <1>3, <1>4, <1>5 DEF ReadForRunning

LEMMA MarkRunningStep ==
  ASSUME IInv, NEW r \in Replica, MarkRunning(r)
  PROVE  IInv'
<1> DEFINE c == cur[r]
<1>1. TypeOK /\ ReplicaIsSound(r) /\ BudgetsBounded BY DEF IInv
<1>2. /\ c \in Command /\ pc[r] = "to_running" /\ starts[c] > 0
      /\ \A d \in Command : lock[d] = r => d = c
      /\ lock[c] = r => copy[r][c].fresh
  BY <1>1 DEF MarkRunning, ReplicaIsSound, CopyAllows, HoldsItsLocks, EvidenceIsReal, Working
<1>3. CASE copy[r][c].fresh
  <2> DEFINE new == MarkedRunning(c)
  <2>1. lock[c] \in {None, r} /\ Commit(r, c, new) /\ NextCommand(r)
        /\ UNCHANGED <<execVars, batch, seen, requests, crashes>>
    BY <1>3 DEF MarkRunning
  <2>2. new \in Row /\ new.status = "running" /\ new.workflow
        /\ new.attempt <= new.maxAttempts /\ new.deferrals <= MaxDeferrals
        /\ new.maxAttempts = row[c].maxAttempts
    BY <1>1, <1>2, MarkedRunningIsSound
  <2> HIDE DEF new
  <2> QED BY <1>1, <1>2, <2>1, <2>2, CommitStep DEF NextCommand, Goto, TypeOK
<1>4. CASE ~copy[r][c].fresh
  <2>1. NoWrite /\ NextCommand(r) /\ UNCHANGED <<execVars, batch, seen, requests, crashes>>
    BY <1>4 DEF MarkRunning
  <2> QED BY <1>1, <1>2, <1>4, <2>1, SkipStep DEF NextCommand, Goto, TypeOK
<1> QED BY <1>3, <1>4

-----------------------------------------------------------------------------
(* honour_cancellations. *)

LEMMA ScanCancellationsStep ==
  ASSUME IInv, NEW r \in Replica, ScanCancellations(r)
  PROVE  IInv'
<1>1. TypeOK /\ ReplicaIsSound(r) BY DEF IInv
<1>2. PICK found \in SUBSET Command :
        /\ found = {c \in Command : /\ row[c].cancelRequested > 0
                                    /\ row[c].status \in DispatchedOrStarting}
        /\ batch' = [batch EXCEPT ![r] = found]
        /\ copy' = [copy EXCEPT ![r] = CopiesOf(found)]
        /\ pc' = [pc EXCEPT ![r] = IF found = {} THEN "settle_scan" ELSE "cancel_rpc"]
  BY DEF ScanCancellations, Goto
<1>3. CopiesOf(found) \in [Command -> Copy]
      /\ \A c \in Command : CopiesOf(found)[c].fresh =>
           CopiesOf(found)[c].status = row[c].status /\ row[c].status \in Settleable
  BY <1>1, <1>2 DEF CopiesOf, Load, ExpiredCopy, Copy, TypeOK, Row, DispatchedOrStarting
<1>4. pc'[r] \in {"settle_scan", "cancel_rpc"} /\ copy'[r] = CopiesOf(found)
  BY <1>1, <1>2 DEF TypeOK
<1>5. ReplicaIsSound(r)'
  <2>1. \A c \in Command : lock[c] # r
    BY <1>1 DEF ReplicaIsSound, HoldsItsLocks, ScanCancellations
  <2> QED BY <1>3, <1>4, <2>1 DEF ReplicaIsSound, CopiesAreCurrent, HoldsItsLocks, CopyAllows,
            EvidenceIsReal, Working, Releasing, ScanCancellations, rowVars
<1>6. /\ pc' \in [Replica -> PC] /\ batch' \in [Replica -> SUBSET Command]
      /\ copy' \in [Replica -> [Command -> Copy]]
      /\ \A s \in Replica : s # r => pc'[s] = pc[s] /\ copy'[s] = copy[s]
  BY <1>1, <1>2, <1>3 DEF TypeOK, PC
<1> QED BY <1>1, <1>5, <1>6, QuietStep DEF ScanCancellations, TypeOK, rowVars

LEMMA CancelWorkflowStep ==
  ASSUME IInv, NEW r \in Replica, NEW c \in Command, CancelWorkflow(r, c)
  PROVE  IInv'
<1>1. TypeOK /\ ReplicaIsSound(r) /\ HistoryIsSound BY DEF IInv
<1>2. /\ exec' \in [Command -> ExecState]
      /\ told' \in [Command -> BOOLEAN]
      /\ HistoryIsSound'
  <2>1. CASE Live(c)
    <3>1. exec' = [exec EXCEPT ![c] = "stopping"] BY <2>1 DEF CancelWorkflow
    <3>2. exec[c] # "none" BY <2>1 DEF Live
    <3> QED BY <1>1, <3>1, <3>2 DEF CancelWorkflow, TypeOK, ExecState, HistoryIsSound
  <2>2. CASE ~Live(c)
    BY <1>1, <2>2 DEF CancelWorkflow, TypeOK, HistoryIsSound
  <2> QED BY <2>1, <2>2
<1>3. TypeOK'
  BY <1>1, <1>2 DEF CancelWorkflow, Goto, TypeOK, PC, rowVars
<1>4. ASSUME NEW s \in Replica, s # r PROVE ReplicaIsSound(s)'
  <2>1. ReplicaIsSound(s) BY DEF IInv
  <2>2. pc'[s] = pc[s] /\ cur'[s] = cur[s]
    BY <1>1, <1>4 DEF CancelWorkflow, Goto, TypeOK
  <2> QED BY <1>1, <2>1, <2>2, BystanderIsSound DEF CancelWorkflow, rowVars
<1>5. ReplicaIsSound(r)'
  <2>1. pc'[r] = "cancel_row" /\ cur'[r] = c /\ pc[r] = "cancel_rpc"
    BY <1>1 DEF CancelWorkflow, Goto, TypeOK
  <2> QED BY <1>1, <2>1 DEF CancelWorkflow, rowVars, ReplicaIsSound,
            CopiesAreCurrent, HoldsItsLocks, CopyAllows, EvidenceIsReal, Working, Releasing
<1>6. (\A d \in Command : RequestIsSound(d)') /\ DispatchedNamesWorkflow'
      /\ BudgetsBounded' /\ StatusIsEarned'
  BY DEF CancelWorkflow, rowVars, IInv, RequestIsSound, DispatchedNamesWorkflow,
         BudgetsBounded, StatusIsEarned
<1> QED BY <1>2, <1>3, <1>4, <1>5, <1>6 DEF IInv

LEMMA CancelUnreachableStep ==
  ASSUME IInv, NEW r \in Replica, NEW c \in Command, CancelUnreachable(r, c)
  PROVE  IInv'
<1>1. TypeOK /\ ReplicaIsSound(r) BY DEF IInv
<1>2. ReplicaIsSound(r)'
  BY <1>1 DEF CancelUnreachable, rowVars, execVars, ReplicaIsSound, CopiesAreCurrent,
              HoldsItsLocks, CopyAllows, EvidenceIsReal
<1> QED BY <1>1, <1>2, QuietStep DEF CancelUnreachable, TypeOK, rowVars

LEMMA CancelRowStep ==
  ASSUME IInv, NEW r \in Replica, CancelRow(r)
  PROVE  IInv'
<1>1. TypeOK /\ ReplicaIsSound(r) BY DEF IInv
<1>2. cur[r] \in Command /\ pc[r] = "cancel_row"
  BY <1>1 DEF CancelRow, ReplicaIsSound, CopyAllows, Working
<1>3. pc'[r] = "cancel_rpc" /\ pc' \in [Replica -> PC]
      /\ cur' \in [Replica -> Command \cup {None}]
      /\ \A s \in Replica : s # r => pc'[s] = pc[s] /\ cur'[s] = cur[s]
  BY <1>1 DEF CancelRow, Goto, TypeOK, PC
<1>4. \A d \in Command : copy'[r][d].fresh => copy'[r][d] = copy[r][d] /\ copy[r][d].fresh
  BY <1>1, <1>2 DEF CancelRow, TypeOK, ExpiredCopy
<1>5. \A d \in Command : lock'[d] = r => row[d].status \in Settleable
  BY <1>1, <1>2 DEF CancelRow, TypeOK, ReplicaIsSound, CopyAllows, HoldsItsLocks
<1>6. ReplicaIsSound(r)'
  BY <1>1, <1>2, <1>3, <1>4, <1>5 DEF CancelRow, ReplicaIsSound, CopiesAreCurrent,
     HoldsItsLocks, CopyAllows, EvidenceIsReal, Working, Releasing
<1> QED BY <1>1, <1>2, <1>3, <1>6, LockStep DEF CancelRow, TypeOK

\* A copy, or a request, that was overtaken keeps what it had read.
LEMMA StaleIsCopy ==
  ASSUME NEW k \in Copy
  PROVE  Stale(k) \in Copy /\ ~Stale(k).fresh
BY DEF Stale, Copy

LEMMA StaleRequest ==
  ASSUME NEW q \in Request
  PROVE  /\ [q EXCEPT !.fresh = FALSE] \in Request
         /\ [q EXCEPT !.fresh = FALSE].op = q.op
         /\ [q EXCEPT !.fresh = FALSE].status = q.status
         /\ [q EXCEPT !.fresh = FALSE].bound = q.bound
         /\ ~[q EXCEPT !.fresh = FALSE].fresh
BY DEF Request

LEMMA CommitCancellationsStep ==
  ASSUME IInv, NEW r \in Replica, CommitCancellations(r)
  PROVE  IInv'
<1>1. TypeOK /\ ReplicaIsSound(r) /\ BudgetsBounded /\ StatusIsEarned BY DEF IInv
<1> USE CommandAssumption
<1>2. \A c \in Command : /\ Cancelled(c) \in Row
                         /\ Cancelled(c).status = "cancelled"
                         /\ Cancelled(c).attempt = row[c].attempt
                         /\ Cancelled(c).maxAttempts = row[c].maxAttempts
                         /\ Cancelled(c).deferrals = row[c].deferrals
  <2> TAKE c \in Command
  <2>1. row[c] \in Row BY <1>1 DEF TypeOK
  <2>2. Cancelled(c) \in Row BY <2>1, RowColumns DEF Cancelled, Status
  <2>3. Cancelled(c) = [row[c] EXCEPT !.status = "cancelled", !.owner = None, !.lease = "none"]
    BY DEF Cancelled
  <2> QED BY <2>1, <2>2, <2>3 DEF Row
<1>3. /\ row' \in [Command -> Row]
      /\ \A c \in Command : row'[c] = IF lock[c] = r THEN Cancelled(c) ELSE row[c]
  <2>1. row' = [c \in Command |-> IF lock[c] = r THEN Cancelled(c) ELSE row[c]]
    BY DEF CommitCancellations
  <2>2. \A c \in Command : row[c] \in Row BY <1>1 DEF TypeOK
  <2> HIDE DEF Cancelled
  <2> QED BY <1>2, <2>1, <2>2
<1>4. /\ lock' \in [Command -> Replica \cup {None}]
      /\ \A c \in Command : lock'[c] = IF lock[c] = r THEN None ELSE lock[c]
  BY <1>1 DEF CommitCancellations, Unlocked, TypeOK
<1>5. /\ copy' \in [Replica -> [Command -> Copy]]
      /\ \A c \in Command : ~copy'[r][c].fresh
      /\ \A s \in Replica, c \in Command : s # r =>
           copy'[s][c] = IF lock[c] = r THEN Stale(copy[s][c]) ELSE copy[s][c]
  <2>1. copy' = [s \in Replica |-> IF s = r THEN NoCopies ELSE
                  [c \in Command |-> IF lock[c] = r THEN Stale(copy[s][c]) ELSE copy[s][c]]]
    BY DEF CommitCancellations
  <2>2. NoCopies \in [Command -> Copy] /\ \A c \in Command : ~NoCopies[c].fresh
    BY DEF NoCopies, ExpiredCopy, Copy
  <2>3. ASSUME NEW s \in Replica, NEW c \in Command
        PROVE  copy[s][c] \in Copy /\ Stale(copy[s][c]) \in Copy
    <3>1. copy[s][c] \in Copy BY <1>1 DEF TypeOK
    <3> QED BY <3>1, StaleIsCopy
  <2> QED BY <2>1, <2>2, <2>3
<1>6. /\ req' \in [Command -> Request]
      /\ \A c \in Command : /\ req'[c].op = req[c].op
                            /\ req'[c].status = req[c].status
                            /\ req'[c].bound = req[c].bound
                            /\ req'[c].fresh => req[c].fresh /\ lock[c] # r
  <2>1. req' = [c \in Command |-> IF lock[c] = r THEN [req[c] EXCEPT !.fresh = FALSE]
                                                ELSE req[c]]
    BY DEF CommitCancellations
  <2>2. ASSUME NEW c \in Command
        PROVE  /\ [req[c] EXCEPT !.fresh = FALSE] \in Request
               /\ [req[c] EXCEPT !.fresh = FALSE].op = req[c].op
               /\ [req[c] EXCEPT !.fresh = FALSE].status = req[c].status
               /\ [req[c] EXCEPT !.fresh = FALSE].bound = req[c].bound
               /\ ~[req[c] EXCEPT !.fresh = FALSE].fresh
               /\ req[c] \in Request
    <3>1. req[c] \in Request BY <1>1 DEF TypeOK
    <3> QED BY <3>1, StaleRequest
  <2> QED BY <2>1, <2>2
<1>7. pc'[r] = "settle_scan" /\ pc' \in [Replica -> PC]
      /\ \A s \in Replica : s # r => pc'[s] = pc[s]
  BY <1>1 DEF CommitCancellations, Goto, TypeOK, PC
<1>8. TypeOK'
  BY <1>1, <1>2, <1>3, <1>4, <1>5, <1>6, <1>7 DEF CommitCancellations, TypeOK, execVars
<1>9. ASSUME NEW s \in Replica, s # r PROVE ReplicaIsSound(s)'
  <2>1. ReplicaIsSound(s) BY DEF IInv
  <2>2. \A c \in Command : lock'[c] = s => lock[c] = s /\ row'[c] = row[c]
    BY <1>3, <1>4, <1>9
  <2>3. \A c \in Command :
          /\ copy'[s][c].fresh => copy[s][c].fresh /\ copy'[s][c].status = copy[s][c].status
                                 /\ row'[c] = row[c]
          /\ copy[s][c].fresh /\ lock[c] # r => copy'[s][c].fresh
    <3>1. ASSUME NEW c \in Command PROVE ~Stale(copy[s][c]).fresh
      <4>1. copy[s][c] \in Copy BY <1>1 DEF TypeOK
      <4> QED BY <4>1, StaleIsCopy
    <3>2. ASSUME NEW c \in Command
          PROVE  /\ copy'[s][c] = IF lock[c] = r THEN Stale(copy[s][c]) ELSE copy[s][c]
                 /\ lock[c] # r => row'[c] = row[c]
      BY <1>3, <1>5, <1>9
    <3> QED BY <3>1, <3>2
  <2>4. \A c \in Command : lock'[c] = s /\ copy[s][c].fresh => copy'[s][c].fresh
    BY <1>9, <2>2, <2>3
  <2>5. pc'[s] = pc[s] /\ cur' = cur /\ seen' = seen /\ starts' = starts /\ achieved' = achieved
    BY <1>7, <1>9 DEF CommitCancellations, execVars
  <2> QED BY <1>1, <2>1, <2>2, <2>3, <2>4, <2>5, BystanderIsSound
<1>10. ReplicaIsSound(r)'
  <2>1. \A c \in Command : lock'[c] # r BY <1>4
  <2> QED BY <1>5, <1>7, <2>1 DEF ReplicaIsSound, CopiesAreCurrent, HoldsItsLocks,
            CopyAllows, EvidenceIsReal, Working, Releasing
<1>11. \A c \in Command : RequestIsSound(c)'
  BY <1>2, <1>3, <1>6 DEF IInv, RequestIsSound
<1>12. HistoryIsSound' /\ DispatchedNamesWorkflow' /\ BudgetsBounded' /\ StatusIsEarned'
  BY <1>2, <1>3 DEF IInv, CommitCancellations, execVars, HistoryIsSound,
     DispatchedNamesWorkflow, Dispatched, BudgetsBounded, StatusIsEarned
<1> QED BY <1>8, <1>9, <1>10, <1>11, <1>12 DEF IInv

-----------------------------------------------------------------------------
(* settle_running, kills and restarts. *)

LEMMA ScanRunningStep ==
  ASSUME IInv, NEW r \in Replica, ScanRunning(r)
  PROVE  IInv'
<1>1. TypeOK /\ ReplicaIsSound(r) BY DEF IInv
<1>2. PICK found \in SUBSET Command :
        /\ batch' = [batch EXCEPT ![r] = found]
        /\ copy' = [copy EXCEPT ![r] = CopiesOf(found)]
        /\ Goto(r, IF found = {} THEN "scan" ELSE "observe")
  BY DEF ScanRunning
<1>3. CopiesOf(found) \in [Command -> Copy]
      /\ \A c \in Command : CopiesOf(found)[c].fresh =>
           CopiesOf(found)[c].status = row[c].status
  BY <1>1 DEF CopiesOf, Load, ExpiredCopy, Copy, TypeOK, Row
<1>4. pc'[r] \in {"scan", "observe"} /\ copy'[r] = CopiesOf(found)
  BY <1>1, <1>2 DEF Goto, TypeOK
<1>5. ReplicaIsSound(r)'
  <2>1. \A c \in Command : lock'[c] # r
    BY <1>1 DEF ReplicaIsSound, HoldsItsLocks, ScanRunning, rowVars
  <2> QED BY <1>3, <1>4, <2>1 DEF ReplicaIsSound, CopiesAreCurrent, HoldsItsLocks, CopyAllows,
            EvidenceIsReal, Working, Releasing, ScanRunning, rowVars
<1>6. /\ pc' \in [Replica -> PC] /\ batch' \in [Replica -> SUBSET Command]
      /\ copy' \in [Replica -> [Command -> Copy]]
      /\ \A s \in Replica : s # r => pc'[s] = pc[s] /\ copy'[s] = copy[s]
  BY <1>1, <1>2, <1>3 DEF Goto, TypeOK, PC
<1> QED BY <1>1, <1>5, <1>6, QuietStep DEF ScanRunning, TypeOK, rowVars

\* An answer that claims success or a review can be traced to an execution
\* that succeeded or asked for one.
LEMMA ObservationsAreReal ==
  ASSUME HistoryIsSound, NEW c \in Command, NEW answer \in Observations(c)
  PROVE  /\ answer \in {"rejected", "done", "failed", "review", "working"}
         /\ answer = "done" => "succeeded" \in achieved[c]
         /\ answer = "review" => "review" \in achieved[c]
BY DEF Observations, HistoryIsSound

LEMMA ObserveStep ==
  ASSUME IInv, NEW r \in Replica, NEW c \in Command, Observe(r, c)
  PROVE  IInv'
<1>1. TypeOK /\ ReplicaIsSound(r) /\ HistoryIsSound BY DEF IInv
<1>2. PICK answer \in Observations(c) \ {"rejected"} : seen' = [seen EXCEPT ![r] = answer]
  BY DEF Observe
<1>3. answer \in Observation /\ seen'[r] = answer /\ seen' \in [Replica -> Observation]
      /\ (answer = "done" => "succeeded" \in achieved[c])
      /\ (answer = "review" => "review" \in achieved[c])
      /\ \A s \in Replica : s # r => seen'[s] = seen[s]
  BY <1>1, <1>2, ObservationsAreReal DEF Observation, TypeOK
<1>4. /\ pc'[r] = "settle" /\ cur'[r] = c
      /\ pc' \in [Replica -> PC] /\ cur' \in [Replica -> Command \cup {None}]
      /\ batch' \in [Replica -> SUBSET Command]
      /\ \A s \in Replica : s # r => pc'[s] = pc[s] /\ cur'[s] = cur[s]
  BY <1>1 DEF Observe, Goto, TypeOK, PC
<1>5. \A d \in Command : lock[d] # r
  BY <1>1 DEF ReplicaIsSound, HoldsItsLocks, Observe
<1>6. UNCHANGED <<row, lock, copy, req, execVars, requests, crashes>>
  BY DEF Observe, rowVars
<1>7. ReplicaIsSound(r)'
  BY <1>1, <1>3, <1>4, <1>5, <1>6 DEF ReplicaIsSound, CopiesAreCurrent, HoldsItsLocks,
     CopyAllows, EvidenceIsReal, Working, Releasing, execVars
<1> QED BY <1>1, <1>3, <1>4, <1>6, <1>7, QuietStep DEF TypeOK

LEMMA ObserveFailsStep ==
  ASSUME IInv, NEW r \in Replica, NEW c \in Command, ObserveFails(r, c)
  PROVE  IInv'
<1>1. TypeOK BY DEF IInv
<1>2. /\ pc' = [pc EXCEPT ![r] = "observe"]
      /\ cur' = [cur EXCEPT ![r] = cur[r]]
      /\ cur[r] \in Command \cup {None}
      /\ batch' \in [Replica -> SUBSET Command]
      /\ seen' = seen
      /\ Rollback(r)
      /\ UNCHANGED <<execVars, requests, crashes>>
  BY <1>1 DEF ObserveFails, TypeOK
<1> QED BY <1>1, <1>2, RollbackStep DEF TypeOK, execVars, Working, IInv, HistoryIsSound

\* What settling writes is a row, in the target status, within its budgets.
LEMMA SettledIsSound ==
  ASSUME TypeOK, BudgetsBounded, DispatchedNamesWorkflow, NEW c \in Command,
         NEW target \in {"completed", "failed", "awaiting_review", "running"},
         target = "failed" \/ row[c].status \in Settleable
  PROVE  /\ Settled(c, target) \in Row
         /\ Settled(c, target).status = target
         /\ target # "failed" => Settled(c, target).workflow
         /\ Settled(c, target).attempt <= Settled(c, target).maxAttempts
         /\ Settled(c, target).maxAttempts = row[c].maxAttempts
         /\ Settled(c, target).deferrals <= MaxDeferrals
<1>1. /\ row[c] \in Row /\ (target # "failed" => row[c].workflow)
      /\ row[c].attempt <= row[c].maxAttempts /\ row[c].deferrals <= MaxDeferrals
  BY DEF TypeOK, BudgetsBounded, DispatchedNamesWorkflow, Settleable, Dispatched
<1>2. CASE target = "running"
  BY <1>2, MarkedRunningIsSound DEF Settled
<1>3. CASE target \in {"completed", "failed"}
  <2> DEFINE new == [row[c] EXCEPT !.status = target, !.owner = None, !.lease = "none"]
  <2>1. Settled(c, target) = new BY <1>3 DEF Settled
  <2>2. new \in Row BY <1>1, <1>3, RowColumns DEF Status
  <2> QED BY <1>1, <2>1, <2>2 DEF Row
<1>4. CASE target = "awaiting_review"
  <2> DEFINE new == [row[c] EXCEPT !.status = target]
  <2>1. Settled(c, target) = new BY <1>4 DEF Settled
  <2>2. new \in Row BY <1>1, <1>4, RowColumns DEF Status
  <2> QED BY <1>1, <2>1, <2>2 DEF Row
<1> QED BY <1>2, <1>3, <1>4

\* Facts about the status graph: no status leads to itself, and only a
\* dispatched command completes or comes under review.
LEMMA AllowedFacts ==
  ASSUME NEW s \in Status
  PROVE  /\ s \notin Allowed(s)
         /\ "completed" \in Allowed(s) => s \in Settleable
         /\ "awaiting_review" \in Allowed(s) => s \in Settleable
BY DEF Allowed, Status, Settleable

LEMMA SettleStep ==
  ASSUME IInv, NEW r \in Replica, Settle(r)
  PROVE  IInv'
<1>1. TypeOK /\ ReplicaIsSound(r) /\ BudgetsBounded /\ DispatchedNamesWorkflow BY DEF IInv
<1> DEFINE c == cur[r]
           s == IF copy[r][c].status = "expired" THEN row[c].status ELSE copy[r][c].status
           target == SettleTarget(c, s, seen[r])
<1>2. c \in Command /\ pc[r] = "settle" /\ \A d \in Command : lock[d] # r
  BY <1>1 DEF Settle, ReplicaIsSound, CopyAllows, HoldsItsLocks, Working
<1>3. /\ pc' = [pc EXCEPT ![r] = "observe"]
      /\ cur' = [cur EXCEPT ![r] = None]
      /\ batch' \in [Replica -> SUBSET Command]
      /\ seen' \in [Replica -> Observation]
      /\ \A q \in Replica : q # r => seen'[q] = seen[q]
      /\ UNCHANGED <<execVars, requests, crashes>>
  BY <1>1 DEF Settle, Goto, TypeOK, Observation
<1>4. CASE Rollback(r)
  BY <1>1, <1>3, <1>4, RollbackStep DEF TypeOK, execVars, Working, IInv, HistoryIsSound
<1>5. CASE NoWrite
  BY <1>2, <1>3, <1>5, SkipStep
<1>6. CASE /\ target \in Allowed(s)
           /\ HoldsVersion(r, c)
           /\ lock[c] = None
           /\ Commit(r, c, Settled(c, target))
  <2>1. s = row[c].status
    BY <1>1, <1>2, <1>6 DEF HoldsVersion, ReplicaIsSound, CopiesAreCurrent
  <2>2. s \in Status BY <1>1, <1>2, <2>1 DEF TypeOK, Row
  <2>3. /\ target = "failed" \/ s \in Settleable
        /\ target \in {"completed", "failed", "awaiting_review", "running"}
        /\ target = "completed" => seen[r] = "done"
        /\ target = "awaiting_review" => seen[r] = "review"
    <3>1. s \notin Allowed(s) BY <2>2, AllowedFacts
    <3>2. target \in {"completed", "failed", "awaiting_review"}
          \/ (target = "running" /\ s = "awaiting_review")
      BY <1>6, <3>1 DEF SettleTarget
    <3>3. (target = "completed" => seen[r] = "done")
          /\ (target = "awaiting_review" => seen[r] = "review")
      BY <1>6, <3>1 DEF SettleTarget
    <3>4. ("completed" \in Allowed(s) => s \in Settleable)
          /\ ("awaiting_review" \in Allowed(s) => s \in Settleable)
      BY <2>2, AllowedFacts
    <3>5. "awaiting_review" \in Settleable BY DEF Settleable
    <3> QED BY <1>6, <3>2, <3>3, <3>4, <3>5
  <2>4. /\ target = "completed" => "succeeded" \in achieved[c]
        /\ target = "awaiting_review" => "review" \in achieved[c]
    BY <1>1, <1>2, <2>3 DEF ReplicaIsSound, EvidenceIsReal
  <2>5. target # "failed" => starts[c] > 0
    BY <1>1, <1>2, <2>1, <2>3 DEF DispatchedNamesWorkflow, Settleable, Dispatched
  <2> DEFINE new == Settled(c, target)
  <2>6. /\ new \in Row /\ new.status = target
        /\ target # "failed" => new.workflow
        /\ new.attempt <= new.maxAttempts /\ new.deferrals <= MaxDeferrals
        /\ new.maxAttempts = row[c].maxAttempts
    BY <1>1, <1>2, <2>1, <2>3, SettledIsSound
  <2>7. Commit(r, c, new) /\ lock[c] = None BY <1>6
  <2>8. new.status # "dispatching" BY <2>3, <2>6
  <2>9. "failed" \notin Dispatched BY DEF Dispatched
  <2> HIDE DEF new, target, s, c
  <2> QED BY <1>2, <1>3, <2>4, <2>5, <2>6, <2>7, <2>8, <2>9, CommitStep
<1> QED BY <1>4, <1>5, <1>6 DEF Settle

LEMMA EndPassStep ==
  ASSUME IInv, NEW r \in Replica, EndPass(r)
  PROVE  IInv'
<1>1. TypeOK /\ ReplicaIsSound(r) BY DEF IInv
<1>2. /\ pc'[r] = "scan" /\ pc' \in [Replica -> PC]
      /\ copy' \in [Replica -> [Command -> Copy]]
      /\ \A c \in Command : ~copy'[r][c].fresh
      /\ \A s \in Replica : s # r => pc'[s] = pc[s] /\ copy'[s] = copy[s]
  BY <1>1 DEF EndPass, Goto, TypeOK, PC, NoCopies, ExpiredCopy, Copy
<1>3. \A c \in Command : lock'[c] # r
  BY <1>1 DEF ReplicaIsSound, HoldsItsLocks, EndPass, rowVars
<1>4. ReplicaIsSound(r)'
  BY <1>2, <1>3 DEF ReplicaIsSound, CopiesAreCurrent, HoldsItsLocks, CopyAllows,
     EvidenceIsReal, Working, Releasing
<1> QED BY <1>1, <1>2, <1>4, QuietStep DEF EndPass, TypeOK, rowVars

LEMMA RestartStep ==
  ASSUME IInv, NEW r \in Replica, Restart(r)
  PROVE  IInv'
<1>1. TypeOK /\ ReplicaIsSound(r) BY DEF IInv
<1>2. /\ pc'[r] = "scan" /\ pc' \in [Replica -> PC]
      /\ \A s \in Replica : s # r => pc'[s] = pc[s]
      /\ UNCHANGED <<row, lock, req, execVars, cur, batch, copy, seen, requests, crashes>>
  BY <1>1 DEF Restart, Goto, TypeOK, PC, rowVars
<1>3. \A c \in Command : lock[c] # r
  BY <1>1 DEF ReplicaIsSound, HoldsItsLocks, Restart
<1>4. ReplicaIsSound(r)'
  BY <1>1, <1>2, <1>3 DEF ReplicaIsSound, CopiesAreCurrent, HoldsItsLocks, CopyAllows,
     EvidenceIsReal, Working, Releasing
<1> QED BY <1>1, <1>2, <1>4, QuietStep DEF TypeOK

LEMMA KillStep ==
  ASSUME IInv, NEW r \in Replica, Kill(r)
  PROVE  IInv'
<1>1. requests \in Nat /\ crashes \in Nat BY DEF IInv, TypeOK
<1> QED BY <1>1, DieStep DEF Kill

-----------------------------------------------------------------------------
(* Steps of the clock, the owner and the cluster. *)

\* A step outside the replicas keeps every one of them sound, as long as it
\* writes no row a replica has locked and leaves no fresh copy of what it wrote.
LEMMA OutsideStep ==
  ASSUME IInv, TypeOK', \A c \in Command : RequestIsSound(c)', HistoryIsSound',
         DispatchedNamesWorkflow', BudgetsBounded', StatusIsEarned',
         UNCHANGED <<pc, cur, batch, seen, lock>>,
         \A c \in Command : /\ starts[c] > 0 => starts'[c] > 0
                            /\ achieved[c] \subseteq achieved'[c],
         \A s \in Replica, c \in Command :
           /\ copy'[s][c].fresh =>
                /\ copy[s][c].fresh
                /\ copy'[s][c].status = copy[s][c].status
                /\ row'[c].status = row[c].status
                /\ row'[c].deferrals = row[c].deferrals
           /\ lock[c] = s =>
                /\ row'[c].status = row[c].status
                /\ copy[s][c].fresh => copy'[s][c].fresh
  PROVE  IInv'
<1>1. ASSUME NEW s \in Replica PROVE ReplicaIsSound(s)'
  <2>1. TypeOK /\ ReplicaIsSound(s) BY DEF IInv
  <2> QED BY <2>1, BystanderIsSound
<1> QED BY <1>1 DEF IInv

\* A write that leaves status, budgets and workflow of a row alone.
LEMMA ClockStep ==
  ASSUME IInv, NEW c \in Command, Clock(c)
  PROVE  IInv'
<1>1. TypeOK /\ row[c] \in Row BY DEF IInv, TypeOK
<1>2. PICK new \in Row :
        /\ row' = [row EXCEPT ![c] = new]
        /\ new.status = row[c].status /\ new.attempt = row[c].attempt
        /\ new.maxAttempts = row[c].maxAttempts /\ new.deferrals = row[c].deferrals
        /\ new.workflow = row[c].workflow
        /\ UNCHANGED <<lock, execVars, procVars, req, requests, crashes>>
  <2>1. CASE LeaseExpires(c)
    <3> DEFINE new == [row[c] EXCEPT !.lease = "expired"]
    <3>1. new \in Row BY <1>1, RowColumns
    <3>2. row' = [row EXCEPT ![c] = new] BY <2>1 DEF LeaseExpires
    <3> QED BY <1>1, <2>1, <3>1, <3>2 DEF LeaseExpires, Row
  <2>2. CASE BackoffEnds(c)
    <3> DEFINE new == [row[c] EXCEPT !.due = TRUE]
    <3>1. new \in Row BY <1>1, RowColumns
    <3>2. row' = [row EXCEPT ![c] = new] BY <2>2 DEF BackoffEnds
    <3> QED BY <1>1, <2>2, <3>1, <3>2 DEF BackoffEnds, Row
  <2> QED BY <2>1, <2>2 DEF Clock
<1>3. /\ row' \in [Command -> Row]
      /\ \A d \in Command : /\ row'[d].status = row[d].status
                            /\ row'[d].attempt = row[d].attempt
                            /\ row'[d].maxAttempts = row[d].maxAttempts
                            /\ row'[d].deferrals = row[d].deferrals
                            /\ row'[d].workflow = row[d].workflow
  BY <1>1, <1>2 DEF TypeOK
<1>4. TypeOK'
  BY <1>1, <1>2, <1>3 DEF TypeOK, execVars, procVars
<1>5. \A d \in Command : RequestIsSound(d)'
  BY <1>2, <1>3 DEF IInv, RequestIsSound
<1>6. HistoryIsSound' /\ DispatchedNamesWorkflow' /\ BudgetsBounded' /\ StatusIsEarned'
  BY <1>2, <1>3 DEF IInv, HistoryIsSound, DispatchedNamesWorkflow, BudgetsBounded,
                    StatusIsEarned, execVars
<1> QED BY <1>2, <1>3, <1>4, <1>5, <1>6, OutsideStep DEF execVars, procVars

\* The owner's first read: the request remembers the status it was granted on,
\* and a bound one above the row's.
LEMMA AskStep ==
  ASSUME IInv, NEW c \in Command, AskCancel(c) \/ AskRetry(c)
  PROVE  IInv'
<1>1. TypeOK /\ row[c] \in Row BY DEF IInv, TypeOK
<1>2. PICK op \in {"cancel", "retry"}, bound \in {0, row[c].maxAttempts + 1} :
        /\ Ask(c, op, bound)
        /\ op = "cancel" => row[c].status \notin Terminal
        /\ op = "retry" => row[c].status = "failed"
  BY DEF AskCancel, AskRetry
<1>3. /\ req' = [req EXCEPT ![c] = Asked(c, op, bound)]
      /\ requests' = requests + 1
      /\ UNCHANGED <<row, lock, execVars, procVars, crashes>>
  BY <1>2 DEF Ask, rowVars
<1>4. bound \in Nat BY <1>1 DEF Row
<1>5. /\ Asked(c, op, bound) \in Request /\ Asked(c, op, bound).op = op
      /\ Asked(c, op, bound).status = row[c].status /\ Asked(c, op, bound).bound = bound
  BY <1>1, <1>4 DEF Asked, Request, Row, TypeOK
<1>6. TypeOK'
  BY <1>1, <1>3, <1>5 DEF TypeOK, execVars, procVars
<1>7. \A d \in Command : RequestIsSound(d)'
  BY <1>1, <1>2, <1>3, <1>5 DEF IInv, RequestIsSound, TypeOK
<1>8. HistoryIsSound' /\ DispatchedNamesWorkflow' /\ BudgetsBounded' /\ StatusIsEarned'
  BY <1>3 DEF IInv, HistoryIsSound, DispatchedNamesWorkflow, BudgetsBounded,
              StatusIsEarned, execVars
<1> QED BY <1>3, <1>6, <1>7, <1>8, OutsideStep DEF execVars, procVars

\* The owner's write leaves every copy a replica holds of the row stale, or
\* leaves everything but the attempt bound as it is.
LEMMA AnswerStep ==
  ASSUME IInv, NEW c \in Command, NEW op, NEW new \in Row, AnswerRequest(c, op),
         row' = [row EXCEPT ![c] = new],
         \/ lock[c] = None /\ copy' = Outdate(None, c)
         \/ new.status = row[c].status /\ new.deferrals = row[c].deferrals /\ copy' = copy,
         new.status \in {row[c].status, "pending", "cancelled"},
         new.workflow = row[c].workflow,
         new.attempt <= new.maxAttempts,
         new.deferrals <= MaxDeferrals
  PROVE  IInv'
<1>1. TypeOK BY DEF IInv
<1> USE CommandAssumption
<1>2. /\ req' = [req EXCEPT ![c] = NoRequest]
      /\ UNCHANGED <<lock, execVars, pc, cur, batch, seen, requests, crashes>>
  BY DEF AnswerRequest
<1>3. /\ req' \in [Command -> Request]
      /\ req'[c].op = "none" /\ ~req'[c].fresh /\ req'[c].bound = 0
      /\ \A d \in Command : d # c => req'[d] = req[d]
  BY <1>1, <1>2 DEF TypeOK, NoRequest, Request, Status
<1>4. /\ row' \in [Command -> Row] /\ row'[c] = new
      /\ \A d \in Command : d # c => row'[d] = row[d]
  BY <1>1 DEF TypeOK
<1>5. /\ copy' \in [Replica -> [Command -> Copy]]
      /\ \A s \in Replica, d \in Command : d # c => copy'[s][d] = copy[s][d]
      /\ \/ lock[c] = None /\ \A s \in Replica : ~copy'[s][c].fresh
         \/ /\ new.status = row[c].status /\ new.deferrals = row[c].deferrals
            /\ copy' = copy
  <2>1. CASE lock[c] = None /\ copy' = Outdate(None, c)
    BY <1>1, <2>1 DEF TypeOK, Outdate, Stale, ExpiredCopy, Copy
  <2>2. CASE /\ new.status = row[c].status /\ new.deferrals = row[c].deferrals
             /\ copy' = copy
    BY <1>1, <2>2 DEF TypeOK
  <2> QED BY <2>1, <2>2
<1>6. TypeOK'
  BY <1>1, <1>2, <1>3, <1>4, <1>5 DEF TypeOK, execVars
<1>7. \A d \in Command : RequestIsSound(d)'
  BY <1>3, <1>4 DEF IInv, RequestIsSound
<1>8. HistoryIsSound' /\ DispatchedNamesWorkflow' /\ BudgetsBounded' /\ StatusIsEarned'
  BY <1>2, <1>4 DEF IInv, HistoryIsSound, DispatchedNamesWorkflow, Dispatched,
     BudgetsBounded, StatusIsEarned, execVars
<1> QED BY <1>2, <1>4, <1>5, <1>6, <1>7, <1>8, OutsideStep DEF execVars

LEMMA OwnerCancelStep ==
  ASSUME IInv, NEW c \in Command, OwnerCancel(c)
  PROVE  IInv'
<1> DEFINE new == OwnerCancelled(c)
<1>1. /\ row[c] \in Row /\ req[c] \in Request /\ row \in [Command -> Row]
      /\ row[c].attempt <= row[c].maxAttempts /\ row[c].deferrals <= MaxDeferrals
  BY DEF IInv, TypeOK, BudgetsBounded
<1>2. /\ new \in Row
      /\ new.status \in {row[c].status, "cancelled"}
      /\ new.workflow = row[c].workflow
      /\ new.attempt = row[c].attempt /\ new.maxAttempts = row[c].maxAttempts
      /\ new.deferrals = row[c].deferrals
  <2>1. CASE req[c].status \in DispatchedOrStarting
    <3>1. new = [row[c] EXCEPT !.cancelRequested = req[c].rank]
      BY <2>1 DEF OwnerCancelled
    <3>2. req[c].rank \in Nat BY <1>1 DEF Request
    <3> QED BY <1>1, <3>1, <3>2, RowColumns DEF Row
  <2>2. CASE req[c].status \notin DispatchedOrStarting
    <3>1. new = [row[c] EXCEPT !.status = "cancelled", !.owner = None, !.lease = "none"]
      BY <2>2 DEF OwnerCancelled, Cancelled
    <3>2. [row[c] EXCEPT !.status = "cancelled", !.owner = None, !.lease = "none"] \in Row
      BY <1>1, RowColumns DEF Status
    <3> QED BY <1>1, <3>1, <3>2 DEF Row
  <2> QED BY <2>1, <2>2
<1>3. CASE OwnerWrites(c, new)
  <2>1. /\ lock[c] = None /\ copy' = Outdate(None, c)
        /\ row' = [row EXCEPT ![c] = new]
    BY <1>3 DEF OwnerWrites
  <2> HIDE DEF new
  <2> QED BY <1>1, <1>2, <2>1, AnswerStep DEF OwnerCancel
<1>4. CASE UNCHANGED <<row, copy>>
  <2>1. row' = [row EXCEPT ![c] = row[c]] BY <1>1, <1>4
  <2> QED BY <1>1, <1>4, <2>1, AnswerStep DEF OwnerCancel
<1> QED BY <1>3, <1>4 DEF OwnerCancel

LEMMA OwnerRetryStep ==
  ASSUME IInv, NEW c \in Command, OwnerRetry(c)
  PROVE  IInv'
<1> DEFINE bound == IF req[c].bound > 0 THEN req[c].bound ELSE row[c].maxAttempts
<1>1. /\ row[c] \in Row /\ req[c] \in Request /\ RequestIsSound(c)
      /\ row[c].attempt <= row[c].maxAttempts /\ row[c].deferrals <= MaxDeferrals
  BY DEF IInv, TypeOK, BudgetsBounded
<1>2. bound \in Nat /\ row[c].attempt <= bound
  BY <1>1 DEF Row, Request, RequestIsSound
<1>3. Rebounded(c) = [row[c] EXCEPT !.maxAttempts = bound]
  BY DEF Rebounded
<1> HIDE DEF bound
<1>4. [row[c] EXCEPT !.maxAttempts = bound] \in Row
  BY <1>1, <1>2, RowColumns
<1>5. /\ Rebounded(c) \in Row /\ Rebounded(c).status = row[c].status
      /\ Rebounded(c).workflow = row[c].workflow
      /\ Rebounded(c).attempt <= Rebounded(c).maxAttempts
      /\ Rebounded(c).deferrals = row[c].deferrals
      /\ Rebounded(c).deferrals <= MaxDeferrals
  BY <1>1, <1>2, <1>3, <1>4 DEF Row
<1>6. CASE req[c].fresh
  <2> DEFINE old == Rebounded(c)
             new == [old EXCEPT !.status = "pending", !.due = TRUE, !.owner = None,
                                !.lease = "none", !.deferrals = 0]
  <2>1. lock[c] = None /\ copy' = Outdate(None, c) /\ row' = [row EXCEPT ![c] = new]
    BY <1>6 DEF OwnerRetry, OwnerWrites, Requeued
  <2>2. old \in Row /\ old.workflow = row[c].workflow /\ old.attempt <= old.maxAttempts
    BY <1>5
  <2> HIDE DEF old
  <2>3. new \in Row
    BY <2>2, RowColumns DEF Status
  <2>4. /\ new.status = "pending" /\ new.workflow = row[c].workflow
        /\ new.attempt <= new.maxAttempts /\ new.deferrals <= MaxDeferrals
    BY <2>2, CommandAssumption DEF Row
  <2> HIDE DEF new
  <2> QED BY <2>1, <2>3, <2>4, AnswerStep DEF OwnerRetry
<1>7. CASE ~req[c].fresh
  <2>1. copy' = copy /\ row' = [row EXCEPT ![c] = Rebounded(c)]
    BY <1>7 DEF OwnerRetry
  <2> QED BY <1>5, <2>1, AnswerStep DEF OwnerRetry
<1> QED BY <1>6, <1>7

LEMMA ClusterStep ==
  ASSUME IInv, NEW c \in Command, Cluster(c)
  PROVE  IInv'
<1>1. TypeOK BY DEF IInv
<1>2. PICK from \in SUBSET (ExecState \ {"none"}), to \in ExecState \ {"none"} :
        ExecStep(c, from, to)
  BY DEF Cluster, ReachReview, Approve, Succeed, ReportFailure, CrashExecution,
         StopExecution, ExecState
<1>3. /\ exec[c] # "none"
      /\ exec' = [exec EXCEPT ![c] = to]
      /\ achieved' = [achieved EXCEPT ![c] = achieved[c] \cup {to}]
      /\ UNCHANGED <<rowVars, starts, told, procVars, req, requests, crashes>>
  BY <1>2 DEF ExecStep
<1>4. /\ exec' \in [Command -> ExecState]
      /\ achieved' \in [Command -> SUBSET ExecState]
      /\ \A d \in Command : achieved[d] \subseteq achieved'[d]
  BY <1>1, <1>3 DEF TypeOK
<1>5. TypeOK' BY <1>1, <1>3, <1>4 DEF TypeOK, rowVars, procVars
<1>6. HistoryIsSound'
  BY <1>1, <1>3, <1>4 DEF IInv, HistoryIsSound, TypeOK
<1>7. (\A d \in Command : RequestIsSound(d)') /\ DispatchedNamesWorkflow' /\ BudgetsBounded'
  BY <1>3 DEF IInv, RequestIsSound, DispatchedNamesWorkflow, BudgetsBounded, rowVars
<1>8. StatusIsEarned'
  BY <1>3, <1>4 DEF IInv, StatusIsEarned, rowVars
<1> QED BY <1>3, <1>4, <1>5, <1>6, <1>7, <1>8, OutsideStep DEF rowVars, procVars

-----------------------------------------------------------------------------
(* The theorems. *)

LEMMA InitIInv == Init => IInv
<1> SUFFICES ASSUME Init PROVE IInv OBVIOUS
<1> USE CommandAssumption
<1>1. NewRow \in Row /\ NewRow.status = "pending" /\ NewRow.attempt = 0 /\ NewRow.deferrals = 0
      /\ NewRow.maxAttempts = MaxAttempts
  BY DEF NewRow, Row, Status
<1>2. /\ NoRequest \in Request /\ NoRequest.op = "none"
      /\ ~NoRequest.fresh /\ NoRequest.bound = 0
  BY DEF NoRequest, Request, Status
<1>3. NoCopies \in [Command -> Copy] /\ \A c \in Command : ~NoCopies[c].fresh
  BY DEF NoCopies, ExpiredCopy, Copy
<1>4. \A c \in Command : row[c] = NewRow /\ req[c] = NoRequest /\ lock[c] = None
  BY DEF Init
<1>5. TypeOK
  <2>1. \A c \in Command : row[c].status # "dispatching" BY <1>1, <1>4
  <2> QED BY <1>1, <1>2, <1>3, <2>1 DEF Init, TypeOK, ExecState, PC, Observation
<1>6. ASSUME NEW r \in Replica PROVE ReplicaIsSound(r)
  BY <1>3, <1>4 DEF Init, ReplicaIsSound, CopiesAreCurrent, HoldsItsLocks, CopyAllows,
     EvidenceIsReal, Working, Releasing
<1>7. \A c \in Command : RequestIsSound(c)
  <2> TAKE c \in Command
  <2>1. req[c].op = "none" /\ ~req[c].fresh /\ req[c].bound = 0 BY <1>2, <1>4
  <2> QED BY <2>1 DEF RequestIsSound
<1>8. HistoryIsSound /\ DispatchedNamesWorkflow /\ BudgetsBounded /\ StatusIsEarned
  BY <1>1, <1>4 DEF Init, HistoryIsSound, DispatchedNamesWorkflow, Dispatched,
     BudgetsBounded, StatusIsEarned
<1> QED BY <1>5, <1>6, <1>7, <1>8 DEF IInv

LEMMA NextIInv == IInv /\ [Next]_vars => IInv'
<1> SUFFICES ASSUME IInv, [Next]_vars PROVE IInv' OBVIOUS
<1>1. ASSUME NEW r \in Replica, Dispatch(r) PROVE IInv'
  BY <1>1, ScanStep, ClaimStep, PrepareStep, MarkDispatchingStep, StartWorkflowStep,
     RefuseStep, DispatchRaisesStep, ReadForReleaseStep, ReleaseStep, ReadForRunningStep,
     MarkRunningStep DEF Dispatch, Unreachable, DispatchError
<1>2. ASSUME NEW r \in Replica, HonourCancellations(r) PROVE IInv'
  BY <1>2, ScanCancellationsStep, CancelWorkflowStep, CancelUnreachableStep, CancelRowStep,
     CommitCancellationsStep DEF HonourCancellations
<1>3. ASSUME NEW r \in Replica, SettleRunning(r) PROVE IInv'
  BY <1>3, ScanRunningStep, ObserveStep, ObserveFailsStep, SettleStep, EndPassStep
     DEF SettleRunning
<1>4. ASSUME NEW r \in Replica, Kill(r) \/ Restart(r) PROVE IInv'
  BY <1>4, KillStep, RestartStep
<1>5. ASSUME NEW c \in Command, Owner(c) \/ Cluster(c) \/ Clock(c) PROVE IInv'
  BY <1>5, AskStep, OwnerCancelStep, OwnerRetryStep, ClusterStep, ClockStep DEF Owner
<1>6. CASE UNCHANGED vars
  BY <1>6 DEF IInv, vars, rowVars, execVars, procVars, TypeOK, ReplicaIsSound,
     CopiesAreCurrent, HoldsItsLocks, CopyAllows, EvidenceIsReal, RequestIsSound,
     HistoryIsSound, DispatchedNamesWorkflow, BudgetsBounded, StatusIsEarned
<1> QED BY <1>1, <1>2, <1>3, <1>4, <1>5, <1>6 DEF Next, RunOnce

THEOREM Invariance == Spec => []IInv
<1> QED BY InitIInv, NextIInv, PTL DEF Spec

\* Every variable keeps its type, and no session ever sees a committed
\* `dispatching': the status lives and dies inside one transaction.
THEOREM TypeCorrect == Spec => []TypeOK
<1>1. IInv => TypeOK BY DEF IInv
<1> QED BY <1>1, Invariance, PTL

\* What a row reports as dispatched really was: mark_running comes after the
\* start and names it, and no other write sets such a status.
THEOREM DispatchNamesItsWorkflow == Spec => []DispatchedNamesWorkflow
<1>1. IInv => DispatchedNamesWorkflow BY DEF IInv
<1> QED BY <1>1, Invariance, PTL

\* Neither the attempts nor the deferrals of a command are ever overspent, for
\* any number of replicas, crashes and owner retries.
THEOREM BudgetsHold == Spec => []BudgetsBounded
<1>1. IInv => BudgetsBounded BY DEF IInv
<1> QED BY <1>1, Invariance, PTL

\* settle_running reports completion and review only when an execution of the
\* command reached them.
THEOREM SettlesOnEvidence == Spec => []StatusIsEarned
<1>1. IInv => StatusIsEarned BY DEF IInv
<1> QED BY <1>1, Invariance, PTL

\* No action writes a command that is completed, cancelled or superseded.
LEMMA FinishedStep ==
  ASSUME IInv, [Next]_vars, NEW c \in Command,
         row[c].status \in {"completed", "cancelled", "superseded"}
  PROVE  row'[c].status = row[c].status
<1>1. TypeOK /\ (\A r \in Replica : ReplicaIsSound(r)) /\ RequestIsSound(c) BY DEF IInv
<1>2. Allowed(row[c].status) = {} /\ row[c].status \notin Settleable \cup Claimable
  BY DEF Allowed, Settleable, Claimable
<1>3. ASSUME NEW r \in Replica, NEW d \in Command, NEW new, Commit(r, d, new), d # c
      PROVE  row'[c] = row[c]
  BY <1>1, <1>3 DEF Commit, TypeOK
<1>4. ASSUME NEW r \in Replica, Dispatch(r) PROVE row'[c].status = row[c].status
  <2>1. ASSUME NEW d \in Command, Claim(r, d) PROVE row'[c].status = row[c].status
    <3>1. CASE row[d].status \in Claimable
      BY <1>2, <1>3, <2>1, <3>1 DEF Claim, NoWrite
    <3>2. CASE row[d].status \notin Claimable
      BY <2>1, <3>2 DEF Claim, NoWrite
    <3> QED BY <3>1, <3>2
  <2>2. CASE Prepare(r) BY <2>2 DEF Prepare, Die, Rollback
  <2>3. CASE ReadForRelease(r) BY <2>3 DEF ReadForRelease, Die, Rollback, NoWrite
  <2>4. CASE Release(r)
    <3>1. cur[r] \in Command /\ pc[r] \in Releasing
      BY <1>1, <2>4 DEF Release, ReplicaIsSound, CopyAllows, Working, Releasing
    <3>2. CASE copy[r][cur[r]].fresh
      <4>1. cur[r] # c
        BY <1>1, <1>2, <3>1, <3>2 DEF ReplicaIsSound, CopyAllows
      <4> QED BY <1>3, <2>4, <3>1, <3>2, <4>1 DEF Release
    <3>3. CASE ~copy[r][cur[r]].fresh BY <2>4, <3>3 DEF Release, NoWrite
    <3> QED BY <3>2, <3>3
  <2>5. CASE ReadForRunning(r) BY <2>5 DEF ReadForRunning, Die, Rollback, NoWrite
  <2>6. CASE MarkRunning(r)
    <3>1. cur[r] \in Command /\ pc[r] = "to_running"
      BY <1>1, <2>6 DEF MarkRunning, ReplicaIsSound, CopyAllows, Working
    <3>2. CASE copy[r][cur[r]].fresh
      <4>1. cur[r] # c
        BY <1>1, <3>1, <3>2 DEF ReplicaIsSound, CopyAllows
      <4> QED BY <1>3, <2>6, <3>1, <3>2, <4>1 DEF MarkRunning
    <3>3. CASE ~copy[r][cur[r]].fresh BY <2>6, <3>3 DEF MarkRunning, NoWrite
    <3> QED BY <3>2, <3>3
  <2>7. CASE Scan(r) BY <2>7 DEF Scan, rowVars
  <2>8. CASE MarkDispatching(r) BY <2>8 DEF MarkDispatching
  <2>9. CASE StartWorkflow(r) BY <2>9 DEF StartWorkflow, rowVars
  <2>10. CASE Refuse(r) BY <2>10 DEF Refuse, Rollback
  <2>11. CASE Unreachable(r) \/ DispatchError(r)
    BY <2>11 DEF Unreachable, DispatchError, DispatchRaises, Rollback
  <2> QED BY <1>4, <2>1, <2>2, <2>3, <2>4, <2>5, <2>6, <2>7, <2>8, <2>9, <2>10, <2>11
          DEF Dispatch
<1>5. ASSUME NEW r \in Replica, HonourCancellations(r) PROVE row'[c].status = row[c].status
  <2>1. CASE CommitCancellations(r)
    <3>1. lock[c] # r
      BY <1>1, <1>2, <2>1 DEF CommitCancellations, ReplicaIsSound, HoldsItsLocks
    <3> QED BY <2>1, <3>1 DEF CommitCancellations
  <2>2. CASE ScanCancellations(r) BY <2>2 DEF ScanCancellations, rowVars
  <2>3. ASSUME NEW d \in Command, CancelWorkflow(r, d) \/ CancelUnreachable(r, d)
        PROVE  row' = row
    BY <2>3 DEF CancelWorkflow, CancelUnreachable, rowVars
  <2>4. CASE CancelRow(r) BY <2>4 DEF CancelRow
  <2> QED BY <1>5, <2>1, <2>2, <2>3, <2>4 DEF HonourCancellations
<1>6. ASSUME NEW r \in Replica, SettleRunning(r) PROVE row'[c].status = row[c].status
  <2>1. CASE Settle(r)
    <3> DEFINE d == cur[r]
               s == IF copy[r][d].status = "expired" THEN row[d].status ELSE copy[r][d].status
               target == SettleTarget(d, s, seen[r])
    <3>1. d \in Command
      BY <1>1, <2>1 DEF Settle, ReplicaIsSound, CopyAllows, Working
    <3>2. CASE target \in Allowed(s) /\ HoldsVersion(r, d) /\ Commit(r, d, Settled(d, target))
      <4>1. s = row[d].status
        BY <1>1, <3>1, <3>2 DEF HoldsVersion, ReplicaIsSound, CopiesAreCurrent
      <4>2. d # c BY <1>2, <3>2, <4>1
      <4>3. Commit(r, d, Settled(d, target)) BY <3>2
      <4> HIDE DEF d, s, target
      <4> QED BY <1>3, <3>1, <4>2, <4>3
    <3>3. CASE Rollback(r) \/ NoWrite BY <3>3 DEF Rollback, NoWrite
    <3> QED BY <2>1, <3>2, <3>3 DEF Settle
  <2>2. CASE ScanRunning(r) BY <2>2 DEF ScanRunning, rowVars
  <2>3. ASSUME NEW d \in Command, Observe(r, d) \/ ObserveFails(r, d) PROVE row' = row
    BY <2>3 DEF Observe, ObserveFails, Rollback, rowVars
  <2>4. CASE EndPass(r) BY <2>4 DEF EndPass, rowVars
  <2> QED BY <1>6, <2>1, <2>2, <2>3, <2>4 DEF SettleRunning
<1>7. ASSUME NEW r \in Replica, Kill(r) \/ Restart(r) PROVE row' = row
  BY <1>7 DEF Kill, Restart, Die, Rollback, rowVars
<1>8. ASSUME NEW d \in Command, Owner(d) PROVE row'[c].status = row[c].status
  <2>1. CASE AskCancel(d) \/ AskRetry(d) BY <2>1 DEF AskCancel, AskRetry, Ask, rowVars
  <2>2. CASE OwnerCancel(d)
    <3>1. row' = row \/ (req[d].fresh /\ row' = [row EXCEPT ![d] = OwnerCancelled(d)])
      BY <2>2 DEF OwnerCancel, OwnerWrites
    <3>2. d = c => req[c].op = "cancel" BY <2>2 DEF OwnerCancel, AnswerRequest
    <3>3. d = c => ~req[d].fresh BY <1>1, <3>2 DEF RequestIsSound, Terminal
    <3> QED BY <1>1, <3>1, <3>3 DEF TypeOK
  <2>3. CASE OwnerRetry(d)
    <3>1. \/ row' = [row EXCEPT ![d] = Rebounded(d)]
          \/ req[d].fresh /\ row' = [row EXCEPT ![d] = Requeued(d)]
      BY <2>3 DEF OwnerRetry, OwnerWrites
    <3>2. d = c => req[c].op = "retry" BY <2>3 DEF OwnerRetry, AnswerRequest
    <3>3. d = c => ~req[d].fresh BY <1>1, <3>2 DEF RequestIsSound
    <3>4. row[d] \in Row BY <1>1 DEF TypeOK
    <3>5. Rebounded(d).status = row[d].status BY <3>4 DEF Rebounded, Row
    <3> HIDE DEF Rebounded, Requeued
    <3> QED BY <1>1, <3>1, <3>3, <3>5 DEF TypeOK
  <2> QED BY <1>8, <2>1, <2>2, <2>3 DEF Owner
<1>9. ASSUME NEW d \in Command, Cluster(d) PROVE row' = row
  BY <1>9 DEF Cluster, ReachReview, Approve, Succeed, ReportFailure, CrashExecution,
     StopExecution, ExecStep, rowVars
<1>10. ASSUME NEW d \in Command, Clock(d) PROVE row'[c] = row[c]
  <2>1. row[d].status \in {"claimed", "pending"}
    BY <1>10 DEF Clock, LeaseExpires, BackoffEnds
  <2>2. d # c BY <2>1
  <2> QED BY <1>1, <1>10, <2>2 DEF Clock, LeaseExpires, BackoffEnds, TypeOK
<1>11. CASE UNCHANGED vars BY <1>11 DEF vars, rowVars
<1> QED BY <1>4, <1>5, <1>6, <1>7, <1>8, <1>9, <1>10, <1>11 DEF Next, RunOnce

\* No copy, start or observation of another age takes a completed, cancelled or
\* superseded command out of its status: every write either checks the status
\* graph on the row it reads or goes through a copy that is still fresh.
THEOREM FinishedForGood == Spec => FinishedStays
<1>1. IInv /\ [Next]_vars =>
        [\A c \in Command : row[c].status \in Terminal \ {"failed"} =>
                               row'[c].status = row[c].status]_vars
  <2> SUFFICES ASSUME IInv, [Next]_vars, NEW c \in Command,
                      row[c].status \in Terminal \ {"failed"}
               PROVE  row'[c].status = row[c].status
    OBVIOUS
  <2>1. row[c].status \in {"completed", "cancelled", "superseded"} BY DEF Terminal
  <2> QED BY <2>1, FinishedStep
<1> QED BY <1>1, Invariance, PTL DEF Spec, FinishedStays

-----------------------------------------------------------------------------
(* A dispatcher alone: with one replica nobody moves the command it works on *)
(* but the owner, and nobody starts what it has told to stop.               *)

\* The steps from a claim to the release of the command or its record.
Handling == {"prepare", "mark", "dispatch", "record", "to_running",
             "fail_retry", "fail_final", "defer"} \cup Releasing

Cancelling == {"cancel_rpc", "cancel_row"}

AloneInv ==
  \A r \in Replica :
    /\ pc[r] \in Handling => row[cur[r]].status \in {"claimed", "cancelled"}
    /\ pc[r] = "cancel_row" => told[cur[r]]
    /\ pc[r] \in Cancelling => \A c \in Command : lock[c] = r => told[c]

\* What a step that is not the owner's may do to a command.
KeepsFailed ==
  \A c \in Command : /\ row[c].status = "failed" => row'[c].status = "failed"
                     /\ row[c].status \in Settleable /\ row'[c].status = "cancelled" => told[c]

\* A replica that is at neither kind of step has nothing to show.
LEMMA AloneQuiet ==
  ASSUME NEW r \in Replica, \A s \in Replica : s = r, pc'[r] \notin Handling \cup Cancelling
  PROVE  AloneInv'
BY DEF AloneInv, Cancelling

\* A replica that goes on with the command it handles, or dies.
LEMMA AloneHandles ==
  ASSUME AloneInv, NEW r \in Replica, \A s \in Replica : s = r,
         pc[r] \in Handling, pc'[r] \in Handling \cup {"dead"}, UNCHANGED row,
         pc'[r] \in Handling => UNCHANGED cur
  PROVE  AloneInv' /\ KeepsFailed
<1>1. pc'[r] \notin Cancelling BY DEF Handling, Releasing, Cancelling
<1>2. CASE pc'[r] = "dead" BY <1>2, AloneQuiet DEF Handling, Releasing, Cancelling, KeepsFailed, Settleable
<1>3. CASE pc'[r] \in Handling
  <2>1. row'[cur'[r]].status \in {"claimed", "cancelled"} BY <1>3 DEF AloneInv
  <2>2. AloneInv' BY <1>1, <2>1 DEF AloneInv, Cancelling
  <2> QED BY <2>2 DEF KeepsFailed, Settleable
<1> QED BY <1>2, <1>3

\* One row is written with a status its present one leads to.
LEMMA AloneWrites ==
  ASSUME TypeOK, NEW r \in Replica, NEW c \in Command, NEW new, Commit(r, c, new),
         row[c].status # "failed", new.status # "cancelled"
  PROVE  KeepsFailed
<1>1. row' = [row EXCEPT ![c] = new] BY DEF Commit
<1>2. \A d \in Command : row'[d] = IF d = c THEN new ELSE row[d] BY <1>1 DEF TypeOK
<1> QED BY <1>2 DEF KeepsFailed, Settleable

LEMMA AloneDispatch ==
  ASSUME IInv, AloneInv, NEW r \in Replica, \A s \in Replica : s = r, Dispatch(r)
  PROVE  AloneInv' /\ KeepsFailed
<1>0. TypeOK /\ ReplicaIsSound(r) /\ pc \in [Replica -> PC] /\ cur \in [Replica -> Command \cup {None}]
  BY DEF IInv, TypeOK
<1>1. CASE Scan(r)
  <2>1. pc'[r] \in {"cancel_scan", "claim"} /\ UNCHANGED row BY <1>0, <1>1 DEF Scan, Goto, rowVars
  <2> QED BY <2>1, AloneQuiet DEF Handling, Releasing, Cancelling, KeepsFailed, Settleable
<1>2. ASSUME NEW c \in Command, Claim(r, c) PROVE AloneInv' /\ KeepsFailed
  <2> DEFINE new == [row[c] EXCEPT !.status = "claimed", !.owner = r,
                             !.lease = "live", !.attempt = @ + 1]
  <2>0. row[c] \in Row BY <1>0 DEF TypeOK
  <2>1. new.status = "claimed" BY <2>0 DEF Row
  <2>2. \/ /\ row[c].status \in Claimable /\ Commit(r, c, new)
           /\ cur' = [cur EXCEPT ![r] = c] /\ Goto(r, "prepare")
        \/ NoWrite /\ \E label \in {"cancel_scan", "claim"} : Goto(r, label)
    BY <1>2 DEF Claim
  <2> HIDE DEF new
  <2>3. CASE /\ row[c].status \in Claimable /\ Commit(r, c, new)
             /\ cur' = [cur EXCEPT ![r] = c] /\ Goto(r, "prepare")
    <3>1. pc'[r] = "prepare" /\ cur'[r] = c BY <1>0, <2>3 DEF Goto
    <3>2. row'[c].status = "claimed" BY <1>0, <2>1, <2>3 DEF Commit, TypeOK
    <3>3. AloneInv' BY <3>1, <3>2 DEF AloneInv, Cancelling
    <3>4. KeepsFailed BY <1>0, <2>1, <2>3, AloneWrites DEF Claimable
    <3> QED BY <3>3, <3>4
  <2>4. CASE NoWrite /\ \E label \in {"cancel_scan", "claim"} : Goto(r, label)
    <3>1. pc'[r] \in {"cancel_scan", "claim"} /\ UNCHANGED row BY <1>0, <2>4 DEF Goto, NoWrite
    <3> QED BY <3>1, AloneQuiet DEF Handling, Releasing, Cancelling, KeepsFailed, Settleable
  <2> QED BY <2>2, <2>3, <2>4
<1>3. CASE Prepare(r)
  <2>1. /\ pc[r] = "prepare" /\ UNCHANGED row
        /\ (Goto(r, "mark") /\ UNCHANGED cur) \/ Goto(r, "dead")
    BY <1>3 DEF Prepare, Die, Rollback
  <2>2. CASE Goto(r, "mark") /\ UNCHANGED cur
    <3>1. pc'[r] = "mark" BY <1>0, <2>2 DEF Goto
    <3> QED BY <2>1, <2>2, <3>1, AloneHandles DEF Handling
  <2>3. CASE Goto(r, "dead")
    <3>1. pc'[r] = "dead" BY <1>0, <2>3 DEF Goto
    <3> QED BY <2>1, <3>1, AloneHandles DEF Handling, Releasing
  <2> QED BY <2>1, <2>2, <2>3
<1>4. CASE MarkDispatching(r)
  <2>1. pc[r] = "mark" /\ pc'[r] = "dispatch" /\ UNCHANGED <<row, cur>>
    BY <1>0, <1>4 DEF MarkDispatching, Goto
  <2> QED BY <2>1, AloneHandles DEF Handling
<1>5. CASE StartWorkflow(r)
  <2>1. pc[r] = "dispatch" /\ pc'[r] = "record" /\ UNCHANGED <<row, cur>>
    BY <1>0, <1>5 DEF StartWorkflow, Goto, rowVars
  <2> QED BY <2>1, AloneHandles DEF Handling
<1>6. CASE Refuse(r)
  <2>1. /\ pc[r] = "dispatch" /\ UNCHANGED <<row, cur>>
        /\ \E handler \in {"fail_final", "fail_retry"} : Goto(r, handler)
    BY <1>6 DEF Refuse, Rollback
  <2>2. pc'[r] \in {"fail_final", "fail_retry"} BY <1>0, <2>1 DEF Goto
  <2> QED BY <2>1, <2>2, AloneHandles DEF Handling
<1>7. CASE Unreachable(r) \/ DispatchError(r)
  <2>1. /\ pc[r] = "dispatch" /\ UNCHANGED <<row, cur>>
        /\ \E handler \in {"defer", "fail_retry"} : Goto(r, handler)
    BY <1>7 DEF Unreachable, DispatchError, DispatchRaises, Rollback
  <2>2. pc'[r] \in {"defer", "fail_retry"} BY <1>0, <2>1 DEF Goto
  <2> QED BY <2>1, <2>2, AloneHandles DEF Handling
<1>8. ASSUME NextCommand(r), NoWrite PROVE AloneInv' /\ KeepsFailed
  <2>1. pc'[r] \in {"cancel_scan", "claim"} /\ UNCHANGED row BY <1>0, <1>8 DEF NextCommand, Goto, NoWrite
  <2> QED BY <2>1, AloneQuiet DEF Handling, Releasing, Cancelling, KeepsFailed, Settleable
<1>9. CASE ReadForRelease(r)
  <2>1. /\ pc[r] \in {"fail_retry", "fail_final", "defer"}
        /\ \/ Goto(r, ReleaseTarget(r)) /\ UNCHANGED <<row, cur>>
           \/ NextCommand(r) /\ NoWrite
           \/ Goto(r, "dead") /\ UNCHANGED row
    BY <1>9 DEF ReadForRelease, Die, Rollback
  <2>2. ReleaseTarget(r) \in Releasing BY DEF ReleaseTarget, Releasing
  <2>3. CASE Goto(r, ReleaseTarget(r)) /\ UNCHANGED <<row, cur>>
    <3>1. pc'[r] \in Releasing BY <1>0, <2>2, <2>3 DEF Goto
    <3> QED BY <2>1, <2>3, <3>1, AloneHandles DEF Handling
  <2>4. CASE Goto(r, "dead") /\ UNCHANGED row
    <3>1. pc'[r] = "dead" BY <1>0, <2>4 DEF Goto
    <3> QED BY <2>1, <2>4, <3>1, AloneHandles DEF Handling, Releasing
  <2> QED BY <1>8, <2>1, <2>3, <2>4
<1>10. CASE Release(r)
  <2>1. /\ pc[r] \in Releasing /\ NextCommand(r)
        /\ \/ copy[r][cur[r]].fresh /\ Commit(r, cur[r], Released(cur[r], pc[r]))
           \/ NoWrite
    BY <1>10 DEF Release, Releasing
  <2>2. PICK c \in Command : c = cur[r] BY <1>0, <2>1 DEF ReplicaIsSound, CopyAllows, Working, Releasing
  <2>3. CASE copy[r][cur[r]].fresh /\ Commit(r, cur[r], Released(cur[r], pc[r]))
    <3>1. row[c].status \in {"claimed", "cancelled"} BY <2>1, <2>2 DEF AloneInv, Handling
    <3>2. pc[r] = "to_deferred" => row[c].deferrals < MaxDeferrals
      BY <1>0, <2>2, <2>3 DEF ReplicaIsSound, CopyAllows
    <3>3. Released(c, pc[r]).status \in {"pending", "failed"}
      BY <2>1, <3>2, ReleasedIsSound DEF IInv
    <3>4. Commit(r, c, Released(c, pc[r])) BY <2>2, <2>3
    <3>5. KeepsFailed BY <1>0, <3>1, <3>3, <3>4, AloneWrites
    <3>6. pc'[r] \in {"cancel_scan", "claim"} BY <1>0, <2>1 DEF NextCommand, Goto
    <3> QED BY <3>5, <3>6, AloneQuiet DEF Handling, Releasing, Cancelling
  <2> QED BY <1>8, <2>1, <2>3
<1>11. CASE ReadForRunning(r)
  <2>1. /\ pc[r] = "record"
        /\ \/ Goto(r, "to_running") /\ UNCHANGED <<row, cur>>
           \/ NextCommand(r) /\ NoWrite
           \/ Goto(r, "dead") /\ UNCHANGED row
    BY <1>11 DEF ReadForRunning, Die, Rollback
  <2>2. CASE Goto(r, "to_running") /\ UNCHANGED <<row, cur>>
    <3>1. pc'[r] = "to_running" BY <1>0, <2>2 DEF Goto
    <3> QED BY <2>1, <2>2, <3>1, AloneHandles DEF Handling
  <2>3. CASE Goto(r, "dead") /\ UNCHANGED row
    <3>1. pc'[r] = "dead" BY <1>0, <2>3 DEF Goto
    <3> QED BY <2>1, <2>3, <3>1, AloneHandles DEF Handling, Releasing
  <2> QED BY <1>8, <2>1, <2>2, <2>3
<1>12. CASE MarkRunning(r)
  <2>1. /\ pc[r] = "to_running" /\ NextCommand(r)
        /\ \/ copy[r][cur[r]].fresh /\ Commit(r, cur[r], MarkedRunning(cur[r]))
           \/ NoWrite
    BY <1>12 DEF MarkRunning
  <2>2. PICK c \in Command : c = cur[r] BY <1>0, <2>1 DEF ReplicaIsSound, CopyAllows, Working
  <2>3. CASE copy[r][cur[r]].fresh /\ Commit(r, cur[r], MarkedRunning(cur[r]))
    <3>1. row[c].status \in {"claimed", "awaiting_review"}
      BY <1>0, <2>1, <2>2, <2>3 DEF ReplicaIsSound, CopyAllows
    <3>2. MarkedRunning(c).status = "running" BY <1>0, MarkedRunningIsSound DEF IInv
    <3>3. Commit(r, c, MarkedRunning(c)) BY <2>2, <2>3
    <3>4. KeepsFailed BY <1>0, <3>1, <3>2, <3>3, AloneWrites
    <3>5. pc'[r] \in {"cancel_scan", "claim"} BY <1>0, <2>1 DEF NextCommand, Goto
    <3> QED BY <3>4, <3>5, AloneQuiet DEF Handling, Releasing, Cancelling
  <2> QED BY <1>8, <2>1, <2>3
<1> QED BY <1>1, <1>2, <1>3, <1>4, <1>5, <1>6, <1>7, <1>9, <1>10, <1>11, <1>12 DEF Dispatch

LEMMA AloneCancels ==
  ASSUME IInv, AloneInv, NEW r \in Replica, \A s \in Replica : s = r, HonourCancellations(r)
  PROVE  AloneInv' /\ KeepsFailed
<1>0. TypeOK /\ ReplicaIsSound(r) /\ pc \in [Replica -> PC] /\ cur \in [Replica -> Command \cup {None}]
  BY DEF IInv, TypeOK
<1>1. UNCHANGED row => KeepsFailed BY DEF KeepsFailed, Settleable
<1>2. CASE ScanCancellations(r)
  <2>1. pc[r] = "cancel_scan" /\ pc'[r] \in {"settle_scan", "cancel_rpc"} /\ UNCHANGED <<row, lock>>
    BY <1>0, <1>2 DEF ScanCancellations, Goto, rowVars
  <2>2. \A c \in Command : lock[c] # r BY <1>0, <2>1 DEF ReplicaIsSound, HoldsItsLocks
  <2>3. pc'[r] \notin Handling /\ pc'[r] # "cancel_row" BY <2>1 DEF Handling, Releasing
  <2> QED BY <1>1, <2>1, <2>2, <2>3 DEF AloneInv
<1>3. ASSUME NEW c \in Command, CancelWorkflow(r, c) PROVE AloneInv' /\ KeepsFailed
  <2>1. /\ pc[r] = "cancel_rpc" /\ pc'[r] = "cancel_row" /\ cur'[r] = c /\ UNCHANGED <<row, lock>>
        /\ told' = [told EXCEPT ![c] = TRUE]
    BY <1>0, <1>3 DEF CancelWorkflow, Goto, rowVars
  <2>2. \A d \in Command : told'[d] = IF d = c THEN TRUE ELSE told[d] BY <1>0, <2>1 DEF TypeOK
  <2>3. \A d \in Command : lock[d] = r => told[d] BY <2>1 DEF AloneInv, Cancelling
  <2>4. pc'[r] \notin Handling BY <2>1 DEF Handling, Releasing
  <2> QED BY <1>1, <2>1, <2>2, <2>3, <2>4 DEF AloneInv
<1>4. ASSUME NEW c \in Command, CancelUnreachable(r, c) PROVE AloneInv' /\ KeepsFailed
  <2>1. UNCHANGED <<pc, cur, row, lock, told>> BY <1>4 DEF CancelUnreachable, rowVars, execVars
  <2> QED BY <1>1, <2>1 DEF AloneInv
<1>5. CASE CancelRow(r)
  <2>1. /\ pc[r] = "cancel_row" /\ pc'[r] = "cancel_rpc" /\ UNCHANGED <<row, told>>
        /\ UNCHANGED lock \/ lock' = [lock EXCEPT ![cur[r]] = r]
    BY <1>0, <1>5 DEF CancelRow, Goto, execVars
  <2>2. told[cur[r]] /\ \A d \in Command : lock[d] = r => told[d] BY <2>1 DEF AloneInv, Cancelling
  <2>3. \A d \in Command : lock'[d] = r => d = cur[r] \/ lock[d] = r BY <1>0, <2>1 DEF TypeOK
  <2>4. pc'[r] \notin Handling BY <2>1 DEF Handling, Releasing
  <2> QED BY <1>1, <2>1, <2>2, <2>3, <2>4 DEF AloneInv
<1>6. CASE CommitCancellations(r)
  <2>1. /\ pc[r] = "cancel_rpc" /\ pc'[r] = "settle_scan"
        /\ row' = [c \in Command |-> IF lock[c] = r THEN Cancelled(c) ELSE row[c]]
    BY <1>0, <1>6 DEF CommitCancellations, Goto
  <2>2. \A c \in Command : lock[c] = r => row[c].status \in Settleable /\ told[c]
    BY <1>0, <2>1 DEF AloneInv, Cancelling, ReplicaIsSound, HoldsItsLocks
  <2> HIDE DEF Cancelled
  <2>3. \A c \in Command : lock[c] # r => row'[c] = row[c] BY <2>1
  <2>4. KeepsFailed BY <2>2, <2>3 DEF KeepsFailed, Settleable
  <2> QED BY <2>1, <2>4, AloneQuiet DEF Handling, Releasing, Cancelling
<1> QED BY <1>2, <1>3, <1>4, <1>5, <1>6 DEF HonourCancellations

LEMMA AloneSettles ==
  ASSUME IInv, AloneInv, NEW r \in Replica, \A s \in Replica : s = r, SettleRunning(r)
  PROVE  AloneInv' /\ KeepsFailed
<1>0. TypeOK /\ ReplicaIsSound(r) /\ pc \in [Replica -> PC] BY DEF IInv, TypeOK
<1>1. UNCHANGED row => KeepsFailed BY DEF KeepsFailed, Settleable
<1>2. pc'[r] \in {"scan", "observe", "settle"}
  <2>1. ASSUME NEW c \in Command, Observe(r, c) \/ ObserveFails(r, c) PROVE pc'[r] \in {"observe", "settle"}
    BY <1>0, <2>1 DEF Observe, ObserveFails, Goto
  <2>2. CASE ScanRunning(r) BY <1>0, <2>2 DEF ScanRunning, Goto
  <2>3. CASE Settle(r) BY <1>0, <2>3 DEF Settle, Goto
  <2>4. CASE EndPass(r) BY <1>0, <2>4 DEF EndPass, Goto
  <2> QED BY <2>1, <2>2, <2>3, <2>4 DEF SettleRunning
<1>3. AloneInv' BY <1>2, AloneQuiet DEF Handling, Releasing, Cancelling
<1>4. ASSUME NEW c \in Command, Observe(r, c) \/ ObserveFails(r, c) PROVE UNCHANGED row
  BY <1>4 DEF Observe, ObserveFails, Rollback, rowVars
<1>5. CASE ScanRunning(r) \/ EndPass(r) BY <1>1, <1>3, <1>5 DEF ScanRunning, EndPass, rowVars
<1>6. CASE Settle(r)
  <2> DEFINE d == cur[r]
             s == IF copy[r][d].status = "expired" THEN row[d].status ELSE copy[r][d].status
             target == SettleTarget(d, s, seen[r])
  <2>1. d \in Command BY <1>0, <1>6 DEF Settle, ReplicaIsSound, CopyAllows, Working
  <2>2. CASE target \in Allowed(s) /\ HoldsVersion(r, d) /\ Commit(r, d, Settled(d, target))
    <3>1. s = row[d].status /\ s \in Status
      BY <1>0, <2>1, <2>2 DEF HoldsVersion, ReplicaIsSound, CopiesAreCurrent, TypeOK, Row
    <3>2. s \notin Allowed(s) BY <3>1, AllowedFacts
    <3>3. target \in {"completed", "failed", "awaiting_review", "running"}
          /\ (target = "running" => s = "awaiting_review")
      BY <2>2, <3>2 DEF SettleTarget
    <3>4. s # "failed" BY <2>2, <3>3 DEF Allowed
    <3>5. target = "failed" \/ s \in Settleable
      BY <2>2, <3>1, <3>3, AllowedFacts DEF Settleable
    <3>6. Settled(d, target).status = target
      BY <1>0, <2>1, <3>1, <3>3, <3>5, SettledIsSound DEF IInv
    <3>7. Commit(r, d, Settled(d, target)) BY <2>2
    <3> HIDE DEF d, s, target
    <3>8. Settled(d, target).status # "cancelled" BY <3>3, <3>6
    <3> QED BY <1>0, <1>3, <2>1, <3>1, <3>4, <3>7, <3>8, AloneWrites
  <2>3. CASE Rollback(r) \/ NoWrite BY <1>1, <1>3, <2>3 DEF Rollback, NoWrite
  <2> QED BY <1>6, <2>2, <2>3 DEF Settle
<1> QED BY <1>1, <1>3, <1>4, <1>5, <1>6 DEF SettleRunning

\* The owner, the cluster and the clock move the command in hand, if at all, to
\* `cancelled', and only a retry moves a failed one.
LEMMA AloneOutside ==
  ASSUME IInv, AloneInv, NEW c \in Command, Owner(c) \/ Cluster(c) \/ Clock(c)
  PROVE  /\ AloneInv'
         /\ \A d \in Command :
              /\ row[d].status = "failed" /\ row'[d].status # "failed" =>
                   row'[d].status = "pending" /\ req[d].op = "retry" /\ req'[d].op = "none"
              /\ row[d].status \in Settleable => row'[d].status # "cancelled"
<1>0. TypeOK /\ RequestIsSound(c) BY DEF IInv
<1>1. UNCHANGED <<pc, cur, lock, told>>
  <2>1. CASE Owner(c)
    BY <2>1 DEF Owner, AskCancel, AskRetry, Ask, OwnerCancel, OwnerRetry, AnswerRequest, rowVars, execVars, procVars
  <2>2. CASE Cluster(c)
    BY <2>2 DEF Cluster, ReachReview, Approve, Succeed, ReportFailure, CrashExecution, StopExecution, ExecStep,
      rowVars, procVars
  <2>3. CASE Clock(c) BY <2>3 DEF Clock, LeaseExpires, BackoffEnds, execVars, procVars
  <2> QED BY <2>1, <2>2, <2>3
<1>2. /\ \A d \in Command : d # c => row'[d] = row[d]
      /\ \/ row'[c].status = row[c].status
         \/ /\ row'[c].status = "cancelled"
            /\ row[c].status \notin Terminal \cup Settleable
         \/ /\ row[c].status = "failed" /\ row'[c].status = "pending"
            /\ req[c].op = "retry" /\ req'[c].op = "none"
  <2>0. row \in [Command -> Row] /\ row[c] \in Row /\ req \in [Command -> Request] BY <1>0 DEF TypeOK
  <2>1. ASSUME UNCHANGED row
        PROVE  /\ \A d \in Command : d # c => row'[d] = row[d]
               /\ row'[c].status = row[c].status
    BY <2>1
  <2>2. CASE AskCancel(c) \/ AskRetry(c)
    <3>1. UNCHANGED row BY <2>2 DEF AskCancel, AskRetry, Ask, rowVars
    <3> QED BY <2>1, <3>1
  <2>3. CASE OwnerCancel(c)
    <3>1. row' = row \/ (req[c].fresh /\ row' = [row EXCEPT ![c] = OwnerCancelled(c)])
      BY <2>3 DEF OwnerCancel, OwnerWrites
    <3>2. CASE req[c].fresh /\ row' = [row EXCEPT ![c] = OwnerCancelled(c)]
      <4>1. row[c].status \notin Terminal /\ req[c].status = row[c].status
        BY <1>0, <2>3, <3>2 DEF RequestIsSound, OwnerCancel, AnswerRequest
      <4>2. row'[c] = OwnerCancelled(c) /\ \A d \in Command : d # c => row'[d] = row[d]
        BY <2>0, <3>2
      <4>3. CASE row[c].status \in DispatchedOrStarting
        <5>1. OwnerCancelled(c) = [row[c] EXCEPT !.cancelRequested = req[c].rank]
          BY <4>1, <4>3 DEF OwnerCancelled
        <5>2. OwnerCancelled(c).status = row[c].status BY <2>0, <5>1 DEF Row
        <5> QED BY <4>2, <5>2
      <4>4. CASE row[c].status \notin DispatchedOrStarting
        <5>1. OwnerCancelled(c) = Cancelled(c) BY <4>1, <4>4 DEF OwnerCancelled
        <5>2. OwnerCancelled(c).status = "cancelled" BY <2>0, <5>1 DEF Cancelled, Row
        <5> QED BY <4>1, <4>2, <4>4, <5>2 DEF DispatchedOrStarting
      <4> QED BY <4>3, <4>4
    <3> QED BY <2>1, <3>1, <3>2
  <2>4. CASE OwnerRetry(c)
    <3>1. \/ row' = [row EXCEPT ![c] = Rebounded(c)]
          \/ req[c].fresh /\ row' = [row EXCEPT ![c] = Requeued(c)]
      BY <2>4 DEF OwnerRetry, OwnerWrites
    <3>2. req[c].op = "retry" /\ req' = [req EXCEPT ![c] = NoRequest] BY <2>4 DEF OwnerRetry, AnswerRequest
    <3>3. req'[c].op = "none" BY <2>0, <3>2 DEF NoRequest
    <3>4. req[c].fresh => row[c].status = "failed" BY <1>0, <3>2 DEF RequestIsSound
    <3>5. Rebounded(c) \in [status : {row[c].status}, attempt : Nat, maxAttempts : {Rebounded(c).maxAttempts},
                            deferrals : Nat, owner : Replica \cup {None}, lease : {"none", "live", "expired"},
                            due : BOOLEAN, workflow : BOOLEAN, cancelRequested : Nat]
      BY <2>0 DEF Rebounded, Row
    <3>6. Rebounded(c).status = row[c].status BY <3>5
    <3>7. Requeued(c).status = "pending" BY <3>5 DEF Requeued
    <3>8. CASE row' = [row EXCEPT ![c] = Rebounded(c)]
      <4>1. row'[c] = Rebounded(c) /\ \A d \in Command : d # c => row'[d] = row[d] BY <2>0, <3>8
      <4> QED BY <3>6, <4>1
    <3>9. CASE req[c].fresh /\ row' = [row EXCEPT ![c] = Requeued(c)]
      <4>1. row'[c] = Requeued(c) /\ \A d \in Command : d # c => row'[d] = row[d] BY <2>0, <3>9
      <4> QED BY <3>2, <3>3, <3>4, <3>7, <3>9, <4>1
    <3> QED BY <3>1, <3>8, <3>9
  <2>5. CASE Cluster(c)
    <3>1. UNCHANGED row
      BY <2>5 DEF Cluster, ReachReview, Approve, Succeed, ReportFailure, CrashExecution, StopExecution,
                  ExecStep, rowVars
    <3> QED BY <2>1, <3>1
  <2>6. CASE Clock(c)
    <3>1. /\ \/ row'[c] = [row[c] EXCEPT !.lease = "expired"]
             \/ row'[c] = [row[c] EXCEPT !.due = TRUE]
          /\ \A d \in Command : d # c => row'[d] = row[d]
      BY <2>0, <2>6 DEF Clock, LeaseExpires, BackoffEnds
    <3>2. row'[c].status = row[c].status BY <2>0, <3>1 DEF Row
    <3> QED BY <3>1, <3>2
  <2> QED BY <2>2, <2>3, <2>4, <2>5, <2>6 DEF Owner
<1>3. ASSUME NEW r \in Replica, pc[r] \in Handling PROVE row'[cur[r]].status \in {"claimed", "cancelled"}
  <2>1. PICK d \in Command : d = cur[r]
    BY <1>0, <1>3 DEF IInv, ReplicaIsSound, CopyAllows, Working, Handling, Releasing
  <2>2. row[d].status \in {"claimed", "cancelled"} BY <1>3, <2>1 DEF AloneInv
  <2>3. row'[d].status \in {"claimed", "cancelled"} BY <1>2, <2>2
  <2> QED BY <2>1, <2>3
<1>4. AloneInv' BY <1>1, <1>3 DEF AloneInv
<1>5. "cancelled" \notin Settleable /\ "failed" \in Terminal BY DEF Settleable, Terminal
<1> QED BY <1>2, <1>4, <1>5

\* What a step of a system with one replica may do to a failed and to a running command.
FailedOrStopped ==
  \A c \in Command :
    /\ row[c].status = "failed" /\ row'[c].status # "failed" =>
         /\ row'[c].status = "pending"
         /\ req[c].op = "retry"
         /\ req'[c].op = "none"
    /\ row[c].status \in Settleable /\ row'[c].status = "cancelled" => (Live(c) => told[c])

LEMMA AloneStep ==
  ASSUME IInv, AloneInv, \A r, s \in Replica : r = s, [Next]_vars
  PROVE  AloneInv' /\ FailedOrStopped
<1>1. KeepsFailed => FailedOrStopped BY DEF KeepsFailed, FailedOrStopped
<1>2. ASSUME NEW r \in Replica, RunOnce(r) PROVE AloneInv' /\ FailedOrStopped
  BY <1>1, <1>2, AloneDispatch, AloneCancels, AloneSettles DEF RunOnce
<1>3. ASSUME NEW r \in Replica, Kill(r) \/ Restart(r) PROVE AloneInv' /\ FailedOrStopped
  <2>1. pc'[r] \in {"dead", "scan"} /\ UNCHANGED row
    BY <1>3 DEF IInv, TypeOK, Kill, Restart, Die, Rollback, Goto, rowVars
  <2>2. KeepsFailed BY <2>1 DEF KeepsFailed, Settleable
  <2> QED BY <1>1, <2>1, <2>2, AloneQuiet DEF Handling, Releasing, Cancelling
<1>4. ASSUME NEW c \in Command, Owner(c) \/ Cluster(c) \/ Clock(c) PROVE AloneInv' /\ FailedOrStopped
  BY <1>4, AloneOutside DEF FailedOrStopped
<1>5. CASE UNCHANGED vars
  BY <1>1, <1>5 DEF AloneInv, KeepsFailed, Settleable, vars, rowVars, execVars, procVars
<1> QED BY <1>2, <1>3, <1>4, <1>5 DEF Next

\* With one replica the command it works on stays claimed until its owner cancels it,
\* and what a pass is about to cancel has been told to stop.
THEOREM AloneInvariance ==
  ASSUME \A r, s \in Replica : r = s
  PROVE  Spec => []AloneInv
<1>1. Init => AloneInv BY DEF Init, AloneInv, Handling, Releasing, Cancelling
<1>2. IInv /\ AloneInv /\ [Next]_vars => AloneInv' BY AloneStep
<1> QED BY <1>1, <1>2, Invariance, PTL DEF Spec

\* With one replica nothing but its owner's retry puts a failed command back into the
\* queue: no release of the dispatcher reaches a row that has already failed.
THEOREM FailedWaitsForOwner ==
  ASSUME \A r, s \in Replica : r = s
  PROVE  Spec => FailedNeedsRetry
<1>1. IInv /\ AloneInv /\ [Next]_vars =>
        [\A c \in Command :
           row[c].status = "failed" /\ row'[c].status # "failed" =>
             /\ row'[c].status = "pending"
             /\ req[c].op = "retry"
             /\ req'[c].op = "none"]_vars
  BY AloneStep DEF FailedOrStopped
<1> QED BY <1>1, Invariance, AloneInvariance, PTL DEF Spec, FailedNeedsRetry

\* With one replica a dispatched command becomes `cancelled' only after the cluster was
\* told to stop the execution that is still alive behind it.
THEOREM CancelledOnceTold ==
  ASSUME \A r, s \in Replica : r = s
  PROVE  Spec => CancelledAfterTold
<1>1. IInv /\ AloneInv /\ [Next]_vars =>
        [\A c \in Command :
           row[c].status \in Settleable /\ row'[c].status = "cancelled" => (Live(c) => told[c])]_vars
  BY AloneStep DEF FailedOrStopped
<1> QED BY <1>1, Invariance, AloneInvariance, PTL DEF Spec, CancelledAfterTold

=============================================================================
