-------------------------- MODULE ProjectGeneration --------------------------
(***************************************************************************)
(* A project's generation runs: the executions of its one workflow id      *)
(* (packages/workflows/project.py, continuity.py), the rows that describe  *)
(* them (project_workflow_runs and the generation runs), and everybody who *)
(* writes those rows: workflow:start, workflow:cancel, the dispatcher of   *)
(* continuation commands, its settling pass, and the reconciler that a GET *)
(* or a continuation runs first.                                           *)
(*                                                                         *)
(* Temporal is external: it keeps at most one open execution per workflow  *)
(* id, answers queries and `describe' for the latest one, and hands a      *)
(* start over to an open one.  A signal handler that raises fails its      *)
(* execution; a signal to a closed child raises.                           *)
(*                                                                         *)
(* The stages before script_generation, and storyboard after narration,    *)
(* behave like narration and are left out.  The dispatcher is one process. *)
(* PostgreSQL breaks the deadlock of a request that settles the run a      *)
(* dispatch is superseding: the request is rolled back, or the dispatch is *)
(* (Crash).                                                                *)
(***************************************************************************)
EXTENDS Naturals, Sequences

CONSTANTS
  Command,    \* continuation and revision commands of one project
  EntryOf,    \* the entry stage each command asks for
  MaxExec,    \* bound: executions
  MaxCancels, \* bound: cancellations by the owner
  MaxCrashes  \* bound: transactions that are lost

Order == <<"script_generation", "narration", "continuity_references", "shot_generation",
           "render", "final_editorial_qa">>

StageName == {Order[i] : i \in 1..Len(Order)}

ASSUME GenerationAssumption ==
  /\ EntryOf \in [Command -> StageName] /\ MaxExec \in Nat /\ MaxCancels \in Nat /\ MaxCrashes \in Nat
  /\ "start" \notin Command

Origin == Command \cup {"start"}

VARIABLES
  exec,       \* the executions of the workflow id, the last one possibly open
  runs,       \* project_generation_runs
  row,        \* project_workflow_runs
  cmd,        \* the commands: status, and the execution mark_running recorded
  pending,    \* a start or a dispatch between start_project and its commit
  rec,        \* a reconciliation between its answer from the cluster and its writes
  cancels, crashes

generationVars == <<exec, runs, row, cmd, pending, rec, cancels, crashes>>

counters == <<cancels, crashes>>

Nothing == [by |-> "none"]

Index(stage) == CHOOSE i \in 1..Len(Order) : Order[i] = stage

-----------------------------------------------------------------------------
(* The project workflow. *)

Exec == [by: Origin, entry: StageName,
         pc: StageName \cup {"continuity_inputs", "approval", "closed"},
         stop: BOOLEAN,       \* _cancelled
         told: BOOLEAN,       \* the child it now awaits has been signalled too
         asked: BOOLEAN,      \* the cluster has been asked to cancel it
         waiting: BOOLEAN,    \* project_state: waiting_reason is set
         said: {"working", "completed", "stopped", "cancelled"},   \* project_state: status
         end: {"running", "completed", "failed", "cancelled"},     \* the cluster's status
         passed: BOOLEAN]     \* final_qa_state: its decision is PASS

Latest == exec[Len(exec)]

IsOpen == exec # <<>> /\ Latest.pc # "closed"

Set(e) == exec' = [exec EXCEPT ![Len(exec)] = e]

Goto(stage) == Set([Latest EXCEPT !.pc = stage, !.told = FALSE])

\* The flags of an execution that is over are of no consequence.
Closed(e, end) == [e EXCEPT !.pc = "closed", !.end = end, !.stop = FALSE, !.told = FALSE,
                            !.asked = FALSE]

\* run returns: the cluster calls every such execution completed.
Return(said, waiting) ==
  Set(Closed([Latest EXCEPT !.said = said, !.waiting = @ \/ waiting], "completed"))

Die(end) == Set(Closed(Latest, end))

Enters(stage) == Index(Latest.entry) <= Index(stage)

\* The stages of one activity: cancellation is read before and after each, and
\* a script that has to be approved ends the execution.
EarlyStage ==
  /\ IsOpen /\ Latest.pc \in {"script_generation", "narration"}
  /\ \/ Latest.stop /\ Return("cancelled", FALSE)
     \/ /\ ~Latest.stop
        /\ Goto(IF Latest.pc = "narration" THEN "continuity_inputs" ELSE "narration")
     \/ ~Latest.stop /\ Latest.pc = "script_generation" /\ Return("working", TRUE)
  /\ UNCHANGED <<runs, row, cmd, pending, rec, counters>>

\* Resolved for every run, and without a look at the flag.
ContinuityInputs ==
  /\ IsOpen /\ Latest.pc = "continuity_inputs"
  /\ Goto(IF Enters("continuity_references") THEN "continuity_references"
          ELSE IF Enters("shot_generation") THEN "shot_generation"
          ELSE IF Enters("render") THEN "render" ELSE "final_editorial_qa")
  /\ UNCHANGED <<runs, row, cmd, pending, rec, counters>>

\* The reference child returned: the flag first, then its status.
Referenced(status) ==
  IF Latest.stop THEN Return("cancelled", FALSE)
  ELSE IF status = "bound" THEN Goto("shot_generation")
  ELSE Return("stopped", FALSE)

\* build_continuity_references: drafts that need a decision make the child wait
\* and tell its parent, whose waiting_reason nobody clears again.
BuildReferences ==
  /\ IsOpen /\ Latest.pc = "continuity_references"
  /\ \/ Latest.told /\ Referenced("cancelled")
     \/ ~Latest.told /\ Set([Latest EXCEPT !.pc = "approval", !.waiting = TRUE])
     \/ ~Latest.told /\ \E s \in {"bound", "failed"} : Referenced(s)
  /\ UNCHANGED <<runs, row, cmd, pending, rec, counters>>

\* The child is woken by its cancel signal, or by the owner's approval.
ReferenceWait ==
  /\ IsOpen /\ Latest.pc = "approval"
  /\ \/ Latest.told /\ Referenced("cancelled")
     \/ ~Latest.told /\ \E s \in {"bound", "failed"} : Referenced(s)
  /\ UNCHANGED <<runs, row, cmd, pending, rec, counters>>

\* The fan-out returned (ShotFanout): only a complete one lets the render start.
ShotsDone ==
  /\ IsOpen /\ Latest.pc = "shot_generation"
  /\ \/ ~Latest.stop /\ Goto("render")
     \/ Return("stopped", TRUE)
  /\ UNCHANGED <<runs, row, cmd, pending, rec, counters>>

\* From here on nothing looks at the flag.
RenderStage ==
  /\ IsOpen /\ Latest.pc = "render"
  /\ Goto("final_editorial_qa") \/ Return("stopped", FALSE)
  /\ UNCHANGED <<runs, row, cmd, pending, rec, counters>>

\* Mutant: a project under review is complete.
VerdictLenient(decision) ==
  [said |-> IF decision = "fail" THEN "stopped" ELSE "completed", waiting |-> decision = "review"]

\* What the project's status becomes with each decision, and whether it waits.
Verdict(decision) ==
  [said |-> CASE decision = "pass" -> "completed" [] decision = "review" -> "working"
              [] decision = "fail" -> "stopped",
   waiting |-> decision = "review"]

FinalQA ==
  /\ IsOpen /\ Latest.pc = "final_editorial_qa"
  /\ \E decision \in {"pass", "review", "fail"} :
       Set(Closed([Latest EXCEPT !.passed = (decision = "pass"), !.said = Verdict(decision).said,
                                 !.waiting = @ \/ Verdict(decision).waiting], "completed"))
  /\ UNCHANGED <<runs, row, cmd, pending, rec, counters>>

\* An activity or a child raised: the execution fails, without a word to the
\* rows.  A cancelled one closes as cancelled.
StageRaises ==
  /\ IsOpen
  /\ Die("failed") \/ (Latest.asked /\ Die("cancelled"))
  /\ UNCHANGED <<runs, row, cmd, pending, rec, counters>>

\* cancel_project signals the children it has started, closed ones included.
Signalled ==
  LET closedChild == \/ Enters("continuity_references")
                        /\ Latest.pc \in {"shot_generation", "render", "final_editorial_qa"}
                     \/ Enters("shot_generation") /\ Latest.pc \in {"render", "final_editorial_qa"}
  IN IF closedChild THEN Closed(Latest, "failed")
     ELSE [Latest EXCEPT !.stop = TRUE,
             !.told = Latest.pc \in {"continuity_references", "approval", "shot_generation"}]

-----------------------------------------------------------------------------
(* The rows. *)

Run == [origin: Origin, entry: StageName, id: Nat, bound: BOOLEAN, exec: Nat,
        status: {"active", "awaiting_review", "completed", "failed", "cancelled", "superseded"}]

Live(status) == status \in {"active", "awaiting_review"}

\* The partial unique index: one run at most is not terminal.
ActiveRuns == {i \in DOMAIN runs : Live(runs[i].status)}

Settle(i, status) == runs' = [runs EXCEPT ![i].status = status]

\* GenerationRunService.open: the active run of the same material is adopted,
\* any other is superseded.
Opened(origin, entry, moved) ==
  LET same == {i \in ActiveRuns : ~moved /\ runs[i].entry = entry}
      rest == [i \in DOMAIN runs |->
                 IF i \in ActiveRuns THEN [runs[i] EXCEPT !.status = "superseded"] ELSE runs[i]]
  IN IF same # {} THEN [runs |-> runs, at |-> CHOOSE i \in same : TRUE]
     ELSE [runs |-> Append(rest, [origin |-> origin, entry |-> entry, id |-> 0, bound |-> FALSE,
                                  exec |-> 0, status |-> "active"]),
           at |-> Len(runs) + 1]

\* start_project: an open execution is adopted, and its run id is not known.
StartProject(origin, entry) ==
  IF IsOpen THEN exec' = exec
  ELSE exec' = Append(exec, [by |-> origin, entry |-> entry, stop |-> FALSE, told |-> FALSE,
                             pc |-> IF Index(entry) <= 2 THEN entry ELSE "continuity_inputs",
                             asked |-> FALSE, waiting |-> FALSE, said |-> "working",
                             end |-> "running", passed |-> FALSE])

\* The transaction of a start or a dispatch: the material may have moved since
\* the active run was opened.  This is it up to the answer of the cluster.
Begin(origin, entry) ==
  /\ pending = Nothing /\ (IsOpen \/ Len(exec) < MaxExec)
  /\ StartProject(origin, entry)
  /\ \E moved \in BOOLEAN :
       /\ moved => \E i \in ActiveRuns : runs[i].entry = entry
       /\ pending' = [by |-> origin, entry |-> entry, adopted |-> IsOpen, moved |-> moved]
  /\ UNCHANGED <<runs, row, cmd, rec, counters>>

\* workflow:start, once: afterwards it answers with the row it finds.
StartWorkflow == row.status = "none" /\ Begin("start", "script_generation")

\* The guard of dispatch_generation_run.
Executing(c) ==
  \E i \in ActiveRuns : runs[i].status = "active" /\ runs[i].bound /\ runs[i].origin # c

Dispatch(c) == cmd[c].status = "pending" /\ ~Executing(c) /\ Begin(c, EntryOf[c])

DispatchRefused(c) ==
  /\ cmd[c].status = "pending" /\ pending = Nothing /\ Executing(c)
  /\ cmd' = [cmd EXCEPT ![c].status = "failed"]
  /\ UNCHANGED <<exec, runs, row, pending, rec, counters>>

\* bind_workflow, _record_project_workflow_run and mark_running.
Commit ==
  /\ pending # Nothing
  /\ LET opened == Opened(pending.by, pending.entry, pending.moved)
         id == IF pending.adopted THEN 0 ELSE Len(exec)
     IN /\ runs' = [opened.runs EXCEPT ![opened.at].id = id, ![opened.at].bound = TRUE,
                                       ![opened.at].exec = Len(exec)]
        /\ row' = [status |-> "running", id |-> IF pending.adopted THEN row.id ELSE id]
  /\ cmd' = [c \in Command |-> IF c = pending.by
               THEN [cmd[c] EXCEPT !.status = "running", !.exec = Len(exec)] ELSE cmd[c]]
  /\ pending' = Nothing
  /\ UNCHANGED <<exec, rec, counters>>

\* The process dies, or its transaction is rolled back: the command is claimed
\* again, the execution is there.
Crash ==
  /\ pending # Nothing /\ pending' = Nothing
  /\ crashes < MaxCrashes /\ crashes' = crashes + 1
  /\ UNCHANGED <<exec, runs, row, cmd, rec, cancels>>

\* The dispatch holds the row lock of the run it supersedes.
Locked == pending # Nothing /\ ActiveRuns # {}

\* workflow:cancel.
CancelProject ==
  /\ cancels < MaxCancels /\ cancels' = cancels + 1
  /\ row.status # "none"
  /\ IF IsOpen THEN Set(Signalled) ELSE UNCHANGED exec
  /\ IF Locked THEN UNCHANGED <<runs, row>>
     ELSE /\ row' = [row EXCEPT !.status = "cancelled"]
          /\ runs' = [i \in DOMAIN runs |->
                        IF i \in ActiveRuns THEN [runs[i] EXCEPT !.status = "cancelled"] ELSE runs[i]]
  /\ UNCHANGED <<cmd, pending, rec, crashes>>

\* The owner cancels a dispatched command: honour_cancellations cancels whatever
\* execution the workflow id has now.
CancelCommand(c) ==
  /\ cancels < MaxCancels /\ cancels' = cancels + 1
  /\ cmd[c].status \in {"running", "awaiting_review"} /\ pending = Nothing
  /\ IF IsOpen THEN Set([Latest EXCEPT !.asked = TRUE]) ELSE UNCHANGED exec
  /\ cmd' = [cmd EXCEPT ![c].status = "cancelled"]
  /\ runs' = [i \in DOMAIN runs |-> IF i \in ActiveRuns /\ runs[i].origin = c
                                    THEN [runs[i] EXCEPT !.status = "cancelled"] ELSE runs[i]]
  /\ UNCHANGED <<row, pending, rec, crashes>>

-----------------------------------------------------------------------------
(* _settle_generation_run of the dispatcher. *)

Settled(c, command, run) ==
  /\ cmd' = [cmd EXCEPT ![c].status = command]
  /\ runs' = [i \in DOMAIN runs |-> IF i \in ActiveRuns /\ runs[i].origin = c
                                    THEN [runs[i] EXCEPT !.status = run] ELSE runs[i]]

\* What the latest execution says of itself, in the order it is looked at.
SettleRunning(c) ==
  /\ cmd[c].status \in {"running", "awaiting_review"} /\ pending = Nothing
  /\ \/ Latest.said = "completed" /\ Settled(c, "completed", "completed")
     \/ /\ Latest.said # "completed" /\ Latest.waiting
        /\ Settled(c, "awaiting_review", "awaiting_review")
     \/ /\ ~Latest.waiting /\ Latest.said = "cancelled"
        /\ Settled(c, "failed", "cancelled")
     \/ /\ ~Latest.waiting /\ Latest.said = "stopped"
        /\ Settled(c, "failed", "failed")
  /\ UNCHANGED <<exec, row, pending, rec, counters>>

-----------------------------------------------------------------------------
(* reconcile_project_workflow. *)

\* A row that says the execution is live is compared with the cluster.
Stale == row.status = "running" /\ ~IsOpen

\* c is the command a continuation submits when it is through.
Ask(c) ==
  /\ rec = Nothing /\ Stale
  /\ rec' = [by |-> c, id |-> row.id, end |-> Latest.end]

Reconcile == Ask("get") /\ UNCHANGED <<exec, runs, row, cmd, pending, counters>>

Continue(c) ==
  /\ row.status # "none" /\ cmd[c].status = "none"
  /\ \/ Ask(c) /\ UNCHANGED cmd
     \/ ~Stale /\ cmd' = [cmd EXCEPT ![c].status = "pending"] /\ UNCHANGED rec
  /\ UNCHANGED <<exec, runs, row, pending, counters>>

\* Mutant: the active run is the only one there is.
BelongsToProject(i) == runs[i].bound

\* A run without a run id belongs to the row.
BelongsTo(i) == runs[i].id = 0 \/ runs[i].id = rec.id

SettleRows ==
  /\ rec # Nothing
  /\ \/ /\ ~Locked
        /\ row' = [row EXCEPT !.status = rec.end]
        /\ runs' = [i \in DOMAIN runs |-> IF i \in ActiveRuns /\ BelongsTo(i)
                                          THEN [runs[i] EXCEPT !.status = rec.end] ELSE runs[i]]
        /\ cmd' = [c \in Command |-> IF c = rec.by /\ cmd[c].status = "none"
                                     THEN [cmd[c] EXCEPT !.status = "pending"] ELSE cmd[c]]
     \/ Locked /\ UNCHANGED <<row, runs, cmd>>
  /\ rec' = Nothing
  /\ UNCHANGED <<exec, pending, counters>>

-----------------------------------------------------------------------------
GenerationInit ==
  /\ exec = <<>> /\ runs = <<>>
  /\ row = [status |-> "none", id |-> 0]
  /\ cmd = [c \in Command |-> [status |-> "none", exec |-> 0]]
  /\ pending = Nothing /\ rec = Nothing
  /\ cancels = 0 /\ crashes = 0

Workflow ==
  \/ EarlyStage \/ ContinuityInputs \/ BuildReferences \/ ReferenceWait \/ ShotsDone
  \/ RenderStage \/ FinalQA \/ StageRaises

GenerationNext ==
  \/ Workflow
  \/ StartWorkflow \/ Commit \/ Crash \/ CancelProject \/ Reconcile \/ SettleRows
  \/ \E c \in Command : \/ Continue(c) \/ Dispatch(c) \/ DispatchRefused(c)
                        \/ SettleRunning(c) \/ CancelCommand(c)

-----------------------------------------------------------------------------
(* Properties. *)

\* Types; one run of the project is active and the execution a run recorded is
\* one it could have been given.
GenerationType ==
  /\ exec \in Seq(Exec) /\ Len(exec) <= MaxExec
  /\ \A i \in DOMAIN runs : runs[i] \in Run /\ runs[i].id \in {0, runs[i].exec}
  /\ row.status \in {"none", "running", "completed", "failed", "cancelled"}
  /\ row.id \in 0..MaxExec
  /\ \A c \in Command : /\ cmd[c].status \in {"none", "pending", "running", "awaiting_review",
                                              "completed", "failed", "cancelled"}
                        /\ cmd[c].exec \in 0..MaxExec
  /\ \A i, j \in ActiveRuns : i = j

\* A run that knows its execution is called completed or failed only after that
\* execution has closed, however late the reconciliation, whoever else dispatches,
\* and whichever execution the workflow id names by then.
SettledRunIsOver ==
  \A i \in DOMAIN runs :
    runs[i].status \in {"completed", "failed"} /\ runs[i].id # 0 => exec[runs[i].id].pc = "closed"

\* A command completes only off an execution, its own or a later one, whose final
\* editorial QA passed ("only a current PASS advances the project to completed").
CompletedPassedQA ==
  \A c \in Command :
    cmd[c].status = "completed" =>
      \E e \in cmd[c].exec..Len(exec) : exec[e].passed

\* A row that calls a closed execution live is put right.
RowSettles == [](Stale => <>~Stale)

=============================================================================
