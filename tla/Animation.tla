------------------------------ MODULE Animation ------------------------------
(***************************************************************************)
(* Shot videos from Runway (AnimationPipeline): one item per shot, a task  *)
(* per submission, each submission with a reservation of its own.  A       *)
(* worker is an attempt of the animation activity; an attempt that outlives*)
(* its timeout overlaps the next one.                                      *)
(*                                                                         *)
(* A model is named by its price: routing chooses anew on every attempt,   *)
(* and takes the cheaper model when the budget no longer covers the dearer.*)
(* The identity of an item is a function of the model, so a changed choice *)
(* migrates the item; and the key that makes a submission unique is the    *)
(* identity with the number of the attempt, so two attempts of one number  *)
(* that are routed apart both submit.                                      *)
(***************************************************************************)
EXTENDS CostLedger, Sequences, SequencesExt

CONSTANTS
  AnimationWorker,
  Hero,               \* shots of a balanced project that deserve the dearer model
  Gen45, Turbo        \* prices of a shot

ASSUME AnimationAssumption ==
  /\ Hero \subseteq Shot
  /\ Turbo \in Nat \ {0} /\ Gen45 \in Nat /\ Turbo < Gen45

VARIABLES
  item,     \* animation_items: status and price (0: no row)
  tasks,    \* runway_tasks of each shot, oldest first
  video,    \* the task whose video is selected, 0 if none
  remote,   \* external: what became of each submission at Runway
  worker,
  interrupted  \* history: shots with a submit cut off before its answer

animationVars == <<item, tasks, video, remote, worker, interrupted>>

TaskStatus == {"pre_call", "submission_failed", "ambiguous", "pending",
               "succeeded", "failed", "cancelled"}

ItemStatus == {"queued", "submitting", "ambiguous", "polling", "downloading", "failed", "completed"}

RemoteStatus == {"none", "sent", "running", "succeeded", "failed", "cancelled"}

Ended == {"succeeded", "failed", "cancelled"}

Idle == [pc |-> "idle", shot |-> 0, task |-> 0, price |-> 0]

\* `task' is the number an attempt is about to submit under, and then its submission.
Worker == [pc: {"idle", "submitting", "called", "polling", "won", "lost", "downloading"},
           shot: Shot \cup {0}, task: 0..MaxTasks, price: {0, Gen45, Turbo}]

RunwayTask == [status: TaskStatus, known: BOOLEAN, number: 1..MaxTasks, price: {Gen45, Turbo}]

AnimationType ==
  /\ item \in [Shot -> [status: ItemStatus, price: {0, Gen45, Turbo}]]
  /\ tasks \in [Shot -> Seq(RunwayTask)]
  /\ \A s \in Shot : Len(tasks[s]) <= MaxTasks
  /\ video \in [Shot -> 0..MaxTasks]
  /\ remote \in [Shot -> [1..MaxTasks -> RemoteStatus]]
  /\ worker \in [AnimationWorker -> Worker]
  /\ interrupted \subseteq Shot

Task(s) == IF tasks[s] = <<>> THEN [status |-> "none", known |-> FALSE, number |-> 0] ELSE Last(tasks[s])

Key1(w) == <<worker[w].shot, worker[w].task>>

\* The session ends; what it did not commit is gone.
Leave(w) == worker' = [worker EXCEPT ![w] = Idle]

Step(w, pc) == worker' = [worker EXCEPT ![w].pc = pc]

SetItem(s, status) == item' = [item EXCEPT ![s].status = status]

SetTask(s, k, status) == tasks' = [tasks EXCEPT ![s][k].status = status]

-----------------------------------------------------------------------------

\* route_model, with what remains of the budget: 0 when no model is affordable.
\* The shot's own open reservation counts as spent.
Route(s) ==
  IF s \in Hero /\ Covers(Gen45) THEN Gen45 ELSE IF Covers(Turbo) THEN Turbo ELSE 0

\* The item under the identity of this choice is complete: it is reused.
Reused(s) == item[s] = [status |-> "completed", price |-> Route(s)] /\ video[s] # 0

Alone(w, s) == \A v \in AnimationWorker \ {w} : worker[v].shot # s

\* A submission of the item under the identity of this choice went unanswered.
Stranded(s) == item[s] = [status |-> "ambiguous", price |-> Route(s)]

\* An attempt starts.  Nothing is even looked at unless a model is affordable.
Start(w, s) ==
  /\ worker[w].pc = "idle"
  /\ Route(s) # 0
  /\ ~Reused(s) /\ ~Stranded(s)
  /\ IF Alone(w, s) THEN UNCHANGED faults ELSE Fault

\* The statuses that make a submission repeatable.
Resubmittable(status) == status \in {"none", "failed", "submission_failed"}

\* Mutant: only a task last seen pending is resumed.
ResumablePending(task) == task.known /\ task.status = "pending"

Resumable(task) == task.known /\ ~Resubmittable(task.status)

\* The number is the item's attempt count, which each submission writes, plus one.
Begin(w, s) ==
  /\ Start(w, s)
  /\ Resubmittable(Task(s).status)
  /\ Len(tasks[s]) < MaxTasks
  /\ item' = [item EXCEPT ![s].price = Route(s)]
  /\ worker' = [worker EXCEPT ![w] = [pc |-> "submitting", shot |-> s,
                                      task |-> Task(s).number + 1, price |-> Route(s)]]
  /\ UNCHANGED <<ledgerVars, tasks, video, remote, interrupted>>

\* A remote task is resumed.  Without one, an ambiguous or unanswered submission
\* raises and leaves everything as it is.
Resume(w, s) ==
  /\ Start(w, s)
  /\ Resumable(Task(s))
  /\ item' = [item EXCEPT ![s] = [status |-> "polling", price |-> Route(s)]]
  /\ worker' = [worker EXCEPT ![w] = [pc |-> "polling", shot |-> s,
                                      task |-> Len(tasks[s]), price |-> Route(s)]]
  /\ UNCHANGED <<ledgerVars, tasks, video, remote, interrupted>>

\* Mutant: the key of a submission is made for this attempt alone.
KeyNeverTaken(w) == FALSE

\* The key of a submission, its model and its number, is unique.
KeyTaken(w) ==
  \E k \in DOMAIN tasks[worker[w].shot] :
    LET task == tasks[worker[w].shot][k]
    IN task.number = worker[w].task /\ task.price = worker[w].price

\* The pre-call checkpoint: attempt, task and reservation in one commit.
Submit(w) ==
  LET s == worker[w].shot
      k == Len(tasks[s]) + 1
  IN /\ worker[w].pc = "submitting"
     /\ ~KeyTaken(w)
     /\ k <= MaxTasks
     /\ MayReserve(<<s, k>>, worker[w].price)
     /\ Reserve(<<s, k>>, worker[w].price)
     /\ tasks' = [tasks EXCEPT ![s] = Append(@, [status |-> "pre_call", known |-> FALSE,
                                                number |-> worker[w].task, price |-> worker[w].price])]
     /\ remote' = [remote EXCEPT ![s][k] = "sent"]
     /\ SetItem(s, "submitting")
     /\ worker' = [worker EXCEPT ![w].pc = "called", ![w].task = k]
     /\ UNCHANGED <<narrator, video, interrupted, faults>>

\* Another attempt wrote this submission, or the budget is spent by now; or, a bound,
\* the shot has all the submissions it may have.
SubmitRefused(w) ==
  /\ worker[w].pc = "submitting"
  /\ \/ KeyTaken(w)
     \/ Unlocked /\ ~Covers(worker[w].price)
     \/ Len(tasks[worker[w].shot]) = MaxTasks
  /\ Leave(w)
  /\ UNCHANGED <<ledgerVars, item, tasks, video, remote, interrupted, faults>>

Called(w) == worker[w].pc = "called"

RemoteOf(w) == remote[worker[w].shot][worker[w].task]

\* The remote task id is durable before the first poll.
Accepted(w) ==
  LET s == worker[w].shot IN
  /\ Called(w)
  /\ RemoteOf(w) \notin {"none", "sent"}
  /\ tasks' = [tasks EXCEPT ![s][worker[w].task] = [@ EXCEPT !.status = "pending", !.known = TRUE]]
  /\ SetItem(s, "polling")
  /\ Step(w, "polling")
  /\ UNCHANGED <<ledgerVars, video, remote, interrupted, faults>>

\* The submission failed for good: it may be repeated, so its money is released.
Fail(w) ==
  /\ MayReconcile(Key1(w))
  /\ Reconcile(Key1(w), 0)
  /\ SetTask(worker[w].shot, worker[w].task, "submission_failed")
  /\ SetItem(worker[w].shot, "failed")
  /\ Leave(w)
  /\ UNCHANGED <<narrator, video>>

\* The request provably never left, or Runway refused it.
NotCreated(w) ==
  /\ Called(w) /\ RemoteOf(w) = "sent"
  /\ Fail(w)
  /\ remote' = [remote EXCEPT ![worker[w].shot][worker[w].task] = "none"]
  /\ UNCHANGED <<interrupted, faults>>

\* Any other exception out of the call - the attempt was cancelled, Runway
\* answered with an error of its own - is handled alike, whatever Runway did.
Interrupted(w) ==
  /\ Fault
  /\ Called(w)
  /\ Fail(w)
  /\ interrupted' = interrupted \cup {worker[w].shot}
  /\ UNCHANGED remote

\* The connection broke after the request may have left.
AmbiguousSubmission(w) ==
  /\ Fault
  /\ Called(w)
  /\ SetTask(worker[w].shot, worker[w].task, "ambiguous")
  /\ SetItem(worker[w].shot, "ambiguous")
  /\ Leave(w)
  /\ UNCHANGED <<ledgerVars, video, remote, interrupted>>

-----------------------------------------------------------------------------

\* poll_task: the status is committed before it is acted on.
Poll(w) ==
  /\ worker[w].pc = "polling"
  /\ RemoteOf(w) \in Ended
  /\ SetTask(worker[w].shot, worker[w].task, RemoteOf(w))
  /\ Step(w, IF RemoteOf(w) = "succeeded" THEN "won" ELSE "lost")
  /\ UNCHANGED <<ledgerVars, item, video, remote, interrupted, faults>>

\* The window ends with the task still running; a later attempt resumes it.
WindowExpired(w) ==
  /\ worker[w].pc = "polling"
  /\ RemoteOf(w) = "running"
  /\ Leave(w)
  /\ UNCHANGED <<ledgerVars, item, tasks, video, remote, interrupted, faults>>

\* The owner cancels: Runway is told, and the task's status waits for a poll.
Cancelled(w) ==
  /\ Fault
  /\ worker[w].pc = "polling"
  /\ remote' = [remote EXCEPT ![worker[w].shot][worker[w].task] =
                  IF @ = "running" THEN "cancelled" ELSE @]
  /\ Leave(w)
  /\ UNCHANGED <<ledgerVars, item, tasks, video, interrupted>>

Lose(w) ==
  /\ worker[w].pc = "lost"
  /\ MayReconcile(Key1(w))
  /\ Reconcile(Key1(w), 0)
  /\ SetItem(worker[w].shot, "failed")
  /\ Leave(w)
  /\ UNCHANGED <<narrator, tasks, video, remote, interrupted, faults>>

Download(w) ==
  /\ worker[w].pc = "won"
  /\ SetItem(worker[w].shot, "downloading")
  /\ Step(w, "downloading")
  /\ UNCHANGED <<ledgerVars, tasks, video, remote, interrupted, faults>>

\* The video is validated, trimmed, stored and selected, and paid for at the
\* price of this attempt's model.
Complete(w) ==
  LET s == worker[w].shot IN
  /\ worker[w].pc = "downloading"
  /\ video[s] = 0
  /\ MayReconcile(Key1(w))
  /\ Reconcile(Key1(w), worker[w].price)
  /\ video' = [video EXCEPT ![s] = worker[w].task]
  /\ SetItem(s, "completed")
  /\ Leave(w)
  /\ UNCHANGED <<narrator, tasks, remote, interrupted, faults>>

\* The item has its video already: the insert fails.
CompleteRefused(w) ==
  /\ worker[w].pc = "downloading"
  /\ video[worker[w].shot] # 0
  /\ Leave(w)
  /\ UNCHANGED <<ledgerVars, item, tasks, video, remote, interrupted, faults>>

\* A worker dies, a download fails or a video does not validate.
Abandon(w) ==
  /\ Fault
  /\ worker[w].pc # "idle"
  /\ Leave(w)
  /\ UNCHANGED <<ledgerVars, item, tasks, video, remote, interrupted>>

\* An operator who looked at Runway, with no request under way, attests that the
\* item's last submission made no task.
ReconcileAmbiguous(s) ==
  LET k == Len(tasks[s]) IN
  /\ item[s].status = "ambiguous"
  /\ tasks[s] # <<>> /\ ~Task(s).known /\ video[s] = 0
  /\ remote[s][k] \in {"none", "sent"}
  /\ \A w \in AnimationWorker : Called(w) => Key1(w) # <<s, k>>
  /\ remote' = [remote EXCEPT ![s][k] = "none"]
  /\ MayReconcile(<<s, k>>)
  /\ Reconcile(<<s, k>>, 0)
  /\ SetItem(s, "failed")
  /\ SetTask(s, k, "submission_failed")
  /\ UNCHANGED <<narrator, video, worker, interrupted, faults>>

-----------------------------------------------------------------------------
(* Runway. *)

CreateRemote(s, k) ==
  /\ remote[s][k] = "sent"
  /\ remote' = [remote EXCEPT ![s][k] = "running"]
  /\ UNCHANGED <<ledgerVars, item, tasks, video, worker, interrupted, faults>>

EndRemote(s, k) ==
  /\ remote[s][k] = "running"
  /\ \E status \in {"succeeded", "failed"} : remote' = [remote EXCEPT ![s][k] = status]
  /\ UNCHANGED <<ledgerVars, item, tasks, video, worker, interrupted, faults>>

-----------------------------------------------------------------------------

AnimationInit ==
  /\ item = [s \in Shot |-> [status |-> "queued", price |-> 0]]
  /\ tasks = [s \in Shot |-> <<>>]
  /\ video = [s \in Shot |-> 0]
  /\ remote = [s \in Shot |-> [k \in 1..MaxTasks |-> "none"]]
  /\ worker = [w \in AnimationWorker |-> Idle]
  /\ interrupted = {}

Advance(w) ==
  \/ Submit(w) \/ SubmitRefused(w) \/ Accepted(w) \/ NotCreated(w)
  \/ Poll(w) \/ WindowExpired(w) \/ Lose(w) \/ Download(w) \/ Complete(w) \/ CompleteRefused(w)

Attempt(w) == \E s \in Shot : Begin(w, s) \/ Resume(w, s)

AnimationNext ==
  \/ \E w \in AnimationWorker :
       \/ Attempt(w) \/ Advance(w)
       \/ Interrupted(w) \/ AmbiguousSubmission(w) \/ Cancelled(w) \/ Abandon(w)
  \/ \E s \in Shot :
       \/ ReconcileAmbiguous(s)
       \/ \E k \in 1..MaxTasks : CreateRemote(s, k) \/ EndRemote(s, k)

\* Attempts go on and are made again, and Runway ends what it runs.
AnimationFairness ==
  /\ \A w \in AnimationWorker : SF_<<books, animationVars>>(Advance(w))
  /\ \A w \in AnimationWorker : WF_<<books, animationVars>>(Attempt(w))
  /\ \A s \in Shot, k \in 1..MaxTasks : WF_<<books, animationVars>>(EndRemote(s, k))

=============================================================================
