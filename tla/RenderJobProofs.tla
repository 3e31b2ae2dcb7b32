--------------------------- MODULE RenderJobProofs ---------------------------
(***************************************************************************)
(* Theorems about render jobs, for any number of executions, pollers and   *)
(* jobs, however worker ids are shared: what a project shows as its render,*)
(* and whose lease a claim may take; and what final QA may hold against a  *)
(* file a render verified (Delivery).                                      *)
(***************************************************************************)
EXTENDS RenderJob, SequenceTheorems, TLAPS

-----------------------------------------------------------------------------
(* The inductive invariant. *)

Step == Working \cup {"idle", "read", "failing", "cancelling"}

RenderType ==
  /\ jobs \in Seq(Row) /\ Len(jobs) <= MaxJobs
  /\ input \in Inputs \cup {None}
  /\ pc \in [Executor -> Step]
  /\ at \in [Executor -> 1..(MaxJobs + 1)]
  /\ copy \in [Executor -> Copy]
  /\ changes \in 0..MaxChanges /\ faults \in 0..MaxFaults

\* A job queued for given inputs keeps their identity, and its outputs show them.
Stamped(j) ==
  jobs[j].stamped => /\ jobs[j].input # None
                     /\ jobs[j].out \in {None, jobs[j].input}

\* What is selected or complete has outputs.
Shown(j) == jobs[j].selected \/ jobs[j].status = "complete" => jobs[j].out # None

\* An execution at work is at a job there is, and what it knows of the inputs is what
\* a job queued for given inputs says; past the resolution it knows them.
KnowsInputs(x) ==
  /\ pc[x] # "idle" => at[x] <= Len(jobs)
  /\ pc[x] \in Working /\ jobs[at[x]].stamped => copy[x].input = jobs[at[x]].input
  /\ pc[x] \in {"resolved", "bound", "encoding", "encoded"} => copy[x].input # None

RenderInv ==
  /\ RenderType
  /\ \A j \in 1..Len(jobs) : Stamped(j) /\ Shown(j)
  /\ \A j, k \in 1..Len(jobs) : jobs[j].selected /\ jobs[k].selected => j = k
  /\ \A j, k \in 1..Len(jobs) : jobs[j].identity # None /\ jobs[j].identity = jobs[k].identity => j = k
  /\ \A x \in Executor : KnowsInputs(x)

LEMMA RenderStarts == Init => RenderInv
<1> SUFFICES ASSUME Init PROVE RenderInv OBVIOUS
<1>1. jobs \in Seq(Row) /\ Len(jobs) = 0 BY DEF Init
<1>2. Blank \in Copy BY RenderAssumption DEF Blank, Copy
<1>3. /\ pc \in [Executor -> Step] /\ at \in [Executor -> 1..(MaxJobs + 1)] /\ copy \in [Executor -> Copy]
      /\ changes \in 0..MaxChanges /\ faults \in 0..MaxFaults /\ input \in Inputs \cup {None} /\ Len(jobs) <= MaxJobs
  BY <1>1, <1>2, RenderAssumption DEF Init, Step
<1>4. \A x \in Executor : KnowsInputs(x) BY DEF Init, KnowsInputs, Working
<1> QED BY <1>1, <1>3, <1>4 DEF RenderInv, RenderType

\* Where the rows are, and that an execution at work is at one of them.
LEMMA Rows ==
  ASSUME RenderInv
  PROVE  /\ jobs \in Seq(Row) /\ Len(jobs) \in Nat /\ Id = 1..Len(jobs) /\ \A j \in 1..Len(jobs) : jobs[j] \in Row
         /\ \A x \in Executor : pc[x] # "idle" => at[x] \in 1..Len(jobs)
<1>1. jobs \in Seq(Row) BY DEF RenderInv, RenderType
<1>2. Len(jobs) \in Nat /\ Id = 1..Len(jobs) /\ \A j \in 1..Len(jobs) : jobs[j] \in Row
  BY <1>1, LenProperties, ElementOfSeq DEF Id
<1>3. ASSUME NEW x \in Executor, pc[x] # "idle" PROVE at[x] \in 1..Len(jobs)
  <2>1. at[x] \in 1..(MaxJobs + 1) /\ MaxJobs \in Nat BY RenderAssumption DEF RenderInv, RenderType
  <2> QED BY <1>2, <1>3, <2>1 DEF RenderInv, KnowsInputs
<1> QED BY <1>1, <1>2, <1>3

\* What an execution x keeps of itself in a step, and what it leaves to the others.
Runs(x) ==
  /\ pc' \in [Executor -> Step] /\ at' \in [Executor -> 1..(MaxJobs + 1)] /\ copy' \in [Executor -> Copy]
  /\ \A y \in Executor \ {x} : pc'[y] = pc[y] /\ at'[y] = at[y] /\ copy'[y] = copy[y]
  /\ input' \in Inputs \cup {None} /\ changes' \in 0..MaxChanges /\ faults' \in 0..MaxFaults

\* What a write other than the completion leaves of a row.
Keeps(j, r) ==
  /\ r.stamped = jobs[j].stamped /\ (r.stamped => r.input = jobs[j].input)
  /\ r.out = jobs[j].out /\ r.selected = jobs[j].selected
  /\ r.status = "complete" => jobs[j].status = "complete"

LEMMA Rewritten ==
  ASSUME RenderInv, NEW x \in Executor, Runs(x), NEW j \in 1..Len(jobs), NEW r \in Row, Write(j, r), Keeps(j, r),
         r.identity = jobs[j].identity \/ \A k \in 1..Len(jobs) \ {j} : jobs[k].identity # r.identity,
         pc'[x] # "idle" => at'[x] <= Len(jobs),
         pc'[x] \in Working /\ jobs[at'[x]].stamped =>
           copy'[x].input = IF at'[x] = j THEN r.input ELSE jobs[at'[x]].input,
         pc'[x] \in {"resolved", "bound", "encoding", "encoded"} => copy'[x].input # None
  PROVE  RenderInv'
<1> USE DEF RenderInv, Keeps
<1>1. /\ jobs' \in Seq(Row) /\ Len(jobs') = Len(jobs) /\ Len(jobs) \in Nat
      /\ \A k \in 1..Len(jobs) : jobs'[k] = IF k = j THEN r ELSE jobs[k]
  BY Rows, ExceptSeq DEF Write
<1>2. RenderType' BY <1>1 DEF RenderType, Runs
<1>3. \A k \in 1..Len(jobs') : Stamped(k)' /\ Shown(k)' BY <1>1 DEF Stamped, Shown
<1>4. \A i, k \in 1..Len(jobs') : jobs'[i].selected /\ jobs'[k].selected => i = k BY <1>1
<1>5. \A i, k \in 1..Len(jobs') : jobs'[i].identity # None /\ jobs'[i].identity = jobs'[k].identity => i = k
  BY <1>1
<1>6. ASSUME NEW y \in Executor \ {x} PROVE KnowsInputs(y)'
  <2>1. pc[y] # "idle" => at[y] \in 1..Len(jobs) BY Rows
  <2>2. pc[y] \in Working => pc[y] # "idle" BY DEF Working
  <2> QED BY <1>1, <2>1, <2>2 DEF Runs, KnowsInputs
<1>7. KnowsInputs(x)'
  <2>1. pc'[x] # "idle" => at'[x] \in 1..Len(jobs) BY <1>1, RenderAssumption DEF Runs
  <2>2. pc'[x] \in Working => pc'[x] # "idle" BY DEF Working
  <2> QED BY <1>1, <2>1, <2>2 DEF KnowsInputs
<1> HIDE DEF RenderInv
<1> QED BY <1>2, <1>3, <1>4, <1>5, <1>6, <1>7 DEF RenderInv

LEMMA Unwritten ==
  ASSUME RenderInv, NEW x \in Executor, Runs(x), UNCHANGED jobs, KnowsInputs(x)'
  PROVE  RenderInv'
<1>1. RenderType' BY DEF RenderInv, RenderType, Runs
<1>2. \A j \in 1..Len(jobs') : Stamped(j)' /\ Shown(j)' BY DEF RenderInv, Stamped, Shown
<1>3. \A y \in Executor \ {x} : KnowsInputs(y)' BY DEF RenderInv, Runs, KnowsInputs
<1> QED BY <1>1, <1>2, <1>3 DEF RenderInv

\* A step that moves the execution and no other part of it.
LEMMA Goes ==
  ASSUME RenderInv, NEW x \in Executor, NEW step \in Step, Goto(x, step), UNCHANGED <<input, at, changes>>,
         NEW c \in Copy, copy' = [copy EXCEPT ![x] = c], faults' \in 0..MaxFaults
  PROVE  Runs(x) /\ pc'[x] = step /\ at'[x] = at[x] /\ copy'[x] = c
BY DEF RenderInv, RenderType, Runs, Goto

LEMMA Returns ==
  ASSUME RenderInv, NEW x \in Executor, Return(x), UNCHANGED <<input, changes>>, faults' \in 0..MaxFaults
  PROVE  /\ Runs(x) /\ pc'[x] = "idle" /\ KnowsInputs(x)'
<1>1. Blank \in Copy BY RenderAssumption DEF Blank, Copy
<1>2. 1 \in 1..(MaxJobs + 1) BY RenderAssumption
<1>3. Runs(x) /\ pc'[x] = "idle" BY <1>1, <1>2 DEF RenderInv, RenderType, Runs, Return, Goto, Step
<1> QED BY <1>3 DEF KnowsInputs, Working

\* A row is queued.
LEMMA QueueStep ==
  ASSUME RenderInv, Queue \/ QueueForReview
  PROVE  RenderInv'
<1> USE DEF RenderInv
<1>1. /\ Len(jobs) < MaxJobs /\ jobs' = Append(jobs, QueuedRow(input)) /\ UNCHANGED <<input, execVars, faults, changes>>
  BY DEF Queue, QueueForReview
<1>2. PICK r : r = QueuedRow(input) OBVIOUS
<1>3. /\ r \in Row /\ (r.stamped => r.input # None) /\ r.out = None /\ r.selected = FALSE /\ r.status = "queued"
      /\ r.identity = None
  <2>1. PICK b : b = (input # None) OBVIOUS
  <2>2. b \in BOOLEAN /\ input \in Inputs \cup {None} /\ 0 \in 0..MaxAttempts BY <2>1, RenderAssumption DEF RenderType
  <2>3. r = [status |-> "queued", holder |-> None, live |-> FALSE, attempts |-> 0, cancel |-> FALSE, input |-> input,
             identity |-> None, out |-> None, selected |-> FALSE, stamped |-> b]
    BY <1>2, <2>1 DEF QueuedRow
  <2>4. r \in Row BY <2>2, <2>3 DEF Row, Status
  <2> QED BY <2>1, <2>3, <2>4
<1>4. /\ jobs \in Seq(Row) /\ Len(jobs) \in Nat /\ jobs' \in Seq(Row) /\ Len(jobs') = Len(jobs) + 1
      /\ \A j \in 1..Len(jobs) : jobs'[j] = jobs[j]
      /\ jobs'[Len(jobs) + 1] = r
  BY <1>1, <1>2, <1>3, Rows, AppendProperties
<1>5. \A j \in 1..Len(jobs') : j \in 1..Len(jobs) \/ jobs'[j] = r BY <1>4
<1>6. RenderType' BY <1>1, <1>4, RenderAssumption DEF RenderType, execVars
<1>7. \A j \in 1..Len(jobs') : Stamped(j)' /\ Shown(j)' BY <1>3, <1>4, <1>5 DEF Stamped, Shown
<1>8. \A i, k \in 1..Len(jobs') : jobs'[i].selected /\ jobs'[k].selected => i = k BY <1>3, <1>4, <1>5
<1>9. \A i, k \in 1..Len(jobs') : jobs'[i].identity # None /\ jobs'[i].identity = jobs'[k].identity => i = k
  BY <1>3, <1>4, <1>5
<1>10. ASSUME NEW x \in Executor PROVE KnowsInputs(x)'
  <2>1. pc[x] # "idle" => at[x] \in 1..Len(jobs) BY Rows
  <2>2. pc[x] \in Working => pc[x] # "idle" BY DEF Working
  <2> QED BY <1>1, <1>4, <2>1, <2>2 DEF KnowsInputs, execVars
<1> HIDE DEF RenderInv
<1> QED BY <1>6, <1>7, <1>8, <1>9, <1>10 DEF RenderInv

\* The rows an execution reads and writes, and how it starts.
LEMMA ReadStep ==
  ASSUME RenderInv, NEW x \in Executor, NEW j \in Id, Read(x, j)
  PROVE  RenderInv'
<1>1. j \in 1..Len(jobs) /\ jobs[j] \in Row /\ Len(jobs) <= MaxJobs /\ Len(jobs) \in Nat /\ MaxJobs \in Nat
  BY Rows, RenderAssumption DEF RenderInv, RenderType
<1>2. PICK c : c = [Blank EXCEPT !.stopped = Stopped(jobs[j]), !.marked = jobs[j].status = "cancelled",
                                 !.attempts = jobs[j].attempts]
  OBVIOUS
<1>3. c \in Copy
  <2>1. /\ Stopped(jobs[j]) \in BOOLEAN /\ (jobs[j].status = "cancelled") \in BOOLEAN
        /\ jobs[j].attempts \in 0..MaxAttempts
    BY <1>1 DEF Row, Stopped
  <2> QED BY <1>2, <2>1 DEF Blank, Copy
<1>4. pc' = [pc EXCEPT ![x] = "read"] /\ at' = [at EXCEPT ![x] = j] /\ copy' = [copy EXCEPT ![x] = c]
      /\ UNCHANGED <<jobs, input, faults, changes>>
  BY <1>2 DEF Read, Goto
<1>5. "read" \in Step /\ "read" \notin Working BY DEF Step, Working
<1>6. Runs(x) /\ pc'[x] = "read" /\ at'[x] = j
  BY <1>1, <1>3, <1>4, <1>5 DEF Runs, RenderInv, RenderType
<1>7. KnowsInputs(x)' BY <1>1, <1>4, <1>5, <1>6 DEF KnowsInputs
<1> QED BY <1>4, <1>6, <1>7, Unwritten

LEMMA ClaimStep ==
  ASSUME RenderInv, NEW x \in Executor, Claim(x)
  PROVE  RenderInv'
<1>1. pc[x] = "read" /\ copy[x] \in Copy /\ at[x] \in 1..Len(jobs) /\ jobs[at[x]] \in Row
      /\ copy[x].attempts < MaxAttempts /\ MaxAttempts \in Nat
  BY Rows, RenderAssumption DEF Claim, MayClaim, RenderInv, RenderType
<1>2. PICK j, old : j = at[x] /\ old = jobs[at[x]] OBVIOUS
<1>3. PICK r : r = [old EXCEPT !.status = "running", !.holder = WorkerOf[x], !.live = TRUE,
                               !.attempts = copy[x].attempts + 1]
  OBVIOUS
<1>4. PICK c : c = [Blank EXCEPT !.held = TRUE, !.input = r.input, !.outputs = r.out # None] OBVIOUS
<1>5. Write(j, r) /\ copy' = [copy EXCEPT ![x] = c] /\ Goto(x, "claimed") /\ UNCHANGED <<input, at, faults, changes>>
  BY <1>2, <1>3, <1>4 DEF Claim
<1>6. WorkerOf[x] \in Worker /\ copy[x].attempts + 1 \in 0..MaxAttempts BY <1>1 DEF Worker, Copy
<1>7. /\ r \in Row /\ r.stamped = old.stamped /\ r.input = old.input /\ r.out = old.out /\ r.selected = old.selected
      /\ r.identity = old.identity /\ r.status = "running"
  BY <1>1, <1>2, <1>3, <1>6 DEF Row, Status
<1>8. c \in Copy /\ c.input = r.input
  <2>1. PICK b, i : b = (r.out # None) /\ i = r.input OBVIOUS
  <2>2. b \in BOOLEAN BY <2>1
  <2>3. i \in Inputs \cup {None} BY <1>7, <2>1 DEF Row
  <2>4. c = [Blank EXCEPT !.held = TRUE, !.input = i, !.outputs = b] BY <1>4, <2>1
  <2>5. Blank \in Copy BY RenderAssumption DEF Blank, Copy
  <2> QED BY <2>1, <2>2, <2>3, <2>4, <2>5 DEF Copy
<1>9. "claimed" \in Step BY DEF Step, Working
<1>10. Runs(x) /\ pc'[x] = "claimed" /\ at'[x] = j /\ copy'[x] = c
  BY <1>2, <1>5, <1>8, <1>9, Goes DEF RenderInv, RenderType
<1>11. Keeps(j, r) BY <1>2, <1>7 DEF Keeps
<1>12. j \in 1..Len(jobs) /\ j <= Len(jobs) /\ r.identity = jobs[j].identity BY <1>1, <1>2, <1>7, Rows
<1> QED BY <1>5, <1>7, <1>8, <1>10, <1>11, <1>12, Rewritten

\* A stage of an execution that holds its job, and writes the status or nothing.
LEMMA StageGoes ==
  ASSUME RenderInv, NEW x \in Executor, pc[x] \in Working, NEW step \in Step, Goto(x, step),
         UNCHANGED <<input, at, changes>>, faults' \in 0..MaxFaults,
         NEW c \in Copy, copy' = [copy EXCEPT ![x] = c], c.input = copy[x].input,
         NEW r \in Row, UNCHANGED jobs \/ Write(at[x], r), Keeps(at[x], r),
         r.identity = jobs[at[x]].identity \/ \A k \in 1..Len(jobs) \ {at[x]} : jobs[k].identity # r.identity,
         step \in {"resolved", "bound", "encoding", "encoded"} => copy[x].input # None
  PROVE  RenderInv'
<1>1. at[x] \in 1..Len(jobs) /\ Len(jobs) \in Nat BY Rows DEF Working
<1>2. Runs(x) /\ pc'[x] = step /\ at'[x] = at[x] /\ copy'[x] = c BY Goes
<1>3. PICK j : j = at[x] OBVIOUS
<1>4. jobs[j].stamped => c.input = jobs[j].input BY <1>3 DEF RenderInv, KnowsInputs
<1>5. CASE UNCHANGED jobs
  <2>1. KnowsInputs(x)' BY <1>1, <1>2, <1>3, <1>4, <1>5 DEF KnowsInputs
  <2> QED BY <1>2, <1>5, <2>1, Unwritten
<1>6. CASE Write(at[x], r)
  <2>1. r.stamped = jobs[j].stamped /\ (r.stamped => r.input = jobs[j].input) BY <1>3 DEF Keeps
  <2>2. jobs[at'[x]].stamped => copy'[x].input = IF at'[x] = j THEN r.input ELSE jobs[at'[x]].input
    BY <1>2, <1>3, <1>4, <2>1
  <2>3. j \in 1..Len(jobs) /\ j <= Len(jobs) /\ Write(j, r) /\ Keeps(j, r) /\ at'[x] = j BY <1>1, <1>2, <1>3, <1>6
  <2>4. r.identity = jobs[j].identity \/ \A k \in 1..Len(jobs) \ {j} : jobs[k].identity # r.identity BY <1>3
  <2> QED BY <1>2, <2>2, <2>3, <2>4, Rewritten
<1> QED BY <1>5, <1>6

LEMMA CheckpointRow ==
  ASSUME RenderInv, NEW j \in 1..Len(jobs), NEW r, r = [jobs[j] EXCEPT !.status = "running"]
  PROVE  r \in Row /\ Keeps(j, r) /\ r.identity = jobs[j].identity
<1>1. jobs[j] \in Row BY Rows
<1> QED BY <1>1 DEF Row, Status, Keeps

\* A step that keeps its row as it is keeps every row.
LEMMA SameRow ==
  ASSUME RenderInv, NEW j \in 1..Len(jobs)
  PROVE  jobs[j] \in Row /\ Keeps(j, jobs[j])
BY Rows DEF Keeps

LEMMA WorkStep ==
  ASSUME RenderInv, NEW x \in Executor,
         \/ Prepare(x) \/ Resolve(x) \/ ResolveRefused(x) \/ Bind(x) \/ DuplicateIdentity(x) \/ StartRender(x)
         \/ Encode(x) \/ LeaseFoundLost(x) \/ PollCancel(x) \/ Heartbeat(x) \/ Raise(x)
  PROVE  RenderInv'
<1>1. /\ pc[x] \in Working /\ UNCHANGED <<input, at, changes>> /\ faults' \in 0..MaxFaults
  BY RenderAssumption DEF Prepare, Resolve, ResolveRefused, Bind, DuplicateIdentity, StartRender, Encode, LeaseFoundLost,
     PollCancel, Heartbeat, Raise, Fault, Working, RenderInv, RenderType
<1>2. at[x] \in 1..Len(jobs) /\ copy[x] \in Copy /\ jobs[at[x]] \in Row
  <2>1. pc[x] # "idle" BY <1>1 DEF Working
  <2> QED BY <2>1, Rows DEF RenderInv, RenderType
<1>3. Working \cup {"failing", "cancelling"} \subseteq Step BY DEF Step
<1>4. PICK j, c : j = at[x] /\ c = copy[x] OBVIOUS
<1>5. j \in 1..Len(jobs) /\ c \in Copy /\ jobs[j] \in Row /\ Keeps(j, jobs[j]) BY <1>2, <1>4, SameRow
<1>6. pc[x] \in {"resolved", "bound", "encoding", "encoded"} => c.input # None BY <1>4 DEF RenderInv, KnowsInputs
<1>7. copy' = copy => copy' = [copy EXCEPT ![x] = c] BY <1>4 DEF RenderInv, RenderType
<1>8. CASE Prepare(x)
  <2>1. PICK r : r = [jobs[j] EXCEPT !.status = "running"] OBVIOUS
  <2>2. Write(at[x], r) /\ Goto(x, "preparing") /\ copy' = copy BY <1>4, <1>8, <2>1 DEF Prepare, Checkpoint
  <2>3. r \in Row /\ Keeps(at[x], r) /\ r.identity = jobs[at[x]].identity BY <1>4, <1>5, <2>1, CheckpointRow
  <2>4. "preparing" \in Step BY DEF Step, Working
  <2> QED BY <1>1, <1>4, <1>5, <1>7, <2>2, <2>3, <2>4, StageGoes
<1>9. CASE ResolveRefused(x) \/ DuplicateIdentity(x) \/ LeaseFoundLost(x) \/ Raise(x)
  <2>1. Goto(x, "failing") /\ UNCHANGED <<jobs, copy>>
    BY <1>9 DEF ResolveRefused, DuplicateIdentity, LeaseFoundLost, Raise
  <2>2. "failing" \in Step BY DEF Step
  <2> QED BY <1>1, <1>4, <1>5, <1>7, <2>1, <2>2, StageGoes
<1>10. CASE Encode(x)
  <2>1. Goto(x, "encoded") /\ UNCHANGED <<jobs, copy>> /\ pc[x] = "encoding" BY <1>10 DEF Encode
  <2>2. "encoded" \in Step BY DEF Step, Working
  <2> QED BY <1>1, <1>4, <1>5, <1>6, <1>7, <2>1, <2>2, StageGoes
<1>11. CASE Bind(x)
  <2>1. PICK r : r = [jobs[j] EXCEPT !.identity = copy[x].input, !.status = "running"] OBVIOUS
  <2>2. Write(at[x], r) /\ Goto(x, "bound") /\ copy' = copy /\ pc[x] = "resolved" BY <1>4, <1>11, <2>1 DEF Bind
  <2>3. c.input \in Inputs \cup {None} BY <1>5 DEF Copy
  <2>4. r \in Row /\ Keeps(at[x], r) /\ r.identity = c.input
    BY <1>4, <1>5, <2>1, <2>3 DEF Row, Status, Keeps
  <2>5. \A k \in 1..Len(jobs) \ {at[x]} : jobs[k].identity # r.identity
    BY <1>4, <1>11, <2>4, Rows DEF Bind, IdentityOwner
  <2>6. "bound" \in Step BY DEF Step, Working
  <2> QED BY <1>1, <1>4, <1>5, <1>6, <1>7, <2>2, <2>4, <2>5, <2>6, StageGoes
<1>12. CASE StartRender(x)
  <2>1. PICK r, d : r = [jobs[j] EXCEPT !.status = "running"] /\ d = [c EXCEPT !.outputs = FALSE] OBVIOUS
  <2>2. /\ Write(at[x], r) /\ (Goto(x, "encoded") \/ Goto(x, "encoding"))
        /\ copy' = [copy EXCEPT ![x] = d] /\ pc[x] = "bound"
    BY <1>4, <1>12, <2>1 DEF StartRender, Checkpoint
  <2>3. r \in Row /\ Keeps(at[x], r) /\ r.identity = jobs[at[x]].identity BY <1>4, <1>5, <2>1, CheckpointRow
  <2>4. "encoded" \in Step /\ "encoding" \in Step BY DEF Step, Working
  <2>5. d \in Copy /\ d.input = copy[x].input BY <1>4, <1>5, <2>1 DEF Copy
  <2> QED BY <1>1, <1>4, <1>6, <2>2, <2>3, <2>4, <2>5, StageGoes
<1>13. CASE PollCancel(x)
  <2>1. PICK d : d = [c EXCEPT !.held = jobs[at[x]].holder = WorkerOf[x]] OBVIOUS
  <2>2. /\ UNCHANGED jobs /\ (Goto(x, "cancelling") \/ Goto(x, "encoding"))
        /\ copy' = [copy EXCEPT ![x] = d] /\ pc[x] = "encoding"
    BY <1>4, <1>13, <2>1 DEF PollCancel
  <2>3. d \in Copy /\ d.input = copy[x].input
    <3>1. PICK b : b = (jobs[at[x]].holder = WorkerOf[x]) OBVIOUS
    <3>2. b \in BOOLEAN BY <3>1
    <3>3. d = [c EXCEPT !.held = b] BY <2>1, <3>1
    <3> QED BY <1>4, <1>5, <3>2, <3>3 DEF Copy
  <2>4. "cancelling" \in Step /\ "encoding" \in Step BY DEF Step, Working
  <2> QED BY <1>1, <1>4, <1>5, <1>6, <2>2, <2>3, <2>4, StageGoes
<1>14. CASE Heartbeat(x)
  <2>1. pc[x] = "encoding" /\ "encoding" \in Step /\ "failing" \in Step BY <1>14 DEF Heartbeat, Step, Working
  <2>2. CASE jobs[j].holder = WorkerOf[x]
    <3>1. PICK r, d : r = [jobs[j] EXCEPT !.live = TRUE] /\ d = [c EXCEPT !.held = TRUE] OBVIOUS
    <3>2. Write(at[x], r) /\ copy' = [copy EXCEPT ![x] = d] /\ UNCHANGED pc
      BY <1>4, <1>14, <2>2, <3>1 DEF Heartbeat
    <3>3. Goto(x, "encoding") BY <2>1, <3>2 DEF Goto, RenderInv, RenderType
    <3>4. d \in Copy /\ d.input = copy[x].input BY <1>4, <1>5, <3>1 DEF Copy
    <3>5. r \in Row /\ Keeps(at[x], r) /\ r.identity = jobs[at[x]].identity
      BY <1>4, <1>5, <3>1 DEF Row, Keeps
    <3> QED BY <1>1, <1>4, <1>6, <2>1, <3>2, <3>3, <3>4, <3>5, StageGoes
  <2>3. CASE jobs[j].holder # WorkerOf[x]
    <3>1. Goto(x, "failing") /\ UNCHANGED <<jobs, copy>> BY <1>4, <1>14, <2>3 DEF Heartbeat
    <3> QED BY <1>1, <1>4, <1>5, <1>7, <2>1, <3>1, StageGoes
  <2> QED BY <2>2, <2>3
<1>15. CASE Resolve(x)
  <2>1. PICK r, d : /\ r = IF c.input = input THEN jobs[j] ELSE [jobs[j] EXCEPT !.input = input]
                    /\ d = [c EXCEPT !.input = input]
    OBVIOUS
  <2>2. /\ Write(at[x], r) /\ copy' = [copy EXCEPT ![x] = d] /\ Goto(x, "resolved") /\ pc[x] = "preparing"
        /\ input # None /\ c.input \in {None, input} /\ input \in Inputs \cup {None}
    BY <1>4, <1>15, <2>1 DEF Resolve, IdentityKept, RenderInv, RenderType
  <2>3. r \in Row /\ r.stamped = jobs[j].stamped /\ r.out = jobs[j].out /\ r.selected = jobs[j].selected
        /\ r.status = jobs[j].status /\ r.identity = jobs[j].identity
    BY <1>5, <2>1, <2>2 DEF Row
  <2>4. jobs[j].stamped => jobs[j].input = c.input /\ c.input # None
    <3>1. jobs[j].stamped => jobs[j].input # None BY <1>5 DEF RenderInv, Stamped
    <3> QED BY <1>1, <1>4, <3>1 DEF RenderInv, KnowsInputs
  <2>5. jobs[j].stamped => r.input = jobs[j].input BY <2>1, <2>2, <2>4
  <2>6. Keeps(j, r) BY <2>3, <2>5 DEF Keeps
  <2>7. d \in Copy /\ d.input = input BY <1>5, <2>1, <2>2 DEF Copy
  <2>8. "resolved" \in Step BY DEF Step, Working
  <2>9. Runs(x) /\ pc'[x] = "resolved" /\ at'[x] = j /\ copy'[x] = d
    BY <1>1, <1>4, <2>2, <2>7, <2>8, Goes
  <2>10. jobs[j].stamped => d.input = r.input BY <2>2, <2>4, <2>5, <2>7
  <2>11. j <= Len(jobs) /\ Write(j, r) BY <1>4, <1>5, <2>2, Rows
  <2> QED BY <1>5, <2>2, <2>3, <2>6, <2>7, <2>9, <2>10, <2>11, Rewritten
<1> QED BY <1>8, <1>9, <1>10, <1>11, <1>12, <1>13, <1>14, <1>15

\* The transaction that completes a job and selects its render.
LEMMA CompleteStep ==
  ASSUME RenderInv, NEW x \in Executor, Complete(x)
  PROVE  RenderInv'
<1> USE DEF RenderInv
<1>1. /\ jobs \in Seq(Row) /\ Len(jobs) \in Nat /\ DOMAIN jobs = 1..Len(jobs)
      /\ \A j \in 1..Len(jobs) : jobs[j] \in Row
  BY Rows DEF Id
<1>2. PICK j, o : j = at[x] /\ o = copy[x].input OBVIOUS
<1>3. j \in 1..Len(jobs) /\ o \in Inputs /\ o # None
  <2>1. pc[x] = "encoded" /\ copy[x] \in Copy BY DEF Complete, RenderType
  <2>2. o # None /\ o \in Inputs \cup {None} BY <1>2, <2>1 DEF KnowsInputs, Copy
  <2> QED BY <1>2, <2>1, <2>2, Rows
<1>4. jobs[j].stamped => o = jobs[j].input
  BY <1>2 DEF Complete, Working, KnowsInputs
<1>5. PICK done : done = [jobs EXCEPT ![j].status = "complete", ![j].out = o, ![j].holder = None, ![j].live = FALSE]
  OBVIOUS
<1>6. jobs' = Deselected(done, j) /\ Return(x) /\ UNCHANGED <<input, faults, changes>>
  BY <1>2, <1>5 DEF Complete
<1>7. PICK d : d = [jobs[j] EXCEPT !.status = "complete", !.out = o, !.holder = None, !.live = FALSE] OBVIOUS
<1>8. /\ d \in Row /\ d.stamped = jobs[j].stamped /\ d.input = jobs[j].input /\ d.out = o /\ d.identity = jobs[j].identity
      /\ d.status = "complete"
  <2>1. jobs[j] \in Row BY <1>1, <1>3
  <2> QED BY <1>3, <1>7, <2>1 DEF Row, Status
<1>9. DOMAIN done = 1..Len(jobs) /\ \A k \in 1..Len(jobs) : done[k] = IF k = j THEN d ELSE jobs[k]
  BY <1>1, <1>3, <1>5, <1>7
<1>10. ASSUME NEW r \in Row, NEW b \in BOOLEAN
       PROVE  LET s == [r EXCEPT !.selected = b] IN
              /\ s \in Row /\ s.selected = b /\ s.stamped = r.stamped /\ s.input = r.input /\ s.out = r.out
              /\ s.identity = r.identity /\ s.status = r.status
  BY DEF Row
<1>11. ASSUME NEW k \in 1..Len(jobs)
       PROVE  /\ jobs'[k] \in Row /\ jobs'[k].selected = (k = j)
              /\ k = j => /\ jobs'[k].stamped = d.stamped /\ jobs'[k].input = d.input /\ jobs'[k].out = o
                          /\ jobs'[k].identity = d.identity
              /\ k # j => /\ jobs'[k].stamped = jobs[k].stamped /\ jobs'[k].input = jobs[k].input
                          /\ jobs'[k].out = jobs[k].out /\ jobs'[k].identity = jobs[k].identity
                          /\ jobs'[k].status = jobs[k].status
  <2>1. PICK b : b = (k = j) OBVIOUS
  <2>2. b \in BOOLEAN BY <2>1
  <2>3. done[k] \in Row BY <1>1, <1>8, <1>9
  <2>4. jobs'[k] = [done[k] EXCEPT !.selected = b] BY <1>6, <1>9, <2>1 DEF Deselected
  <2>5. /\ jobs'[k] \in Row /\ jobs'[k].selected = b /\ jobs'[k].stamped = done[k].stamped /\ jobs'[k].input = done[k].input
        /\ jobs'[k].out = done[k].out /\ jobs'[k].identity = done[k].identity /\ jobs'[k].status = done[k].status
    BY <1>10, <2>2, <2>3, <2>4
  <2> QED BY <1>8, <1>9, <2>1, <2>5
<1>12. jobs' \in [1..Len(jobs) -> Row] BY <1>6, <1>9, <1>11 DEF Deselected
<1>13. jobs' \in Seq(Row) /\ Len(jobs') = Len(jobs)
  <2>1. jobs' \in Seq(Row) BY <1>1, <1>12, SeqDef
  <2> QED BY <1>1, <1>12, <2>1, LenProperties
<1>14. faults' \in 0..MaxFaults /\ Runs(x) /\ pc'[x] = "idle"
  <2>1. faults' \in 0..MaxFaults BY <1>6 DEF RenderType
  <2> HIDE DEF RenderInv
  <2> QED BY <1>6, <2>1, Returns
<1>15. RenderType' BY <1>13, <1>14 DEF Runs, RenderType
<1>16. \A k \in 1..Len(jobs) : Stamped(k)' /\ Shown(k)'
  <2> SUFFICES ASSUME NEW k \in 1..Len(jobs) PROVE Stamped(k)' /\ Shown(k)' OBVIOUS
  <2>1. Stamped(k) /\ Shown(k) OBVIOUS
  <2>2. CASE k = j BY <1>3, <1>4, <1>8, <1>11, <2>1, <2>2 DEF Stamped, Shown
  <2>3. CASE k # j
    <3>1. jobs'[k].selected = FALSE BY <1>11, <2>3
    <3> QED BY <1>11, <2>1, <2>3, <3>1 DEF Stamped, Shown
  <2> QED BY <2>2, <2>3
<1>17. \A i, k \in 1..Len(jobs) : jobs'[i].selected /\ jobs'[k].selected => i = k BY <1>11
<1>18. \A k \in 1..Len(jobs) : jobs'[k].identity = jobs[k].identity BY <1>8, <1>11
<1>19. \A i, k \in 1..Len(jobs) : jobs'[i].identity # None /\ jobs'[i].identity = jobs'[k].identity => i = k
  BY <1>18
<1>20. \A k \in 1..Len(jobs) : jobs'[k].stamped = jobs[k].stamped /\ jobs'[k].input = jobs[k].input
  BY <1>8, <1>11
<1>21. ASSUME NEW y \in Executor PROVE KnowsInputs(y)'
  <2>1. CASE y = x BY <1>14, <2>1 DEF KnowsInputs, Working
  <2>2. CASE y # x
    <3>1. pc'[y] = pc[y] /\ at'[y] = at[y] /\ copy'[y] = copy[y] BY <1>14, <2>2 DEF Runs
    <3>2. pc[y] # "idle" => at[y] \in 1..Len(jobs)
      <4> HIDE DEF RenderInv
      <4> QED BY Rows
    <3>3. pc[y] \in Working => pc[y] # "idle" BY DEF Working
    <3>4. KnowsInputs(y) OBVIOUS
    <3> QED BY <1>13, <1>20, <3>1, <3>2, <3>3, <3>4 DEF KnowsInputs
  <2> QED BY <2>1, <2>2
<1> HIDE DEF RenderInv
<1> QED BY <1>13, <1>15, <1>16, <1>17, <1>19, <1>21 DEF RenderInv

\* An execution ends: by its word the row is failed or cancelled, or nothing is said.
LEMMA EndStep ==
  ASSUME RenderInv, NEW x \in Executor,
         CancelUnstarted(x) \/ ClaimRefused(x) \/ RecordFailure(x) \/ RecordCancellation(x) \/ Crash(x)
  PROVE  RenderInv'
<1>1. /\ pc[x] # "idle" /\ Return(x) /\ UNCHANGED <<input, changes>> /\ faults' \in 0..MaxFaults
  BY RenderAssumption DEF CancelUnstarted, ClaimRefused, RecordFailure, RecordCancellation, Crash, End, Fault,
     RenderInv, RenderType
<1>2. Runs(x) /\ pc'[x] = "idle" /\ KnowsInputs(x)' BY <1>1, Returns
<1>3. PICK j : j = at[x] OBVIOUS
<1>4. j \in 1..Len(jobs) /\ jobs[j] \in Row /\ Keeps(j, jobs[j]) BY <1>1, <1>3, Rows, SameRow
<1>5. UNCHANGED jobs \/ \E r \in Row : Write(j, r) /\ Keeps(j, r) /\ r.identity = jobs[j].identity
  <2>1. CASE CancelUnstarted(x)
    <3>1. PICK r : r = [jobs[j] EXCEPT !.status = "cancelled", !.holder = None, !.live = FALSE] OBVIOUS
    <3>2. r \in Row /\ Keeps(j, r) /\ r.identity = jobs[j].identity BY <1>4, <3>1 DEF Row, Status, Keeps
    <3>3. Write(j, r) \/ Write(j, jobs[j]) BY <1>3, <2>1, <3>1 DEF CancelUnstarted
    <3> QED BY <1>4, <3>2, <3>3
  <2>2. CASE RecordFailure(x) \/ RecordCancellation(x)
    <3>1. PICK status \in {"failed", "cancelled"} :
            Write(j, [Released(jobs[j], WorkerOf[x]) EXCEPT !.status = status])
      BY <1>3, <2>2 DEF RecordFailure, RecordCancellation, End
    <3>2. PICK q : q = Released(jobs[j], WorkerOf[x]) OBVIOUS
    <3>3. /\ q \in Row /\ q.stamped = jobs[j].stamped /\ q.input = jobs[j].input /\ q.out = jobs[j].out
          /\ q.selected = jobs[j].selected /\ q.identity = jobs[j].identity
      BY <1>4, <3>2 DEF Released, Row
    <3>4. PICK r : r = [q EXCEPT !.status = status] OBVIOUS
    <3>5. r \in Row /\ Keeps(j, r) /\ r.identity = jobs[j].identity BY <3>3, <3>4 DEF Row, Status, Keeps
    <3>6. Write(j, r) BY <3>1, <3>2, <3>4
    <3> QED BY <3>5, <3>6
  <2>3. CASE ClaimRefused(x) \/ Crash(x) BY <2>3 DEF ClaimRefused, Crash
  <2> QED BY <2>1, <2>2, <2>3
<1>6. CASE UNCHANGED jobs BY <1>2, <1>6, Unwritten
<1>7. ASSUME NEW r \in Row, Write(j, r), Keeps(j, r), r.identity = jobs[j].identity PROVE RenderInv'
  <2>1. pc'[x] \notin Working BY <1>2 DEF Working
  <2> QED BY <1>2, <1>4, <1>7, <2>1, Rewritten
<1> QED BY <1>5, <1>6, <1>7

\* What the owner, the operator and time do to a row or to the inputs.
LEMMA OutsideStep ==
  ASSUME RenderInv, ChangeInputs \/ (\E x \in Executor : Shutdown(x)) \/ (\E j \in Id : Expire(j))
  PROVE  RenderInv'
<1>1. /\ UNCHANGED execVars /\ input' \in Inputs \cup {None} /\ changes' \in 0..MaxChanges /\ faults' \in 0..MaxFaults
      /\ UNCHANGED jobs \/ \E j \in Id : \E row \in {[jobs[j] EXCEPT !.cancel = TRUE], [jobs[j] EXCEPT !.live = FALSE]} :
                            Write(j, row)
  <2>1. input \in Inputs \cup {None} /\ changes \in 0..MaxChanges /\ faults \in 0..MaxFaults
        /\ MaxFaults \in Nat /\ MaxChanges \in Nat
    BY RenderAssumption DEF RenderInv, RenderType
  <2>2. CASE ChangeInputs BY <2>1, <2>2 DEF ChangeInputs
  <2>3. ASSUME NEW x \in Executor, Shutdown(x)
        PROVE  /\ UNCHANGED <<execVars, input, changes>> /\ faults' \in 0..MaxFaults
               /\ \E j \in Id : Write(j, [jobs[j] EXCEPT !.cancel = TRUE])
    <3>1. faults' \in 0..MaxFaults BY <2>1, <2>3 DEF Shutdown, Fault
    <3>2. UNCHANGED <<execVars, input, changes>> BY <2>3 DEF Shutdown
    <3>3. PICK j \in Id : Write(j, [jobs[j] EXCEPT !.cancel = TRUE]) BY <2>3 DEF Shutdown
    <3> QED BY <3>1, <3>2, <3>3
  <2>4. ASSUME NEW j \in Id, Expire(j)
        PROVE  /\ UNCHANGED <<execVars, input, changes>> /\ faults' \in 0..MaxFaults
               /\ Write(j, [jobs[j] EXCEPT !.live = FALSE])
    BY <2>1, <2>4 DEF Expire, Fault
  <2> QED BY <2>1, <2>2, <2>3, <2>4
<1>2. UNCHANGED <<pc, at, copy>> BY <1>1 DEF execVars
<1>3. \A x \in Executor : Runs(x) BY <1>1, <1>2 DEF Runs, RenderInv, RenderType
<1>4. CASE UNCHANGED jobs
  BY <1>1, <1>2, <1>4 DEF RenderInv, RenderType, Stamped, Shown, KnowsInputs
<1>5. ASSUME NEW j \in Id, NEW row \in {[jobs[j] EXCEPT !.cancel = TRUE], [jobs[j] EXCEPT !.live = FALSE]}, Write(j, row)
      PROVE  RenderInv'
  <2>1. j \in 1..Len(jobs) /\ jobs[j] \in Row /\ Len(jobs) \in Nat BY Rows
  <2>2. row \in Row /\ Keeps(j, row) /\ row.identity = jobs[j].identity BY <2>1 DEF Row, Keeps
  <2>3. CASE Executor = {}
    <3>1. /\ jobs' \in Seq(Row) /\ Len(jobs') = Len(jobs)
          /\ \A k \in 1..Len(jobs) : jobs'[k] = IF k = j THEN row ELSE jobs[k]
      BY <1>5, <2>1, <2>2, Rows, ExceptSeq DEF Write
    <3>2. RenderType' BY <1>1, <1>2, <3>1 DEF RenderInv, RenderType
    <3>3. \A k \in 1..Len(jobs') : Stamped(k)' /\ Shown(k)' BY <2>2, <3>1 DEF RenderInv, Stamped, Shown, Keeps
    <3> QED BY <2>2, <2>3, <3>1, <3>2, <3>3 DEF RenderInv, Keeps
  <2>4. ASSUME NEW x \in Executor PROVE RenderInv'
    <3>1. KnowsInputs(x) /\ Runs(x) BY <1>3 DEF RenderInv
    <3>2. pc[x] # "idle" => at[x] \in 1..Len(jobs) BY Rows
    <3>3. pc[x] \in Working => pc[x] # "idle" BY DEF Working
    <3>4. /\ pc'[x] # "idle" => at'[x] <= Len(jobs)
          /\ pc'[x] \in {"resolved", "bound", "encoding", "encoded"} => copy'[x].input # None
      BY <1>2, <3>1 DEF KnowsInputs
    <3>5. pc'[x] \in Working /\ jobs[at'[x]].stamped =>
            copy'[x].input = IF at'[x] = j THEN row.input ELSE jobs[at'[x]].input
      BY <1>2, <2>2, <3>1 DEF KnowsInputs, Keeps
    <3> QED BY <1>5, <2>1, <2>2, <3>1, <3>4, <3>5, Rewritten
  <2> QED BY <2>3, <2>4
<1> QED BY <1>1, <1>4, <1>5

LEMMA NextStep ==
  ASSUME RenderInv, Next
  PROVE  RenderInv'
<1>1. ASSUME NEW x \in Executor, Poll(x) \/ ExecuteDirectly(x) PROVE RenderInv'
  BY <1>1, ReadStep DEF Poll, ExecuteDirectly
<1>2. ASSUME NEW x \in Executor, Stage(x) PROVE RenderInv'
  BY <1>2, ClaimStep, WorkStep, CompleteStep, EndStep DEF Stage
<1> QED BY <1>1, <1>2, QueueStep, WorkStep, EndStep, OutsideStep DEF Next

-----------------------------------------------------------------------------
(* Theorems. *)

\* The inductive invariant of the render jobs (services/render_execution): what an
\* execution knows of a job's inputs is what the job says, and what is shown has
\* outputs.
THEOREM Invariance == Spec => []RenderInv
<1>1. RenderInv /\ [Next]_vars => RenderInv'
  <2> SUFFICES ASSUME RenderInv, [Next]_vars PROVE RenderInv' OBVIOUS
  <2>1. CASE UNCHANGED vars
    BY <2>1 DEF vars, execVars, RenderInv, RenderType, Stamped, Shown, KnowsInputs
  <2> QED BY <2>1, NextStep
<1> QED BY <1>1, RenderStarts, PTL DEF Spec

\* Every variable keeps its type: no job has more attempts than it may.
THEOREM TypeCorrect == Spec => []TypeOK
<1>1. RenderInv => TypeOK BY Rows DEF RenderInv, RenderType, TypeOK, Step
<1> QED BY <1>1, Invariance, PTL

\* At most one render of a project is selected, it has its outputs, they were made from
\* the inputs the job was queued for, and no two jobs hold a manifest of the same
\* inputs, however many executions race, retry and die (RenderExecution.execute,
\* _select_render, bind_manifest).
THEOREM RenderStaysTrue == Spec => []RenderIsTrue
<1>1. RenderInv => RenderIsTrue
  <2> SUFFICES ASSUME RenderInv PROVE RenderIsTrue OBVIOUS
  <2>1. Id = 1..Len(jobs) BY Rows
  <2>2. OneSelected BY <2>1 DEF RenderInv, Shown, OneSelected
  <2>3. OutputsOfItsInputs BY <2>1 DEF RenderInv, Stamped, OutputsOfItsInputs
  <2> QED BY <2>2, <2>3 DEF RenderIsTrue
<1> QED BY <1>1, Invariance, PTL

\* Taking a row from its holder is what LeaseExcludes excludes, of one row.
Taken(j) == jobs'[j].holder \notin {jobs[j].holder, None} => jobs[j].holder = None \/ ~jobs[j].live

\* A claim takes no job from under the live lease of another worker
\* (claim_render_job's conditional UPDATE); no other step gives a job to anybody.
THEOREM LeasesExclude == Spec => LeaseExcludes
<1>1. ASSUME RenderInv, Next, NEW i \in Id PROVE Taken(i)
  <2>1. jobs \in Seq(Row) /\ DOMAIN jobs = 1..Len(jobs) /\ i \in 1..Len(jobs) BY <1>1, Rows DEF Id
  <2>2. ASSUME UNCHANGED jobs PROVE Taken(i) BY <2>2 DEF Taken
  <2>3. ASSUME NEW j, NEW r, Write(j, r), r.holder \in {jobs[j].holder, None} \/ jobs[j].holder = None \/ ~jobs[j].live
        PROVE  Taken(i)
    BY <2>1, <2>3 DEF Write, Taken
  <2>4. CASE Queue \/ QueueForReview
    <3>1. jobs' = Append(jobs, QueuedRow(input)) BY <2>4 DEF Queue, QueueForReview
    <3>2. jobs'[i] = jobs[i]
      <4>1. QueuedRow(input) \in Row
        <5>1. PICK b : b = (input # None) OBVIOUS
        <5>2. b \in BOOLEAN /\ input \in Inputs \cup {None} /\ 0 \in 0..MaxAttempts
          BY <1>1, <5>1, RenderAssumption DEF RenderInv, RenderType
        <5>3. QueuedRow(input) =
                [status |-> "queued", holder |-> None, live |-> FALSE, attempts |-> 0, cancel |-> FALSE, input |-> input,
                 identity |-> None, out |-> None, selected |-> FALSE, stamped |-> b]
          BY <5>1 DEF QueuedRow
        <5> QED BY <5>2, <5>3 DEF Row, Status
      <4> QED BY <2>1, <3>1, <4>1, AppendProperties
    <3> QED BY <3>2 DEF Taken
  <2>5. ASSUME NEW x \in Executor, Claim(x) PROVE Taken(i)
    <3>1. PICK j, r : /\ j = at[x]
                      /\ r = [jobs[j] EXCEPT !.status = "running", !.holder = WorkerOf[x], !.live = TRUE,
                                             !.attempts = copy[x].attempts + 1]
      OBVIOUS
    <3>2. Write(j, r) /\ Free(jobs[j], WorkerOf[x]) BY <2>5, <3>1 DEF Claim
    <3>3. j \in 1..Len(jobs) BY <1>1, <2>5, <3>1, Rows DEF Claim
    <3>4. jobs[j] \in Row BY <1>1, <3>3, Rows
    <3>5. r.holder = WorkerOf[x] BY <3>1, <3>4 DEF Row
    <3>6. jobs[j].holder = None \/ ~jobs[j].live \/ jobs[j].holder = WorkerOf[x] BY <3>2 DEF Free
    <3> QED BY <2>3, <3>2, <3>5, <3>6
  <2>6. ASSUME NEW x \in Executor, Complete(x) PROVE Taken(i)
    <3>1. PICK j : j = at[x] OBVIOUS
    <3>2. PICK o : o = copy[x].input OBVIOUS
    <3>3. PICK done : done = [jobs EXCEPT ![j].status = "complete", ![j].out = o, ![j].holder = None, ![j].live = FALSE]
      OBVIOUS
    <3>4. jobs' = Deselected(done, j) BY <2>6, <3>1, <3>2, <3>3 DEF Complete
    <3>5. DOMAIN done = 1..Len(jobs) /\ done[i].holder \in {jobs[i].holder, None}
      <4>1. jobs[i] \in Row BY <1>1, <2>1, Rows
      <4>2. i # j => done[i] = jobs[i] BY <2>1, <3>3
      <4>3. i = j => done[i] = [jobs[i] EXCEPT !.status = "complete", !.out = o, !.holder = None, !.live = FALSE]
        BY <2>1, <3>3
      <4> QED BY <2>1, <3>3, <4>1, <4>2, <4>3 DEF Row
    <3>6. PICK b : b = (i = j) OBVIOUS
    <3>7. jobs'[i] = [done[i] EXCEPT !.selected = b] BY <2>1, <3>4, <3>5, <3>6 DEF Deselected
    <3>8. jobs'[i].holder \in {jobs[i].holder, None} BY <3>5, <3>7
    <3> QED BY <3>8 DEF Taken
  <2>7. ASSUME NEW x \in Executor,
               CancelUnstarted(x) \/ Prepare(x) \/ Resolve(x) \/ Bind(x) \/ StartRender(x) \/ Heartbeat(x)
               \/ RecordFailure(x) \/ RecordCancellation(x)
        PROVE  Taken(i)
    <3>1. PICK j : j = at[x] OBVIOUS
    <3>2. j \in 1..Len(jobs)
      BY <1>1, <2>7, <3>1, Rows DEF CancelUnstarted, Prepare, Resolve, Bind, StartRender, Heartbeat, RecordFailure,
         RecordCancellation, End
    <3>3. jobs[j] \in Row BY <1>1, <3>2, Rows
    <3>4. UNCHANGED jobs \/ \E r : Write(j, r) /\ r.holder \in {jobs[j].holder, None}
      <4>1. CASE CancelUnstarted(x)
        <5>1. PICK r : r = [jobs[j] EXCEPT !.status = "cancelled", !.holder = None, !.live = FALSE] OBVIOUS
        <5>2. Write(j, r) \/ Write(j, jobs[j]) BY <3>1, <4>1, <5>1 DEF CancelUnstarted
        <5>3. r.holder \in {jobs[j].holder, None} BY <3>3, <5>1 DEF Row
        <5>4. jobs[j].holder \in {jobs[j].holder, None} OBVIOUS
        <5> QED BY <5>2, <5>3, <5>4
      <4>2. CASE Prepare(x) \/ StartRender(x)
        <5>1. Write(j, [jobs[j] EXCEPT !.status = "running"]) BY <3>1, <4>2 DEF Prepare, StartRender, Checkpoint
        <5> QED BY <3>3, <5>1 DEF Row
      <4>3. CASE Resolve(x)
        <5>1. Write(j, jobs[j]) \/ Write(j, [jobs[j] EXCEPT !.input = input]) BY <3>1, <4>3 DEF Resolve
        <5> QED BY <3>3, <5>1 DEF Row
      <4>4. CASE Bind(x)
        <5>1. PICK o : o = copy[x].input OBVIOUS
        <5>2. PICK r : r = [jobs[j] EXCEPT !.identity = o, !.status = "running"] OBVIOUS
        <5>3. Write(j, r) BY <3>1, <4>4, <5>1, <5>2 DEF Bind
        <5>4. r.holder \in {jobs[j].holder, None} BY <3>3, <5>2 DEF Row
        <5> QED BY <5>3, <5>4
      <4>5. CASE Heartbeat(x)
        <5>1. Write(j, [jobs[j] EXCEPT !.live = TRUE]) \/ UNCHANGED jobs BY <3>1, <4>5 DEF Heartbeat
        <5> QED BY <3>3, <5>1 DEF Row
      <4>6. CASE RecordFailure(x) \/ RecordCancellation(x)
        <5>1. PICK status, q : Write(j, [q EXCEPT !.status = status]) /\ q = Released(jobs[j], WorkerOf[x])
          BY <3>1, <4>6 DEF RecordFailure, RecordCancellation, End
        <5>2. q \in Row /\ q.holder \in {jobs[j].holder, None} BY <3>3, <5>1 DEF Released, Row
        <5>3. [q EXCEPT !.status = status].holder = q.holder BY <5>2 DEF Row
        <5> QED BY <5>1, <5>2, <5>3
      <4> QED BY <2>7, <4>1, <4>2, <4>3, <4>4, <4>5, <4>6
    <3> QED BY <2>2, <2>3, <3>4
  <2>8. ASSUME NEW x \in Executor, Shutdown(x) PROVE Taken(i)
    <3>1. PICK j \in Id : Write(j, [jobs[j] EXCEPT !.cancel = TRUE]) BY <2>8 DEF Shutdown
    <3>2. jobs[j] \in Row BY <1>1, Rows
    <3>3. [jobs[j] EXCEPT !.cancel = TRUE].holder = jobs[j].holder BY <3>2 DEF Row
    <3> QED BY <2>3, <3>1, <3>3
  <2>9. ASSUME NEW j \in Id, Expire(j) PROVE Taken(i)
    <3>1. Write(j, [jobs[j] EXCEPT !.live = FALSE]) BY <2>9 DEF Expire
    <3>2. jobs[j] \in Row BY <1>1, Rows
    <3>3. [jobs[j] EXCEPT !.live = FALSE].holder = jobs[j].holder BY <3>2 DEF Row
    <3> QED BY <2>3, <3>1, <3>3
  <2>10. ASSUME NEW x \in Executor,
                Poll(x) \/ ExecuteDirectly(x) \/ ClaimRefused(x) \/ ResolveRefused(x) \/ DuplicateIdentity(x)
                \/ Encode(x) \/ LeaseFoundLost(x) \/ PollCancel(x) \/ Raise(x) \/ Crash(x)
         PROVE  UNCHANGED jobs
    BY <2>10 DEF Poll, ExecuteDirectly, Read, ClaimRefused, ResolveRefused, DuplicateIdentity, Encode, LeaseFoundLost,
       PollCancel, Raise, Crash
  <2>11. ChangeInputs => UNCHANGED jobs BY DEF ChangeInputs
  <2> QED BY <1>1, <2>2, <2>4, <2>5, <2>6, <2>7, <2>8, <2>9, <2>10, <2>11 DEF Next, Stage
<1>2. RenderInv /\ [Next]_vars => [\A j \in Id : jobs'[j].holder \notin {jobs[j].holder, None}
                                   => jobs[j].holder = None \/ ~jobs[j].live]_vars
  BY <1>1 DEF Taken
<1> QED BY <1>2, Invariance, PTL DEF Spec, LeaseExcludes

-----------------------------------------------------------------------------
(* What final QA may hold against a file the render verified (Delivery).    *)

Delivers == INSTANCE Delivery

\* A plan the manifest builder makes: its beds end with the timeline and one of its
\* tracks is the narration.  A file is what FFprobe can measure of one.
PlanMade == {plan \in [mode: {"burn_in", "selectable", "both"}, length: Nat, shots: Nat, rate: Nat,
                   transitions: SUBSET {"cut", "crossfade", "cut with handles", "bare crossfade"},
                   narrations: {1}, narration: SUBSET (Nat \X Nat),
                   beds: SUBSET [start: Nat, length: Nat, ducked: BOOLEAN, quiet: BOOLEAN]] :
           \A b \in plan.beds : b.start + b.length <= plan.length}

FileMeasured == [video: STRING, picture: STRING, audio: STRING, sampled: Nat, subtitles: Nat, rate: Nat,
         length: Nat, videoLength: Nat, decodes: BOOLEAN, silences: SUBSET (Nat \X Nat)]

\* Of a plan of any length and a file the render verified, final QA finds nothing but
\* what it is known to find of good files: the excuses.  (verify_output, the
\* deterministic checks of final editorial QA)
THEOREM VerifiedIsExcused ==
  ASSUME NEW plan \in PlanMade, NEW m \in FileMeasured, Delivers!Planned(plan) /\ Delivers!Verified(plan, m)
  PROVE  Delivers!Graded(plan, m) \subseteq Delivers!Excused(plan)
<1>0. /\ plan.length \in Nat /\ plan.shots \in Nat
      /\ plan.beds \subseteq [start: Nat, length: Nat, ducked: BOOLEAN, quiet: BOOLEAN]
  BY DEF PlanMade
<1>1. Delivers!StreamCodes(plan, m) \subseteq Delivers!Excused(plan)
  BY DEF Delivers!StreamCodes, Delivers!Verified, Delivers!Subtitles, Delivers!Selectable, PlanMade, Delivers!Excused
<1>2. Delivers!DurationCodes(plan, m) \subseteq Delivers!Excused(plan)
  <2>1. Delivers!FrameAllowance(plan) \in Nat /\ m.length \in Nat BY <1>0 DEF Delivers!FrameAllowance, FileMeasured
  <2>2. m.length - plan.length \notin -Delivers!Tolerance..Delivers!Tolerance => Delivers!FrameAllowance(plan) > Delivers!Tolerance
    BY <1>0, <2>1 DEF Delivers!Verified, Delivers!Tolerance
  <2> QED BY <2>2 DEF Delivers!DurationCodes, Delivers!Unmeasured, Delivers!Excused
<1>3. Delivers!TransitionCodes(plan) = {} BY DEF Delivers!TransitionCodes, Delivers!Planned
<1>4. Delivers!NarrationCodes(plan, m) \subseteq Delivers!Excused(plan) BY DEF Delivers!NarrationCodes, Delivers!Unmeasured, Delivers!Excused
<1>5. Delivers!SilenceCodes(plan, m) \subseteq Delivers!Excused(plan) BY DEF Delivers!SilenceCodes, Delivers!Unmeasured, Delivers!Excused
<1>6. Delivers!MixCodes(plan) \subseteq Delivers!Excused(plan)
  <2>1. plan.narrations = 1 BY DEF PlanMade
  <2>2. ASSUME NEW b \in plan.beds PROVE ~(b.start + b.length > plan.length + Delivers!Tolerance)
    <3>1. b \in [start: Nat, length: Nat, ducked: BOOLEAN, quiet: BOOLEAN] BY <1>0
    <3>2. b.start + b.length <= plan.length BY DEF PlanMade
    <3> QED BY <1>0, <3>1, <3>2 DEF Delivers!Tolerance
  <2> QED BY <2>1, <2>2 DEF Delivers!MixCodes, Delivers!Excused
<1> QED BY <1>1, <1>2, <1>3, <1>4, <1>5, <1>6 DEF Delivers!Graded
==============================================================================
