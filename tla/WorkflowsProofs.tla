--------------------------- MODULE WorkflowsProofs ---------------------------
(***************************************************************************)
(* Theorems about the workflows that orchestrate a project, for every set  *)
(* of shots and of commands and every value of the bounds: the fan-out and *)
(* its children, and the executions of the project with the rows that      *)
(* describe them.                                                          *)
(***************************************************************************)
EXTENDS Workflows, FiniteSetTheorems, SequenceTheorems, TLAPS

-----------------------------------------------------------------------------
(* The fan-out. *)

\* What is known of a shot's outputs at the stage it is in.
GatedSoFar(s) ==
  /\ child[s].pc \in {"t15", "vqa", "repair"} => "kqa" \in passed[s]
  /\ child[s].pc = "lock" => passed[s] = {"kqa", "vqa"}
  /\ child[s].pc # "closed" => child[s].end = "none"

\* A shot is reported locked only by the child that ended so, which is over.
ReportedLocked ==
  \A s \in Owned : reported[s] = "locked" => child[s].pc = "closed" /\ child[s].end = "locked"

\* The parent has a status only once it has closed.
ClosedComplete ==
  /\ fan.status # "none" => fan.pc = "closed"
  /\ fan.status = "complete" => \A s \in Owned : child[s].pc = "closed" /\ child[s].end = "locked"

FanoutInv ==
  /\ FanoutType /\ LockedThroughGates /\ ReportedLocked /\ ClosedComplete
  /\ \A s \in Shot : GatedSoFar(s)

LEMMA FanoutStarts == FanoutInit => FanoutInv
<1> SUFFICES ASSUME FanoutInit PROVE FanoutInv OBVIOUS
<1>1. FanoutType
  <2>1. active \subseteq Owned /\ Cardinality(active) <= Concurrency
    BY FanoutAssumption, FS_EmptySet DEF FanoutInit
  <2>2. Unstarted \in Child BY DEF Unstarted, Child
  <2>3. child \in [Shot -> Child] BY <2>2 DEF FanoutInit
  <2>4. faults \in 0..MaxFaults /\ signals \in 0..MaxSignals BY FanoutAssumption DEF FanoutInit
  <2> QED BY <2>1, <2>3, <2>4 DEF FanoutInit, FanoutType
<1>2. QED
  BY <1>1 DEF FanoutInit, FanoutInv, LockedThroughGates, ReportedLocked, ClosedComplete, GatedSoFar, Unstarted, Shot

\* One open child becomes another; the parent and the other children stay as they are.
LEMMA ChildMoves ==
  ASSUME FanoutInv, NEW s \in Shot, Open(s), NEW c \in Child, Become(s, c),
         UNCHANGED <<fan, active>>, faults' \in 0..MaxFaults, signals' \in 0..MaxSignals, changed' \in BOOLEAN,
         passed' \in [Shot -> SUBSET {"kqa", "vqa"}],
         \A q \in Shot \ {s} : passed'[q] = passed[q],
         reported' \in [Owned -> {"none", "retryable"} \cup (End \ {"raised"})],
         \A q \in Owned \ {s} : reported'[q] = reported[q],
         s \in Owned /\ reported'[s] = "locked" => c.pc = "closed" /\ c.end = "locked",
         c.pc \in {"t15", "vqa", "repair"} => "kqa" \in passed'[s],
         c.pc = "lock" \/ c.end = "locked" => passed'[s] = {"kqa", "vqa"},
         c.pc # "closed" => c.end = "none"
  PROVE  FanoutInv'
<1> USE DEF FanoutInv, Become
<1>1. child' \in [Shot -> Child] /\ child'[s] = c /\ \A q \in Shot \ {s} : child'[q] = child[q]
  BY DEF FanoutType
<1>2. FanoutType' BY <1>1 DEF FanoutType
<1>3. LockedThroughGates' BY <1>1 DEF LockedThroughGates
<1>4. ReportedLocked' BY <1>1 DEF ReportedLocked, Shot
<1>5. ClosedComplete' BY <1>1 DEF ClosedComplete, Open, Shot
<1>6. \A q \in Shot : GatedSoFar(q)' BY <1>1 DEF GatedSoFar
<1> QED BY <1>2, <1>3, <1>4, <1>5, <1>6

\* What a report leaves in `reported'.
LEMMA Reports ==
  ASSUME FanoutInv, NEW s \in Shot, NEW state \in {"retryable"} \cup (End \ {"raised"}), Report(s, state)
  PROVE  /\ reported' \in [Owned -> {"none", "retryable"} \cup (End \ {"raised"})]
         /\ \A q \in Owned \ {s} : reported'[q] = reported[q]
         /\ s \in Owned => reported'[s] = IF Deaf(s) THEN reported[s] ELSE state
BY DEF FanoutInv, FanoutType, Report

LEMMA Finishes ==
  ASSUME FanoutInv, NEW s \in Shot, Open(s), NEW end \in End \ {"raised"}, Finish(s, end),
         UNCHANGED <<fan, active>>, faults' \in 0..MaxFaults, signals' \in 0..MaxSignals, changed' \in BOOLEAN,
         passed' \in [Shot -> SUBSET {"kqa", "vqa"}],
         \A q \in Shot \ {s} : passed'[q] = passed[q],
         end = "locked" => passed'[s] = {"kqa", "vqa"}
  PROVE  FanoutInv'
<1> DEFINE c == [child[s] EXCEPT !.pc = "closed", !.end = IF Deaf(s) THEN "raised" ELSE end]
<1>1. c \in Child /\ c.pc = "closed" /\ c.end = IF Deaf(s) THEN "raised" ELSE end
  <2>1. child[s] \in Child BY DEF FanoutInv, FanoutType
  <2> QED BY <2>1 DEF Child, End
<1>2. Become(s, c) BY DEF Finish
<1>3. Report(s, end) BY DEF Finish
<1>4. s \in Owned => reported[s] # "locked" BY DEF FanoutInv, ReportedLocked, Open
<1> HIDE DEF c
<1> QED BY <1>1, <1>2, <1>3, <1>4, Reports, ChildMoves, Zenon

LEMMA Parks ==
  ASSUME FanoutInv, NEW s \in Shot, Open(s), Park(s),
         UNCHANGED <<fan, active, passed>>, faults' \in 0..MaxFaults, signals' \in 0..MaxSignals,
         changed' \in BOOLEAN
  PROVE  FanoutInv'
<1> DEFINE c == IF Deaf(s) THEN [child[s] EXCEPT !.pc = "closed", !.end = "raised"]
                           ELSE [child[s] EXCEPT !.pc = "parked"]
<1>1. /\ c \in Child /\ c.pc \in {"closed", "parked"} /\ c.end \in {"raised", "none"}
      /\ c.pc # "closed" => c.end = "none"
  <2>1. child[s] \in Child /\ child[s].pc # "closed" BY DEF FanoutInv, FanoutType, Open
  <2>2. child[s].end = "none" BY <2>1 DEF FanoutInv, GatedSoFar
  <2> QED BY <2>1, <2>2 DEF Child, End
<1>2. Become(s, c) BY DEF Park
<1>3. Report(s, "retryable") BY DEF Park
<1>4. s \in Owned => reported[s] # "locked" BY DEF FanoutInv, ReportedLocked, Open
<1>5. passed' \in [Shot -> SUBSET {"kqa", "vqa"}] BY DEF FanoutInv, FanoutType
<1> HIDE DEF c
<1> QED BY <1>1, <1>2, <1>3, <1>4, <1>5, Reports, ChildMoves

\* From the end of one activity to the start of the next.
LEMMA Proceeds ==
  ASSUME FanoutInv, NEW s \in Shot, Open(s), NEW stage \in Stage, NEW gates \in SUBSET {"kqa", "vqa"},
         Proceed(s, stage, gates),
         stage \in {"t15", "vqa", "repair"} => "kqa" \in gates, stage = "lock" => gates = {"kqa", "vqa"}
  PROVE  FanoutInv'
<1>1. /\ passed' \in [Shot -> SUBSET {"kqa", "vqa"}] /\ passed'[s] = gates
      /\ \A q \in Shot \ {s} : passed'[q] = passed[q]
  BY DEF Proceed, FanoutInv, FanoutType
<1>2. /\ faults' \in 0..MaxFaults /\ signals' \in 0..MaxSignals /\ changed' \in BOOLEAN
      /\ UNCHANGED <<fan, active>>
  BY DEF Proceed, FanoutInv, FanoutType
<1>3. CASE child[s].cancel
  BY <1>1, <1>2, <1>3, Finishes DEF Proceed, End
<1>4. CASE ~child[s].cancel
  <2> DEFINE c == [child[s] EXCEPT !.pc = stage, !.keyframe = @ \/ stage = "kqa"]
  <2>1. child[s] \in Child /\ child[s].pc # "closed" BY DEF FanoutInv, FanoutType, Open
  <2>2. child[s].end = "none" BY <2>1 DEF FanoutInv, GatedSoFar
  <2>3. c \in Child /\ c.pc = stage /\ c.end = "none" BY <2>1, <2>2 DEF Child, End
  <2>4. Become(s, c) /\ reported' = reported BY <1>4 DEF Proceed
  <2>5. reported' \in [Owned -> {"none", "retryable"} \cup (End \ {"raised"})]
    BY <2>4 DEF FanoutInv, FanoutType
  <2>6. s \in Owned => reported[s] # "locked" BY DEF FanoutInv, ReportedLocked, Open
  <2> HIDE DEF c
  <2>7. stage # "closed" BY DEF Stage
  <2> QED BY <1>1, <1>2, <2>3, <2>4, <2>5, <2>6, <2>7, ChildMoves
<1> QED BY <1>3, <1>4

\* An open child moves on beside its outputs, and nothing is reported.
LEMMA Goes ==
  ASSUME FanoutInv, NEW s \in Shot, Open(s), NEW c \in Child, Become(s, c), UNCHANGED <<fanVars, passed>>,
         faults' \in 0..MaxFaults, signals' \in 0..MaxSignals, changed' \in BOOLEAN, c.end = "none",
         c.pc \in {"t15", "vqa", "repair"} => "kqa" \in passed[s],
         c.pc = "lock" => passed[s] = {"kqa", "vqa"}
  PROVE  FanoutInv'
<1>1. /\ reported' \in [Owned -> {"none", "retryable"} \cup (End \ {"raised"})]
      /\ passed' \in [Shot -> SUBSET {"kqa", "vqa"}]
  BY DEF fanVars, FanoutInv, FanoutType
<1>2. s \in Owned => reported[s] # "locked" BY DEF FanoutInv, ReportedLocked, Open
<1> QED BY <1>1, <1>2, ChildMoves DEF fanVars

LEMMA StageStep ==
  ASSUME FanoutInv, NEW s \in Shot, StageEnds(s)
  PROVE  FanoutInv'
<1>1. Open(s) /\ child[s] \in Child /\ passed[s] \in SUBSET {"kqa", "vqa"} /\ GatedSoFar(s)
  BY DEF StageEnds, ResolveInput, DrawKeyframe, KeyframeQA, Animate, VideoQA, Block, Repaired, Unrepaired,
     Lock, Refuse, Fail, Open, Stage, FanoutInv, FanoutType
<1>2. ASSUME UNCHANGED <<fan, active, passed, faults, signals, changed>>
      PROVE  /\ faults' \in 0..MaxFaults /\ signals' \in 0..MaxSignals /\ changed' \in BOOLEAN
             /\ passed' \in [Shot -> SUBSET {"kqa", "vqa"}]
  BY <1>2 DEF FanoutInv, FanoutType
<1>3. CASE ResolveInput(s)
  <2>1. CASE s \in Replacement BY <1>1, <1>3, <2>1, Proceeds DEF ResolveInput, Stage
  <2>2. CASE s \notin Replacement BY <1>1, <1>3, <2>2, Proceeds DEF ResolveInput, Stage
  <2> QED BY <2>1, <2>2
<1>4. CASE DrawKeyframe(s) BY <1>1, <1>4, Proceeds DEF DrawKeyframe, Stage
<1>5. CASE KeyframeQA(s) BY <1>1, <1>5, Proceeds DEF KeyframeQA, Stage
<1>6. CASE Animate(s) BY <1>1, <1>6, Proceeds DEF Animate, Stage, GatedSoFar
<1>7. CASE VideoQA(s)
  <2>1. passed[s] \cup {"vqa"} = {"kqa", "vqa"} BY <1>1, <1>7 DEF VideoQA, GatedSoFar
  <2> QED BY <1>1, <1>7, <2>1, Proceeds DEF VideoQA, Stage
<1>8. CASE Repaired(s)
  <2>1. passed[s] \cup {"vqa"} = {"kqa", "vqa"} BY <1>1, <1>8 DEF Repaired, GatedSoFar
  <2> QED BY <1>1, <1>8, <2>1, Proceeds DEF Repaired, Stage
<1>9. CASE Lock(s)
  <2>1. passed[s] = {"kqa", "vqa"} BY <1>1, <1>9 DEF Lock, GatedSoFar
  <2> QED BY <1>1, <1>2, <1>9, <2>1, Finishes DEF Lock, End
<1>10. CASE Block(s)
  <2>1. [child[s] EXCEPT !.pc = "repair"] \in Child BY <1>1 DEF Child, Stage
  <2>2. child[s].end = "none" /\ "kqa" \in passed[s] BY <1>1, <1>10 DEF Block, GatedSoFar
  <2>3. /\ faults' \in 0..MaxFaults /\ signals' \in 0..MaxSignals /\ changed' \in BOOLEAN
        /\ Become(s, [child[s] EXCEPT !.pc = "repair"]) /\ UNCHANGED <<fanVars, passed>>
    BY <1>10 DEF Block, FanoutInv, FanoutType
  <2>4. /\ [child[s] EXCEPT !.pc = "repair"].pc = "repair"
        /\ [child[s] EXCEPT !.pc = "repair"].end = child[s].end
    BY <1>1 DEF Child
  <2> QED BY <1>1, <2>1, <2>2, <2>3, <2>4, Goes
<1>11. CASE Unrepaired(s) BY <1>1, <1>2, <1>11, Finishes DEF Unrepaired, End
<1>12. CASE Refuse(s) BY <1>1, <1>2, <1>12, Parks DEF Refuse
<1>13. CASE Fail(s)
  <2>1. /\ faults' \in 0..MaxFaults /\ signals' \in 0..MaxSignals /\ changed' \in BOOLEAN
        /\ passed' \in [Shot -> SUBSET {"kqa", "vqa"}]
    BY <1>13, FanoutAssumption DEF Fail, FanoutInv, FanoutType
  <2> QED BY <1>1, <1>13, <2>1, Finishes, Parks DEF Fail, End
<1> QED BY <1>3, <1>4, <1>5, <1>6, <1>7, <1>8, <1>9, <1>10, <1>11, <1>12, <1>13 DEF StageEnds

\* What the owner and the cluster ask of one child.
LEMMA SignalStep ==
  ASSUME FanoutInv, NEW s \in Shot, Wake(s) \/ Retry(s) \/ CancelShot(s) \/ Cancelled(s)
  PROVE  FanoutInv'
<1>1. Open(s) /\ child[s] \in Child /\ child[s].end = "none"
  BY DEF Wake, Retry, CancelShot, Cancelled, Open, FanoutInv, FanoutType, GatedSoFar
<1>2. /\ faults' \in 0..MaxFaults /\ signals' \in 0..MaxSignals /\ changed' \in BOOLEAN
      /\ passed' = passed /\ passed' \in [Shot -> SUBSET {"kqa", "vqa"}] /\ UNCHANGED <<fan, active>>
  BY FanoutAssumption DEF Wake, Retry, CancelShot, Cancelled, fanVars, FanoutInv, FanoutType
<1>3. CASE Wake(s) BY <1>1, <1>2, <1>3, Finishes DEF Wake, End
<1>4. CASE Retry(s)
  <2>1. Entry(s) \in {"kqa", "t14"} BY DEF Entry
  <2>2. PICK c : c = [child[s] EXCEPT !.pc = Entry(s)] OBVIOUS
  <2>3. c \in Child /\ c.end = "none" /\ c.pc \in {"kqa", "t14"} BY <1>1, <2>1, <2>2 DEF Child, Stage
  <2>4. Become(s, c) /\ UNCHANGED <<fanVars, passed>> BY <1>4, <2>2 DEF Retry
  <2> QED BY <1>1, <1>2, <2>3, <2>4, Goes
<1>5. CASE CancelShot(s)
  <2>1. PICK c : c = [child[s] EXCEPT !.cancel = TRUE] OBVIOUS
  <2>2. c \in Child /\ c.end = "none" /\ c.pc = child[s].pc BY <1>1, <2>1 DEF Child
  <2>3. Become(s, c) /\ UNCHANGED <<fanVars, passed>> BY <1>5, <2>1 DEF CancelShot
  <2>4. GatedSoFar(s) BY DEF FanoutInv
  <2> QED BY <1>1, <1>2, <2>2, <2>3, <2>4, Goes DEF GatedSoFar
<1>6. CASE Cancelled(s) /\ child[s].pc = "parked"
  <2>1. PICK c : c = [child[s] EXCEPT !.pc = "closed", !.end = "raised"] OBVIOUS
  <2>2. c \in Child /\ c.end = "raised" /\ c.pc = "closed" BY <1>1, <2>1 DEF Child, End
  <2>3. Become(s, c) /\ reported' = reported BY <1>6, <2>1 DEF Cancelled
  <2>4. reported' \in [Owned -> {"none", "retryable"} \cup (End \ {"raised"})]
    BY <2>3 DEF FanoutInv, FanoutType
  <2>5. s \in Owned => reported[s] # "locked" BY <1>1 DEF FanoutInv, ReportedLocked, Open
  <2> QED BY <1>1, <1>2, <2>2, <2>3, <2>4, <2>5, ChildMoves
<1>7. CASE Cancelled(s) /\ child[s].pc # "parked"
  <2>1. PICK c : c = IF Deaf(s) THEN [child[s] EXCEPT !.pc = "closed", !.end = "raised"]
                     ELSE [child[s] EXCEPT !.pc = "parked", !.asked = FALSE]
    OBVIOUS
  <2>2. /\ c \in Child /\ c.end \in {"none", "raised"} /\ c.pc \in {"closed", "parked"}
        /\ c.pc # "closed" => c.end = "none"
    BY <1>1, <2>1 DEF Child, End
  <2>3. Become(s, c) /\ Report(s, "retryable") BY <1>7, <2>1 DEF Cancelled
  <2>4. s \in Owned => reported[s] # "locked" BY <1>1 DEF FanoutInv, ReportedLocked, Open
  <2> QED BY <1>1, <1>2, <2>2, <2>3, <2>4, Reports, ChildMoves
<1> QED BY <1>3, <1>4, <1>5, <1>6, <1>7

\* A child starts.
LEMMA Started ==
  ASSUME FanoutInv, NEW s \in Shot, child[s].pc = "none", Become(s, [Unstarted EXCEPT !.pc = "resolve"]),
         UNCHANGED <<fan, reported, passed, faults, changed>>, signals' \in 0..MaxSignals,
         active' \subseteq Owned, Cardinality(active') <= Concurrency
  PROVE  FanoutInv'
<1> USE DEF FanoutInv
<1>1. PICK c : c = [Unstarted EXCEPT !.pc = "resolve"] OBVIOUS
<1>2. c \in Child /\ c.pc = "resolve" /\ c.end = "none" BY <1>1 DEF Unstarted, Child, Stage
<1>3. child' \in [Shot -> Child] /\ child'[s] = c /\ \A q \in Shot \ {s} : child'[q] = child[q]
  BY <1>1, <1>2 DEF FanoutType, Become
<1>4. FanoutType' BY <1>3 DEF FanoutType
<1>5. LockedThroughGates' BY <1>2, <1>3 DEF LockedThroughGates
<1>6. ReportedLocked' BY <1>3 DEF ReportedLocked, Shot
<1>7. ClosedComplete' BY <1>3 DEF ClosedComplete, Shot
<1>8. \A q \in Shot : GatedSoFar(q)' BY <1>2, <1>3 DEF GatedSoFar
<1> QED BY <1>4, <1>5, <1>6, <1>7, <1>8

LEMMA Asks ==
  ASSUME FanoutInv, NEW shots, child' = AskCluster(shots)
  PROVE  /\ child' \in [Shot -> Child]
         /\ \A q \in Shot : child'[q].pc = child[q].pc /\ child'[q].end = child[q].end
<1>1. ASSUME NEW q \in Shot
      PROVE  /\ [child[q] EXCEPT !.asked = TRUE] \in Child
             /\ [child[q] EXCEPT !.asked = TRUE].pc = child[q].pc
             /\ [child[q] EXCEPT !.asked = TRUE].end = child[q].end
  <2>1. child[q] \in Child BY DEF FanoutInv, FanoutType
  <2> QED BY <2>1 DEF Child
<1> QED BY <1>1 DEF AskCluster, FanoutInv, FanoutType

\* The parent moves while no child does more than hear of it.
LEMMA ParentMoves ==
  ASSUME FanoutInv, UNCHANGED <<reported, passed>>, fan' \in [pc : {"resolve", "fill", "wait", "save", "closed"},
           cancelled : BOOLEAN, status : FanStatus \cup {"none"}],
         child' \in [Shot -> Child], \A q \in Shot : child'[q].pc = child[q].pc /\ child'[q].end = child[q].end,
         active' \subseteq Owned, Cardinality(active') <= Concurrency,
         faults' \in 0..MaxFaults, signals' \in 0..MaxSignals, changed' \in BOOLEAN,
         ClosedComplete'
  PROVE  FanoutInv'
<1> USE DEF FanoutInv
<1>1. FanoutType' BY DEF FanoutType
<1>2. LockedThroughGates' BY DEF LockedThroughGates
<1>3. ReportedLocked' BY DEF ReportedLocked, Shot
<1>4. \A q \in Shot : GatedSoFar(q)' BY DEF GatedSoFar
<1> QED BY <1>1, <1>2, <1>3, <1>4

\* Counting as many shots as there are is counting every one.
LEMMA CountsAll ==
  ASSUME Count("locked") = Cardinality(Owned), NEW s \in Owned
  PROVE  reported[s] = "locked"
<1> DEFINE L == {q \in Owned : reported[q] = "locked"}
<1>1. L \in SUBSET Owned OBVIOUS
<1>2. Cardinality(Owned) = Cardinality(L) BY DEF Count
<1> HIDE DEF L
<1>3. Owned = L BY <1>1, <1>2, FS_Subset, FanoutAssumption
<1> QED BY <1>3 DEF L

\* The parent closes with a status, which is complete only when every shot reported
\* that it is locked.
LEMMA Closes ==
  ASSUME FanoutInv, fan.pc # "closed", NEW status \in FanStatus, Close(status), UNCHANGED <<active, reported, passed>>,
         faults' \in 0..MaxFaults, signals' \in 0..MaxSignals, changed' \in BOOLEAN,
         status = "complete" => \A s \in Owned : reported[s] = "locked"
  PROVE  FanoutInv'
<1>1. /\ fan' \in [pc : {"resolve", "fill", "wait", "save", "closed"}, cancelled : BOOLEAN,
                   status : FanStatus \cup {"none"}]
      /\ fan'.pc = "closed" /\ fan'.status = status
  BY DEF Close, FanoutInv, FanoutType
<1>2. /\ child' \in [Shot -> Child]
      /\ \A q \in Shot : child'[q].pc = child[q].pc /\ child'[q].end = child[q].end
  BY Asks DEF Close
<1>3. active' \subseteq Owned /\ Cardinality(active') <= Concurrency BY DEF FanoutInv, FanoutType
<1>4. ClosedComplete' BY <1>1, <1>2 DEF ClosedComplete, FanoutInv, ReportedLocked, Shot
<1> QED BY <1>1, <1>2, <1>3, <1>4, ParentMoves

LEMMA ParentStep ==
  ASSUME FanoutInv, Fanout \/ CancelFanout \/ ParentCancelled \/ ChangeSettings
  PROVE  FanoutInv'
<1>1. /\ active \subseteq Owned /\ Cardinality(active) <= Concurrency /\ IsFiniteSet(active)
      /\ Cardinality(active) \in Nat /\ Concurrency \in Nat /\ child \in [Shot -> Child]
      /\ faults \in 0..MaxFaults /\ signals \in 0..MaxSignals /\ changed \in BOOLEAN
      /\ MaxFaults \in Nat /\ MaxSignals \in Nat
      /\ fan \in [pc : {"resolve", "fill", "wait", "save", "closed"}, cancelled : BOOLEAN,
                  status : FanStatus \cup {"none"}]
  BY FanoutAssumption, FS_Subset, FS_CardinalityType DEF FanoutInv, FanoutType
<1>2. fan.pc # "closed" => fan.status = "none" BY <1>1 DEF FanoutInv, ClosedComplete
<1>3. CASE Resolve
  <2>1. CASE fan' = [fan EXCEPT !.pc = Loop({})] /\ UNCHANGED <<child, faults>>
    <3>1. fan'.status = "none" /\ fan' \in [pc : {"fill", "save"}, cancelled : BOOLEAN, status : FanStatus \cup {"none"}]
      BY <1>1, <1>2, <1>3, <2>1 DEF Resolve, Loop
    <3>2. ClosedComplete' BY <3>1 DEF ClosedComplete
    <3> QED BY <1>1, <1>3, <2>1, <3>1, <3>2, ParentMoves DEF Resolve
  <2>2. CASE faults < MaxFaults /\ faults' = faults + 1 /\ Close("raised")
    BY <1>1, <1>3, <2>2, Closes DEF Resolve, FanStatus
  <2> QED BY <1>3, <2>1, <2>2 DEF Resolve
<1>4. CASE Await
  <2>1. fan'.status = "none" /\ fan' \in [pc : {"wait"}, cancelled : BOOLEAN, status : FanStatus \cup {"none"}]
    BY <1>1, <1>2, <1>4 DEF Await
  <2>2. ClosedComplete' BY <2>1 DEF ClosedComplete
  <2> QED BY <1>1, <1>4, <2>1, <2>2, ParentMoves DEF Await
<1>5. CASE Collect
  <2>1. UNCHANGED <<reported, passed, faults, signals, changed>> /\ fan.pc = "wait" BY <1>5 DEF Collect
  <2>2. CASE Close("raised") /\ UNCHANGED active
    BY <1>1, <2>1, <2>2, Closes DEF FanStatus
  <2>3. CASE active' = active \ Done /\ fan' = [fan EXCEPT !.pc = Loop(active \ Done)] /\ UNCHANGED child
    <3>1. fan'.status = "none" /\ fan' \in [pc : {"fill", "save"}, cancelled : BOOLEAN, status : FanStatus \cup {"none"}]
      BY <1>1, <1>2, <2>1, <2>3 DEF Loop
    <3>2. ClosedComplete' BY <3>1 DEF ClosedComplete
    <3>3. active \ Done \in SUBSET active OBVIOUS
    <3>4. Cardinality(active \ Done) \in Nat /\ Cardinality(active \ Done) <= Cardinality(active)
      BY <1>1, <3>3, FS_Subset, FS_CardinalityType
    <3>5. active' \subseteq Owned /\ Cardinality(active') <= Concurrency BY <1>1, <2>3, <3>4
    <3> QED BY <1>1, <2>1, <2>3, <3>1, <3>2, <3>5, ParentMoves
  <2> QED BY <1>5, <2>2, <2>3 DEF Collect
<1>6. CASE Save
  <2>1. CASE Close(Aggregate) /\ UNCHANGED faults
    <3>1. Aggregate \in FanStatus BY DEF Aggregate, FanStatus
    <3>2. Aggregate = "complete" => \A s \in Owned : reported[s] = "locked" BY CountsAll DEF Aggregate
    <3> QED BY <1>1, <1>6, <2>1, <3>1, <3>2, Closes DEF Save
  <2>2. CASE faults < MaxFaults /\ faults' = faults + 1 /\ Close("raised")
    BY <1>1, <1>6, <2>2, Closes DEF Save, FanStatus
  <2> QED BY <1>6, <2>1, <2>2 DEF Save
<1>7. ASSUME NEW s \in Owned, Start(s) PROVE FanoutInv'
  <2>1. active' = active \cup {s} /\ Cardinality(active) < Concurrency /\ s \in Shot /\ child[s].pc = "none"
    BY <1>7 DEF Start, Waiting, Shot
  <2>2. IsFiniteSet(active) /\ Cardinality(active) \in Nat BY <1>1, FS_CardinalityType
  <2>3. /\ IsFiniteSet(active \cup {s}) /\ Cardinality(active \cup {s}) \in Nat
        /\ Cardinality(active \cup {s}) <= Cardinality(active) + 1
    <3>1. /\ IsFiniteSet(active \cup {s})
          /\ Cardinality(active \cup {s}) = Cardinality(active) \/ Cardinality(active \cup {s}) = Cardinality(active) + 1
      BY <2>2, FS_AddElement, Zenon
    <3> QED BY <2>2, <3>1, FS_CardinalityType
  <2>4. active' \subseteq Owned /\ Cardinality(active') <= Concurrency BY <1>1, <2>1, <2>2, <2>3
  <2> QED BY <1>1, <1>7, <2>1, <2>4, Started DEF Start
<1>8. CASE CancelFanout
  <2>1. /\ fan'.status = "none" /\ signals' \in 0..MaxSignals
        /\ fan' \in [pc : {"resolve", "fill", "wait", "save", "closed"}, cancelled : BOOLEAN, status : FanStatus \cup {"none"}]
    <3>1. fan.pc # "closed" /\ fan' = [fan EXCEPT !.cancelled = TRUE] BY <1>8 DEF CancelFanout
    <3>2. signals < MaxSignals /\ signals' = signals + 1 BY <1>8 DEF CancelFanout
    <3>3. signals' \in 0..MaxSignals BY <1>1, <3>2
    <3>4. fan.status = "none" BY <1>2, <3>1
    <3> QED BY <1>1, <3>1, <3>3, <3>4
  <2>2. ClosedComplete' BY <2>1 DEF ClosedComplete
  <2>3. /\ child' \in [Shot -> Child]
        /\ \A q \in Shot : child'[q].pc = child[q].pc /\ child'[q].end = child[q].end
    BY <1>8, Asks DEF CancelFanout
  <2> QED BY <1>1, <1>8, <2>1, <2>2, <2>3, ParentMoves DEF CancelFanout
<1>9. CASE ParentCancelled
  <2>1. signals' \in 0..MaxSignals BY <1>1, <1>9 DEF ParentCancelled
  <2> QED BY <1>1, <1>9, <2>1, Closes DEF ParentCancelled, FanStatus
<1>10. CASE ChangeSettings
  <2>1. faults' \in 0..MaxFaults /\ changed' \in BOOLEAN BY <1>1, <1>10 DEF ChangeSettings
  <2>2. ClosedComplete' BY <1>10 DEF ChangeSettings, fanVars, FanoutInv, ClosedComplete
  <2> QED BY <1>1, <1>10, <2>1, <2>2, ParentMoves DEF ChangeSettings, fanVars
<1> QED BY <1>3, <1>4, <1>5, <1>6, <1>7, <1>8, <1>9, <1>10 DEF Fanout

LEMMA FanoutStep ==
  ASSUME FanoutInv, FanoutNext
  PROVE  FanoutInv'
<1>1. ASSUME NEW s \in Shot, StartReplacement(s) PROVE FanoutInv'
  <2>1. signals' \in 0..MaxSignals /\ active' \subseteq Owned /\ Cardinality(active') <= Concurrency
    BY <1>1, FanoutAssumption DEF StartReplacement, fanVars, FanoutInv, FanoutType
  <2> QED BY <1>1, <2>1, Started DEF StartReplacement, fanVars
<1> QED BY <1>1, StageStep, SignalStep, ParentStep DEF FanoutNext, Owner

-----------------------------------------------------------------------------
(* The executions and their rows. *)

\* Every execution but the last is over, and one that is over says how it ended.
OneOpen ==
  \A i \in 1..Len(exec) :
    /\ i < Len(exec) => exec[i].pc = "closed"
    /\ exec[i].said # "working" => exec[i].pc = "closed"
    /\ exec[i].said = "completed" => exec[i].passed
    /\ exec[i].passed => exec[i].pc = "closed"
    /\ exec[i].pc = "closed" <=> exec[i].end # "running"

\* The rows name executions there have been.
RowsName ==
  /\ \A i \in 1..Len(runs) : runs[i].id <= Len(exec)
  /\ row.id <= Len(exec) /\ (row.status # "none" => Len(exec) > 0)
  /\ \A c \in Command : /\ cmd[c].exec <= Len(exec)
                        /\ cmd[c].status \in {"running", "awaiting_review", "completed"} => cmd[c].exec > 0
  /\ pending # Nothing => Len(exec) > 0

\* What a reconciliation was told stays true until it writes it down.
AnswerStands ==
  rec # Nothing => /\ rec.id <= Len(exec) /\ Len(exec) > 0
                   /\ rec.id # 0 => exec[rec.id].pc = "closed"

Pending == [by : Origin, entry : StageName, adopted : BOOLEAN, moved : BOOLEAN]

Answer == [by : Command \cup {"get"}, id : Nat, end : {"completed", "failed", "cancelled"}]

CommandRow == [status : {"none", "pending", "running", "awaiting_review", "completed", "failed",
                         "cancelled"},
               exec : 0..MaxExec]

RowType ==
  /\ runs \in Seq(Run)
  /\ row \in [status : {"none", "running", "completed", "failed", "cancelled"}, id : 0..MaxExec]
  /\ cmd \in [Command -> CommandRow]
  /\ pending \in Pending \cup {Nothing}
  /\ rec \in Answer \cup {Nothing}

GenerationInv ==
  /\ GenerationType /\ RowType /\ OneOpen /\ RowsName /\ AnswerStands
  /\ SettledRunIsOver /\ CompletedPassedQA

LEMMA StageNames ==
  /\ StageName = {"script_generation", "narration", "continuity_references", "shot_generation",
                  "render", "final_editorial_qa"}
  /\ StageName # {}
<1>1. Len(Order) = 6 BY DEF Order
<1>2. 1..Len(Order) = {1, 2, 3, 4, 5, 6} BY <1>1
<1> QED BY <1>2 DEF StageName, Order

LEMMA GenerationStarts == GenerationInit => GenerationInv
<1> SUFFICES ASSUME GenerationInit PROVE GenerationInv OBVIOUS
<1>1. exec \in Seq(Exec) /\ Len(exec) = 0 /\ runs \in Seq(Run) /\ Len(runs) = 0 /\ DOMAIN runs = {}
  BY DEF GenerationInit
<1>2. MaxExec \in Nat BY GenerationAssumption
<1>3. RowType BY <1>1, <1>2 DEF GenerationInit, RowType, CommandRow
<1>4. GenerationType BY <1>1, <1>2 DEF GenerationInit, GenerationType, ActiveRuns
<1>5. OneOpen /\ SettledRunIsOver BY <1>1 DEF OneOpen, SettledRunIsOver
<1>6. RowsName BY <1>1, <1>2 DEF GenerationInit, RowsName
<1>7. AnswerStands /\ CompletedPassedQA BY DEF GenerationInit, AnswerStands, CompletedPassedQA
<1> QED BY <1>3, <1>4, <1>5, <1>6, <1>7 DEF GenerationInv

\* What an execution may become: nothing moves in one that is over.
Grows ==
  /\ exec' \in Seq(Exec) /\ Len(exec') <= MaxExec /\ Len(exec) <= Len(exec') /\ OneOpen'
  /\ \A i \in 1..Len(exec) : exec[i].pc = "closed" => exec'[i] = exec[i]

LEMMA Lengths ==
  ASSUME GenerationInv
  PROVE  /\ exec \in Seq(Exec) /\ Len(exec) \in Nat /\ DOMAIN exec = 1..Len(exec)
         /\ \A i \in 1..Len(exec) : exec[i] \in Exec
         /\ runs \in Seq(Run) /\ Len(runs) \in Nat /\ DOMAIN runs = 1..Len(runs)
         /\ \A i \in 1..Len(runs) : runs[i] \in Run
         /\ IsOpen => Len(exec) \in 1..Len(exec) /\ Latest \in Exec /\ Latest.pc # "closed" /\ Latest.end = "running"
         /\ ~IsOpen => \A i \in 1..Len(exec) : exec[i].pc = "closed"
<1>1. exec \in Seq(Exec) /\ runs \in Seq(Run) BY DEF GenerationInv, GenerationType, RowType
<1>2. /\ Len(exec) \in Nat /\ DOMAIN exec = 1..Len(exec) /\ \A i \in 1..Len(exec) : exec[i] \in Exec
      /\ Len(runs) \in Nat /\ DOMAIN runs = 1..Len(runs) /\ \A i \in 1..Len(runs) : runs[i] \in Run
  BY <1>1, LenProperties, ElementOfSeq
<1>3. exec # <<>> => Len(exec) > 0 BY <1>1, <1>2, EmptySeq
<1>4. exec = <<>> => Len(exec) = 0 OBVIOUS
<1> QED BY <1>1, <1>2, <1>3, <1>4 DEF IsOpen, Latest, GenerationInv, OneOpen

LEMMA LatestBecomes ==
  ASSUME GenerationInv, IsOpen, NEW e \in Exec, Set(e),
         e.said # "working" => e.pc = "closed", e.said = "completed" => e.passed,
         e.passed => e.pc = "closed", e.pc = "closed" <=> e.end # "running"
  PROVE  Grows /\ Len(exec') = Len(exec)
<1>1. Len(exec) \in 1..Len(exec) /\ exec \in Seq(Exec) /\ Len(exec) \in Nat /\ exec[Len(exec)].pc # "closed"
  BY Lengths DEF Latest
<1>2. /\ exec' \in Seq(Exec) /\ Len(exec') = Len(exec)
      /\ \A j \in 1..Len(exec) : exec'[j] = IF j = Len(exec) THEN e ELSE exec[j]
  BY <1>1, ExceptSeq DEF Set
<1>3. OneOpen' BY <1>1, <1>2 DEF OneOpen, GenerationInv
<1>4. Len(exec') <= MaxExec BY <1>2 DEF GenerationInv, GenerationType
<1> QED BY <1>1, <1>2, <1>3, <1>4 DEF Grows

LEMMA Stays ==
  ASSUME GenerationInv, exec' = exec
  PROVE  Grows /\ Len(exec') = Len(exec)
BY Lengths DEF Grows, GenerationInv, GenerationType, OneOpen

\* No run is opened: the runs there are keep their execution, and one is settled only
\* when its execution is over.
Settles ==
  /\ runs' \in Seq(Run) /\ Len(runs') = Len(runs)
  /\ \A i \in 1..Len(runs) :
       /\ runs'[i].id = runs[i].id /\ runs'[i].exec = runs[i].exec
       /\ Live(runs'[i].status) => Live(runs[i].status)
       /\ runs'[i].status \in {"completed", "failed"} =>
            runs[i].status = runs'[i].status \/ runs[i].id = 0 \/ exec[runs[i].id].pc = "closed"

CommandsMove ==
  /\ cmd' \in [Command -> CommandRow]
  /\ \A c \in Command :
       /\ cmd'[c].exec = cmd[c].exec
       /\ cmd'[c].status \in {"running", "awaiting_review", "completed"} => cmd[c].exec > 0
       /\ cmd'[c].status = "completed" =>
            cmd[c].status = "completed" \/ \E e \in cmd[c].exec..Len(exec) : exec[e].passed

RowMoves ==
  /\ row' \in [status : {"none", "running", "completed", "failed", "cancelled"}, id : 0..MaxExec]
  /\ row'.id = row.id /\ (row'.status # "none" => Len(exec) > 0)

AnswerMoves ==
  \/ rec' = rec \/ rec' = Nothing
  \/ rec' \in Answer /\ rec'.id = row.id /\ ~IsOpen /\ Len(exec) > 0

LEMMA GenerationMoves ==
  ASSUME GenerationInv, Grows, Settles, CommandsMove, RowMoves, AnswerMoves,
         pending' \in Pending \cup {Nothing}, pending' # Nothing => Len(exec') > 0
  PROVE  GenerationInv'
<1> USE DEF GenerationInv
<1>1. /\ exec' \in Seq(Exec) /\ Len(exec') \in Nat /\ Len(exec) \in Nat /\ Len(exec) <= Len(exec')
      /\ runs' \in Seq(Run) /\ Len(runs') = Len(runs) /\ Len(runs) \in Nat /\ DOMAIN runs = 1..Len(runs)
      /\ DOMAIN runs' = 1..Len(runs) /\ \A i \in 1..Len(runs) : runs'[i] \in Run /\ runs[i] \in Run
  <2>1. Len(exec') \in Nat BY LenProperties DEF Grows
  <2>2. DOMAIN runs' = 1..Len(runs') /\ \A i \in 1..Len(runs') : runs'[i] \in Run
    BY LenProperties, ElementOfSeq DEF Settles
  <2> QED BY <2>1, <2>2, Lengths DEF Grows, Settles
<1>2. RowType'
  <2>1. rec' \in Answer \cup {Nothing} BY DEF AnswerMoves, RowType
  <2> QED BY <2>1 DEF RowType, Settles, CommandsMove, RowMoves
<1>3. GenerationType'
  <2>1. \A i, j \in ActiveRuns' : i = j BY <1>1 DEF GenerationType, ActiveRuns, Settles
  <2>2. \A i \in DOMAIN runs' : runs'[i] \in Run /\ runs'[i].id \in {0, runs'[i].exec}
    BY <1>1 DEF GenerationType, Settles
  <2>3. \A c \in Command : cmd'[c] \in CommandRow BY DEF CommandsMove
  <2>4. exec' \in Seq(Exec) /\ Len(exec') <= MaxExec BY DEF Grows
  <2>5. row'.status \in {"none", "running", "completed", "failed", "cancelled"} /\ row'.id \in 0..MaxExec
    BY DEF RowMoves
  <2> QED BY <2>1, <2>2, <2>3, <2>4, <2>5 DEF GenerationType, CommandRow
<1>4. RowsName'
  <2>1. \A i \in 1..Len(runs') : runs'[i].id <= Len(exec')
    <3> SUFFICES ASSUME NEW i \in 1..Len(runs) PROVE runs'[i].id <= Len(exec') BY <1>1
    <3>1. runs'[i].id = runs[i].id /\ runs[i].id <= Len(exec) /\ runs[i].id \in Nat
      BY <1>1 DEF Settles, RowsName, Run
    <3> QED BY <1>1, <3>1
  <2>2. row'.id <= Len(exec') /\ (row'.status # "none" => Len(exec') > 0)
    <3>1. row'.id \in 0..MaxExec /\ row'.id = row.id /\ row.id <= Len(exec) BY DEF RowMoves, RowsName
    <3>2. MaxExec \in Nat BY GenerationAssumption
    <3> QED BY <1>1, <3>1, <3>2 DEF RowMoves
  <2>3. ASSUME NEW c \in Command
        PROVE  /\ cmd'[c].exec <= Len(exec')
               /\ cmd'[c].status \in {"running", "awaiting_review", "completed"} => cmd'[c].exec > 0
    <3>1. cmd'[c].exec = cmd[c].exec /\ cmd[c].exec <= Len(exec) /\ cmd'[c] \in CommandRow
      BY DEF CommandsMove, RowsName
    <3>2. cmd'[c].exec \in Nat BY <3>1, GenerationAssumption DEF CommandRow
    <3> QED BY <1>1, <3>1, <3>2 DEF CommandsMove
  <2> QED BY <2>1, <2>2, <2>3 DEF RowsName
<1>5. AnswerStands'
  <2>1. CASE rec' = rec \/ rec' = Nothing
    <3> SUFFICES ASSUME rec' = rec, rec # Nothing
                 PROVE  /\ rec'.id <= Len(exec') /\ Len(exec') > 0
                        /\ rec'.id # 0 => exec'[rec'.id].pc = "closed"
      BY <2>1 DEF AnswerStands
    <3>1. rec.id \in Nat /\ rec.id <= Len(exec) BY DEF RowType, Answer, AnswerStands
    <3> QED BY <1>1, <3>1 DEF AnswerStands, Grows
  <2>2. CASE rec' \in Answer /\ rec'.id = row.id /\ ~IsOpen /\ Len(exec) > 0
    <3>1. rec'.id \in Nat /\ rec'.id <= Len(exec) /\ Len(exec) > 0 BY <2>2 DEF Answer, RowsName
    <3>2. \A i \in 1..Len(exec) : exec[i].pc = "closed" BY <2>2, Lengths
    <3> QED BY <1>1, <3>1, <3>2 DEF AnswerStands, Grows
  <2> QED BY <2>1, <2>2 DEF AnswerMoves
<1>6. SettledRunIsOver'
  <2> SUFFICES ASSUME NEW i \in 1..Len(runs), runs'[i].status \in {"completed", "failed"}, runs'[i].id # 0
               PROVE  exec'[runs'[i].id].pc = "closed"
    BY <1>1 DEF SettledRunIsOver
  <2>1. runs'[i].id = runs[i].id /\ runs[i].id \in 1..Len(exec)
    BY <1>1 DEF Settles, RowsName, Run
  <2>2. exec[runs[i].id].pc = "closed" BY <1>1, <2>1 DEF Settles, SettledRunIsOver
  <2> QED BY <2>1, <2>2 DEF Grows
<1>7. CompletedPassedQA'
  <2> SUFFICES ASSUME NEW c \in Command, cmd'[c].status = "completed"
               PROVE  \E e \in cmd'[c].exec..Len(exec') : exec'[e].passed
    BY DEF CompletedPassedQA
  <2>1. cmd'[c].exec = cmd[c].exec /\ cmd[c].exec \in Nat
    BY GenerationAssumption DEF CommandsMove, RowType, CommandRow
  <2>2. PICK e \in cmd[c].exec..Len(exec) : exec[e].passed
    BY DEF CommandsMove, CompletedPassedQA
  <2>3. cmd[c].exec > 0 BY DEF CommandsMove
  <2>4. e \in 1..Len(exec) /\ exec[e].pc = "closed" BY <1>1, <2>1, <2>2, <2>3 DEF OneOpen
  <2> QED BY <1>1, <2>1, <2>2, <2>4 DEF Grows
<1>8. OneOpen' BY DEF Grows
<1> HIDE DEF GenerationInv
<1> QED BY <1>2, <1>3, <1>4, <1>5, <1>6, <1>7, <1>8 DEF GenerationInv

\* Runs of one set take a status that does not make them live.
LEMMA RunsTake ==
  ASSUME GenerationInv, NEW S, S \subseteq ActiveRuns,
         NEW status \in {"awaiting_review", "completed", "failed", "cancelled"},
         runs' = [i \in DOMAIN runs |-> IF i \in S THEN [runs[i] EXCEPT !.status = status] ELSE runs[i]],
         status \in {"completed", "failed"} =>
           \A i \in S : runs[i].id = 0 \/ exec[runs[i].id].pc = "closed"
  PROVE  Settles
<1>1. runs \in Seq(Run) /\ DOMAIN runs = 1..Len(runs) /\ \A i \in 1..Len(runs) : runs[i] \in Run
  BY Lengths
<1>2. ASSUME NEW i \in 1..Len(runs)
      PROVE  /\ [runs[i] EXCEPT !.status = status] \in Run
             /\ [runs[i] EXCEPT !.status = status].id = runs[i].id
             /\ [runs[i] EXCEPT !.status = status].exec = runs[i].exec
             /\ [runs[i] EXCEPT !.status = status].status = status
  <2>1. runs[i] \in Run BY <1>1
  <2> QED BY <2>1 DEF Run
<1>3. runs' \in [1..Len(runs) -> Run] /\ DOMAIN runs' = 1..Len(runs)
  BY <1>1, <1>2
<1>4. \A i \in 1..Len(runs) :
        \/ i \in S /\ runs'[i] = [runs[i] EXCEPT !.status = status]
        \/ runs'[i] = runs[i]
  BY <1>1
<1>5. Len(runs) \in Nat BY Lengths
<1>6. runs' \in Seq(Run) BY <1>3, <1>5, SeqDef
<1>7. Len(runs') = Len(runs) BY <1>3, <1>5, <1>6, LenProperties
<1>8. \A i \in S : Live(runs[i].status) BY DEF ActiveRuns
<1> QED BY <1>2, <1>4, <1>6, <1>7, <1>8 DEF Settles

LEMMA RunsStay ==
  ASSUME GenerationInv, UNCHANGED runs
  PROVE  Settles
BY Lengths DEF Settles

LEMMA CommandsStay ==
  ASSUME GenerationInv, UNCHANGED cmd
  PROVE  CommandsMove
BY GenerationAssumption DEF CommandsMove, GenerationInv, RowType, RowsName, CompletedPassedQA

LEMMA RowStays ==
  ASSUME GenerationInv, UNCHANGED row
  PROVE  RowMoves
BY DEF RowMoves, GenerationInv, RowType, RowsName

LEMMA PendingStays ==
  ASSUME GenerationInv, UNCHANGED pending, Grows
  PROVE  pending' \in Pending \cup {Nothing} /\ (pending' # Nothing => Len(exec') > 0)
<1>1. Len(exec') \in Nat /\ Len(exec) \in Nat BY Lengths, LenProperties DEF Grows
<1> QED BY <1>1 DEF GenerationInv, RowType, RowsName, Grows

\* The steps of the workflow itself: the latest execution moves, and no row.
LEMMA WorkflowStep ==
  ASSUME GenerationInv, Workflow
  PROVE  GenerationInv'
<1>1. IsOpen /\ UNCHANGED <<runs, row, cmd, pending, rec>>
  BY DEF Workflow, EarlyStage, ContinuityInputs, BuildReferences, ReferenceWait, ShotsDone, RenderStage, FinalQA,
     StageRaises
<1>2. /\ Latest \in Exec /\ Latest.pc # "closed" /\ Latest.end = "running" /\ Latest.said = "working"
      /\ Latest.passed = FALSE
  <2>1. Len(exec) \in 1..Len(exec) BY <1>1, Lengths
  <2>2. Latest \in Exec /\ Latest.pc # "closed" /\ Latest.end = "running" BY <1>1, Lengths
  <2> QED BY <2>1, <2>2 DEF GenerationInv, OneOpen, Latest, Exec
<1>3. ASSUME NEW stage \in StageName \cup {"continuity_inputs"}, Goto(stage) PROVE Grows
  <2>1. PICK e : e = [Latest EXCEPT !.pc = stage, !.told = FALSE] OBVIOUS
  <2>2. e \in Exec /\ e.pc = stage /\ e.said = "working" /\ e.end = "running" /\ e.passed = FALSE
    BY <1>2, <2>1 DEF Exec
  <2>3. Set(e) BY <1>3, <2>1 DEF Goto
  <2>4. stage # "closed" BY StageNames
  <2> QED BY <1>1, <2>2, <2>3, <2>4, LatestBecomes
<1>4. ASSUME NEW said \in {"working", "stopped", "cancelled"}, NEW waiting \in BOOLEAN, Return(said, waiting)
      PROVE  Grows
  <2>1. PICK f : f = [Latest EXCEPT !.said = said, !.waiting = @ \/ waiting] OBVIOUS
  <2>2. f \in Exec /\ f.said = said /\ f.passed = FALSE BY <1>2, <2>1 DEF Exec
  <2>3. PICK e : e = Closed(f, "completed") OBVIOUS
  <2>4. e \in Exec /\ e.pc = "closed" /\ e.said = said /\ e.end = "completed" /\ e.passed = FALSE
    BY <2>2, <2>3 DEF Closed, Exec
  <2>5. Set(e) BY <1>4, <2>1, <2>3 DEF Return
  <2> QED BY <1>1, <2>4, <2>5, LatestBecomes
<1>5. ASSUME NEW end \in {"failed", "cancelled"}, Die(end) PROVE Grows
  <2>1. PICK e : e = Closed(Latest, end) OBVIOUS
  <2>2. e \in Exec /\ e.pc = "closed" /\ e.said = "working" /\ e.end = end /\ e.passed = FALSE
    BY <1>2, <2>1 DEF Closed, Exec
  <2> QED BY <1>1, <1>5, <2>1, <2>2, LatestBecomes DEF Die
<1>6. ASSUME NEW status \in {"bound", "failed", "cancelled"}, Referenced(status) PROVE Grows
  BY <1>3, <1>4, <1>6, StageNames DEF Referenced
<1>7. Grows
  <2>1. CASE EarlyStage BY <1>3, <1>4, <2>1, StageNames DEF EarlyStage
  <2>2. CASE ContinuityInputs
    <3>1. \A c \in StageName \cup {"continuity_inputs"} : Goto(c) => Grows BY <1>3
    <3> QED BY <2>2, <3>1, StageNames DEF ContinuityInputs
  <2>3. CASE BuildReferences
    <3>1. CASE Set([Latest EXCEPT !.pc = "approval", !.waiting = TRUE])
      <4>1. PICK e : e = [Latest EXCEPT !.pc = "approval", !.waiting = TRUE] OBVIOUS
      <4>2. e \in Exec /\ e.pc = "approval" /\ e.said = "working" /\ e.end = "running" /\ e.passed = FALSE
        BY <1>2, <4>1 DEF Exec
      <4> QED BY <1>1, <3>1, <4>1, <4>2, LatestBecomes
    <3> QED BY <1>6, <2>3, <3>1 DEF BuildReferences
  <2>4. CASE ReferenceWait BY <1>6, <2>4 DEF ReferenceWait
  <2>5. CASE ShotsDone BY <1>3, <1>4, <2>5, StageNames DEF ShotsDone
  <2>6. CASE RenderStage BY <1>3, <1>4, <2>6, StageNames DEF RenderStage
  <2>7. CASE FinalQA
    <3>1. PICK decision \in {"pass", "review", "fail"} :
            Set(Closed([Latest EXCEPT !.passed = (decision = "pass"), !.said = Verdict(decision).said,
                                      !.waiting = @ \/ Verdict(decision).waiting], "completed"))
      BY <2>7 DEF FinalQA
    <3>2. /\ Verdict(decision).said \in {"completed", "working", "stopped"}
          /\ Verdict(decision).said = "completed" => decision = "pass"
          /\ Verdict(decision).waiting \in BOOLEAN
      BY DEF Verdict
    <3>3. PICK said, waiting : said = Verdict(decision).said /\ waiting = Verdict(decision).waiting OBVIOUS
    <3>4. PICK f : f = [Latest EXCEPT !.passed = (decision = "pass"), !.said = said, !.waiting = @ \/ waiting]
      OBVIOUS
    <3>5. f \in Exec /\ f.said = said /\ (said = "completed" => f.passed)
      <4>1. Latest \in Exec /\ (decision = "pass") \in BOOLEAN /\ (Latest.waiting \/ waiting) \in BOOLEAN
        BY <1>2, <3>3, <3>2 DEF Exec
      <4>2. f \in Exec /\ f.said = said /\ f.passed = (decision = "pass")
        <5>1. PICK p, q : p = (decision = "pass") /\ q = (Latest.waiting \/ waiting) OBVIOUS
        <5>2. f = [Latest EXCEPT !.passed = p, !.said = said, !.waiting = q] BY <3>4, <5>1
        <5>3. p \in BOOLEAN /\ q \in BOOLEAN BY <4>1, <5>1
        <5>4. f \in Exec /\ f.said = said /\ f.passed = p BY <3>2, <3>3, <4>1, <5>2, <5>3 DEF Exec
        <5> QED BY <5>1, <5>4
      <4> QED BY <3>2, <3>3, <4>2
    <3>6. PICK e : e = Closed(f, "completed") OBVIOUS
    <3>7. e \in Exec /\ e.pc = "closed" /\ e.said = said /\ e.end = "completed" /\ (said = "completed" => e.passed)
      BY <3>5, <3>6 DEF Closed, Exec
    <3>8. Set(e) BY <3>1, <3>3, <3>4, <3>6
    <3> QED BY <1>1, <3>7, <3>8, LatestBecomes
  <2>8. CASE StageRaises BY <1>5, <2>8 DEF StageRaises
  <2> QED BY <2>1, <2>2, <2>3, <2>4, <2>5, <2>6, <2>7, <2>8 DEF Workflow
<1> QED BY <1>1, <1>7, RunsStay, CommandsStay, RowStays, PendingStays, GenerationMoves DEF AnswerMoves

\* A command becomes of another status, and keeps the execution it recorded.
LEMMA CommandTakes ==
  ASSUME GenerationInv, NEW c \in Command,
         NEW status \in {"pending", "awaiting_review", "completed", "failed", "cancelled"},
         cmd' = [cmd EXCEPT ![c].status = status],
         status \in {"awaiting_review", "completed"} => cmd[c].exec > 0,
         status = "completed" => \E e \in cmd[c].exec..Len(exec) : exec[e].passed
  PROVE  CommandsMove
<1>1. cmd \in [Command -> CommandRow] BY DEF GenerationInv, RowType
<1>2. cmd[c] \in CommandRow BY <1>1
<1>3. PICK d : d = [cmd[c] EXCEPT !.status = status] OBVIOUS
<1>4. d \in CommandRow /\ d.status = status /\ d.exec = cmd[c].exec BY <1>2, <1>3 DEF CommandRow
<1>5. cmd' \in [Command -> CommandRow] /\ cmd'[c] = d /\ \A b \in Command \ {c} : cmd'[b] = cmd[b]
  BY <1>1, <1>3, <1>4
<1> QED BY <1>4, <1>5 DEF CommandsMove, GenerationInv, RowsName, CompletedPassedQA

\* A start or a dispatch, up to the answer of the cluster.
LEMMA BeginStep ==
  ASSUME GenerationInv, NEW origin \in Origin, NEW entry \in StageName, Begin(origin, entry)
  PROVE  GenerationInv'
<1>1. pending' \in Pending
  <2>1. PICK moved \in BOOLEAN :
          pending' = [by |-> origin, entry |-> entry, adopted |-> IsOpen, moved |-> moved]
    BY DEF Begin
  <2>2. IsOpen \in BOOLEAN BY DEF IsOpen
  <2> QED BY <2>1, <2>2 DEF Pending
<1>2. Grows /\ Len(exec') > 0
  <2>1. CASE IsOpen
    <3>1. exec' = exec BY <2>1 DEF Begin, StartProject
    <3>2. Len(exec) > 0 BY <2>1, Lengths
    <3> QED BY <3>1, <3>2, Stays
  <2>2. CASE ~IsOpen
    <3>1. PICK e : e = [by |-> origin, entry |-> entry, stop |-> FALSE, told |-> FALSE,
                        pc |-> IF Index(entry) <= 2 THEN entry ELSE "continuity_inputs",
                        asked |-> FALSE, waiting |-> FALSE, said |-> "working",
                        end |-> "running", passed |-> FALSE]
      OBVIOUS
    <3>2. exec' = Append(exec, e) /\ Len(exec) < MaxExec BY <2>2, <3>1 DEF Begin, StartProject
    <3>3. e \in Exec /\ e.pc \in StageName \cup {"continuity_inputs"} /\ e.said = "working"
          /\ e.end = "running" /\ e.passed = FALSE
      BY <3>1 DEF Exec
    <3>4. exec \in Seq(Exec) /\ Len(exec) \in Nat /\ \A i \in 1..Len(exec) : exec[i].pc = "closed"
      BY <2>2, Lengths
    <3>5. /\ exec' \in Seq(Exec) /\ Len(exec') = Len(exec) + 1
          /\ \A i \in 1..Len(exec) : exec'[i] = exec[i]
          /\ exec'[Len(exec) + 1] = e
      BY <3>2, <3>3, <3>4, AppendProperties
    <3>6. e.pc # "closed" BY <3>3, StageNames
    <3>7. OneOpen'
      <4> SUFFICES ASSUME NEW i \in 1..Len(exec')
                   PROVE  /\ i < Len(exec') => exec'[i].pc = "closed"
                          /\ exec'[i].said # "working" => exec'[i].pc = "closed"
                          /\ exec'[i].said = "completed" => exec'[i].passed
                          /\ exec'[i].passed => exec'[i].pc = "closed"
                          /\ exec'[i].pc = "closed" <=> exec'[i].end # "running"
        BY DEF OneOpen
      <4>1. CASE i = Len(exec) + 1 BY <3>3, <3>4, <3>5, <3>6, <4>1
      <4>2. CASE i # Len(exec) + 1
        <5>1. i \in 1..Len(exec) BY <3>4, <3>5, <4>2
        <5> QED BY <3>4, <3>5, <5>1 DEF GenerationInv, OneOpen
      <4> QED BY <4>1, <4>2
    <3>8. MaxExec \in Nat BY GenerationAssumption
    <3> QED BY <3>2, <3>4, <3>5, <3>7, <3>8 DEF Grows
  <2> QED BY <2>1, <2>2
<1>3. UNCHANGED <<runs, row, cmd, rec>> BY DEF Begin
<1> QED BY <1>1, <1>2, <1>3, RunsStay, CommandsStay, RowStays, GenerationMoves DEF AnswerMoves

\* bind_workflow, of the run that was opened.
BindsRun(o, id, n) == [o.runs EXCEPT ![o.at].id = id, ![o.at].bound = TRUE, ![o.at].exec = n]

RunOpened(o, R, id, n) ==
  /\ R \in Seq(Run)
  /\ \A i \in 1..Len(R) :
       \/ R[i].id = id /\ R[i].exec = n /\ Live(R[i].status) /\ i = o.at
       \/ /\ i \in 1..Len(runs) /\ ~Live(R[i].status)
          /\ R[i].id = runs[i].id /\ R[i].exec = runs[i].exec
          /\ R[i].status \in {"completed", "failed"} => R[i].status = runs[i].status

\* What a continuation opens, or adopts, is the one live run afterwards.
LEMMA OpensRun ==
  ASSUME GenerationInv, NEW origin \in Origin, NEW entry \in StageName, NEW moved \in BOOLEAN,
         NEW n \in Nat, NEW id \in {0, n}, NEW o, o = Opened(origin, entry, moved),
         NEW R, R = BindsRun(o, id, n)
  PROVE  RunOpened(o, R, id, n)
<1>1. runs \in Seq(Run) /\ DOMAIN runs = 1..Len(runs) /\ Len(runs) \in Nat
      /\ \A i \in 1..Len(runs) : runs[i] \in Run
  BY Lengths
<1>2. \A i, j \in ActiveRuns : i = j BY DEF GenerationInv, GenerationType
<1>3. ASSUME NEW r \in Run
      PROVE  /\ [[[r EXCEPT !.id = id] EXCEPT !.bound = TRUE] EXCEPT !.exec = n] \in Run
             /\ [[[r EXCEPT !.id = id] EXCEPT !.bound = TRUE] EXCEPT !.exec = n].id = id
             /\ [[[r EXCEPT !.id = id] EXCEPT !.bound = TRUE] EXCEPT !.exec = n].exec = n
             /\ [[[r EXCEPT !.id = id] EXCEPT !.bound = TRUE] EXCEPT !.exec = n].status = r.status
  <2>1. PICK u : u = [r EXCEPT !.id = id] OBVIOUS
  <2>2. u \in Run /\ u.id = id /\ u.status = r.status BY <2>1 DEF Run
  <2>3. PICK v : v = [u EXCEPT !.bound = TRUE] OBVIOUS
  <2>4. v \in Run /\ v.id = id /\ v.status = r.status BY <2>2, <2>3 DEF Run
  <2>5. PICK w : w = [v EXCEPT !.exec = n] OBVIOUS
  <2>6. w \in Run /\ w.id = id /\ w.exec = n /\ w.status = r.status BY <2>4, <2>5 DEF Run
  <2> QED BY <2>1, <2>3, <2>5, <2>6
<1>4. ASSUME NEW T \in Seq(Run), NEW a \in 1..Len(T),
             R = [T EXCEPT ![a].id = id, ![a].bound = TRUE, ![a].exec = n]
      PROVE  /\ R \in Seq(Run) /\ Len(R) = Len(T)
             /\ R[a].id = id /\ R[a].exec = n /\ R[a].status = T[a].status
             /\ \A i \in 1..Len(T) \ {a} : R[i] = T[i]
  <2>1. T[a] \in Run BY ElementOfSeq
  <2>2. PICK r : r = [[[T[a] EXCEPT !.id = id] EXCEPT !.bound = TRUE] EXCEPT !.exec = n] OBVIOUS
  <2>3. r \in Run /\ r.id = id /\ r.exec = n /\ r.status = T[a].status BY <1>3, <2>1, <2>2
  <2>4. DOMAIN T = 1..Len(T) /\ T \in [1..Len(T) -> Run] BY LenProperties
  <2>5. R = [T EXCEPT ![a] = r] BY <1>4, <2>2, <2>4
  <2>6. /\ [T EXCEPT ![a] = r] \in Seq(Run) /\ Len([T EXCEPT ![a] = r]) = Len(T)
        /\ \A j \in 1..Len(T) : [T EXCEPT ![a] = r][j] = IF j = a THEN r ELSE T[j]
    BY <2>3, ExceptSeq
  <2> QED BY <2>3, <2>5, <2>6
<1>5. PICK same : same = {i \in ActiveRuns : ~moved /\ runs[i].entry = entry} OBVIOUS
<1>6. CASE same # {}
  <2>1. PICK k : k = CHOOSE i \in same : TRUE OBVIOUS
  <2>2. k \in same /\ o.runs = runs /\ o.at = k
    <3>1. k \in same BY <1>6, <2>1
    <3>2. o = [runs |-> runs, at |-> k] BY <1>5, <1>6, <2>1 DEF Opened
    <3> QED BY <3>1, <3>2
  <2>3. o.at \in ActiveRuns /\ o.at \in 1..Len(runs) /\ Live(runs[o.at].status)
    BY <1>1, <1>5, <2>2 DEF ActiveRuns
  <2>4. /\ R \in Seq(Run) /\ Len(R) = Len(runs)
        /\ R[o.at].id = id /\ R[o.at].exec = n /\ R[o.at].status = runs[o.at].status
        /\ \A i \in 1..Len(runs) \ {o.at} : R[i] = runs[i]
    <3>1. k \in 1..Len(runs) /\ o.at = k BY <2>2, <2>3
    <3>2. R = [runs EXCEPT ![k].id = id, ![k].bound = TRUE, ![k].exec = n] BY <2>2 DEF BindsRun
    <3> QED BY <1>1, <1>4, <3>1, <3>2
  <2>5. \A i \in 1..Len(runs) \ {o.at} : ~Live(runs[i].status) BY <1>1, <1>2, <2>3 DEF ActiveRuns
  <2> QED BY <2>3, <2>4, <2>5 DEF RunOpened
<1>7. CASE same = {}
  <2>1. PICK rest : rest = [i \in DOMAIN runs |->
                 IF i \in ActiveRuns THEN [runs[i] EXCEPT !.status = "superseded"] ELSE runs[i]]
    OBVIOUS
  <2>2. PICK new : new = [origin |-> origin, entry |-> entry, id |-> 0, bound |-> FALSE,
                          exec |-> 0, status |-> "active"]
    OBVIOUS
  <2>3. o = [runs |-> Append(rest, new), at |-> Len(runs) + 1] BY <1>5, <1>7, <2>1, <2>2 DEF Opened
  <2>4. o.runs = Append(rest, new) /\ o.at = Len(runs) + 1 BY <2>3
  <2>5. ASSUME NEW i \in 1..Len(runs)
        PROVE  /\ [runs[i] EXCEPT !.status = "superseded"] \in Run
               /\ [runs[i] EXCEPT !.status = "superseded"].id = runs[i].id
               /\ [runs[i] EXCEPT !.status = "superseded"].exec = runs[i].exec
               /\ [runs[i] EXCEPT !.status = "superseded"].status = "superseded"
    <3>1. runs[i] \in Run BY <1>1
    <3> QED BY <3>1 DEF Run
  <2>6. rest \in [1..Len(runs) -> Run] /\ DOMAIN rest = 1..Len(runs) BY <1>1, <2>1, <2>5
  <2>7. rest \in Seq(Run) /\ Len(rest) = Len(runs)
    <3>1. rest \in Seq(Run) BY <1>1, <2>6, SeqDef
    <3> QED BY <1>1, <2>6, <3>1, LenProperties
  <2>8. \A i \in 1..Len(runs) :
          /\ rest[i].id = runs[i].id /\ rest[i].exec = runs[i].exec /\ ~Live(rest[i].status)
          /\ rest[i].status \in {"completed", "failed"} => rest[i].status = runs[i].status
    BY <1>1, <2>1, <2>5 DEF ActiveRuns, Live
  <2>9. new \in Run /\ new.status = "active" BY <2>2 DEF Run
  <2>10. /\ o.runs \in Seq(Run) /\ Len(o.runs) = Len(runs) + 1
         /\ \A i \in 1..Len(runs) : o.runs[i] = rest[i]
         /\ o.runs[o.at] = new
    BY <2>4, <2>7, <2>9, AppendProperties
  <2>11. o.at \in 1..Len(o.runs) BY <1>1, <2>4, <2>10
  <2>12. /\ R \in Seq(Run) /\ Len(R) = Len(runs) + 1
         /\ R[o.at].id = id /\ R[o.at].exec = n /\ R[o.at].status = "active"
         /\ \A i \in 1..Len(o.runs) \ {o.at} : R[i] = o.runs[i]
    <3>1. PICK T, a : T = o.runs /\ a = o.at OBVIOUS
    <3>2. T \in Seq(Run) /\ a \in 1..Len(T) BY <2>10, <2>11, <3>1
    <3>3. R = [T EXCEPT ![a].id = id, ![a].bound = TRUE, ![a].exec = n] BY <3>1 DEF BindsRun
    <3>4. /\ R \in Seq(Run) /\ Len(R) = Len(T)
          /\ R[a].id = id /\ R[a].exec = n /\ R[a].status = T[a].status
          /\ \A i \in 1..Len(T) \ {a} : R[i] = T[i]
      BY <1>4, <3>2, <3>3
    <3>5. T[a].status = "active" BY <2>9, <2>10, <3>1
    <3> QED BY <2>10, <3>1, <3>4, <3>5
  <2>13. ASSUME NEW i \in 1..Len(R)
         PROVE  \/ R[i].id = id /\ R[i].exec = n /\ Live(R[i].status) /\ i = o.at
                \/ /\ i \in 1..Len(runs) /\ ~Live(R[i].status)
                   /\ R[i].id = runs[i].id /\ R[i].exec = runs[i].exec
                   /\ R[i].status \in {"completed", "failed"} => R[i].status = runs[i].status
    <3>1. CASE i = o.at BY <2>12, <3>1 DEF Live
    <3>2. CASE i # o.at
      <4>1. i \in 1..Len(runs) BY <1>1, <2>4, <2>12, <3>2
      <4>2. R[i] = rest[i] BY <1>1, <2>10, <2>12, <3>2, <4>1
      <4> QED BY <2>8, <4>1, <4>2
    <3> QED BY <3>1, <3>2
  <2> QED BY <2>12, <2>13 DEF RunOpened
<1> QED BY <1>6, <1>7

LEMMA CommitStep ==
  ASSUME GenerationInv, Commit
  PROVE  GenerationInv'
<1> USE DEF GenerationInv
<1>1. pending \in Pending /\ Len(exec) > 0 /\ Len(exec) \in Nat /\ MaxExec \in Nat /\ Len(exec) <= MaxExec
  BY Lengths, GenerationAssumption DEF Commit, RowType, RowsName, GenerationType
<1>2. PICK n : n = Len(exec) OBVIOUS
<1>3. PICK id : id = IF pending.adopted THEN 0 ELSE n OBVIOUS
<1>4. PICK o : o = Opened(pending.by, pending.entry, pending.moved) OBVIOUS
<1>5. /\ runs' = BindsRun(o, id, n)
      /\ row' = [status |-> "running", id |-> IF pending.adopted THEN row.id ELSE id]
  BY <1>2, <1>3, <1>4 DEF Commit, BindsRun
<1>6. id \in {0, n} /\ n \in Nat /\ n > 0 /\ pending.by \in Origin /\ pending.entry \in StageName /\ pending.moved \in BOOLEAN
  BY <1>1, <1>2, <1>3 DEF Pending
<1>7. /\ runs' \in Seq(Run)
      /\ \A i \in 1..Len(runs') :
           \/ runs'[i].id = id /\ runs'[i].exec = n /\ Live(runs'[i].status) /\ i = o.at
           \/ /\ i \in 1..Len(runs) /\ ~Live(runs'[i].status)
              /\ runs'[i].id = runs[i].id /\ runs'[i].exec = runs[i].exec
              /\ runs'[i].status \in {"completed", "failed"} => runs'[i].status = runs[i].status
  <2>1. PICK R : R = runs' OBVIOUS
  <2>2. R = BindsRun(o, id, n) BY <1>5, <2>1
  <2>3. RunOpened(o, R, id, n)
    <3>1. PICK origin, entry, moved : origin = pending.by /\ entry = pending.entry /\ moved = pending.moved
      OBVIOUS
    <3>2. o = Opened(origin, entry, moved) BY <1>4, <3>1
    <3>3. origin \in Origin /\ entry \in StageName /\ moved \in BOOLEAN BY <1>6, <3>1
    <3> HIDE DEF GenerationInv
    <3> QED BY <1>6, <2>2, <3>2, <3>3, OpensRun
  <2> QED BY <2>1, <2>3 DEF RunOpened
<1>8. /\ DOMAIN runs' = 1..Len(runs') /\ Len(runs') \in Nat /\ \A i \in 1..Len(runs') : runs'[i] \in Run
      /\ DOMAIN runs = 1..Len(runs) /\ Len(runs) \in Nat /\ \A i \in 1..Len(runs) : runs[i] \in Run
  BY <1>7, LenProperties, ElementOfSeq, Lengths
<1>9. exec' = exec /\ pending' = Nothing /\ rec' = rec BY DEF Commit
<1>10. row' \in [status : {"none", "running", "completed", "failed", "cancelled"}, id : 0..MaxExec] /\ row'.id <= n
  <2>1. row.id \in 0..MaxExec /\ row.id <= n BY <1>2 DEF RowType, RowsName
  <2>2. id \in 0..MaxExec /\ id <= n BY <1>1, <1>2, <1>6
  <2> QED BY <1>5, <2>1, <2>2
<1>11. /\ cmd' \in [Command -> CommandRow]
       /\ \A c \in Command : cmd'[c] = cmd[c] \/ (cmd'[c].status = "running" /\ cmd'[c].exec = n)
  <2>1. cmd \in [Command -> CommandRow] BY DEF RowType
  <2>2. ASSUME NEW c \in Command
        PROVE  /\ [cmd[c] EXCEPT !.status = "running", !.exec = n] \in CommandRow
               /\ [cmd[c] EXCEPT !.status = "running", !.exec = n].status = "running"
               /\ [cmd[c] EXCEPT !.status = "running", !.exec = n].exec = n
    <3>1. cmd[c] \in CommandRow /\ n \in 0..MaxExec BY <1>1, <1>2, <2>1
    <3> QED BY <3>1 DEF CommandRow
  <2>3. cmd' = [c \in Command |-> IF c = pending.by
                  THEN [cmd[c] EXCEPT !.status = "running", !.exec = n] ELSE cmd[c]]
    BY <1>2 DEF Commit
  <2> QED BY <2>1, <2>2, <2>3
<1>12. RowType' BY <1>7, <1>9, <1>10, <1>11 DEF RowType
<1>13. GenerationType'
  <2>1. \A i, j \in ActiveRuns' : i = j BY <1>7, <1>8 DEF ActiveRuns
  <2>2. \A i \in DOMAIN runs' : runs'[i] \in Run /\ runs'[i].id \in {0, runs'[i].exec}
    BY <1>6, <1>7, <1>8 DEF GenerationType
  <2>3. exec' \in Seq(Exec) /\ Len(exec') <= MaxExec BY <1>9 DEF GenerationType
  <2> QED BY <1>10, <1>11, <2>1, <2>2, <2>3 DEF GenerationType, CommandRow
<1>14. RowsName'
  <2>1. \A i \in 1..Len(runs') : runs'[i].id <= n
    <3> SUFFICES ASSUME NEW i \in 1..Len(runs') PROVE runs'[i].id <= n OBVIOUS
    <3>1. CASE runs'[i].id = id BY <1>6, <3>1
    <3>2. CASE i \in 1..Len(runs) /\ runs'[i].id = runs[i].id BY <1>2, <3>2 DEF RowsName
    <3> QED BY <1>7, <3>1, <3>2
  <2>2. \A c \in Command :
          /\ cmd'[c].exec <= n
          /\ cmd'[c].status \in {"running", "awaiting_review", "completed"} => cmd'[c].exec > 0
    BY <1>2, <1>6, <1>11 DEF RowsName
  <2>3. Len(exec') = n /\ n > 0 BY <1>2, <1>6, <1>9
  <2> HIDE DEF GenerationInv
  <2>4. \A i \in 1..Len(runs') : runs'[i].id <= Len(exec') BY <2>1, <2>3
  <2>5. row'.id <= Len(exec') /\ (row'.status # "none" => Len(exec') > 0) BY <1>10, <2>3
  <2>6. ASSUME NEW c \in Command
        PROVE  /\ cmd'[c].exec <= Len(exec')
               /\ cmd'[c].status \in {"running", "awaiting_review", "completed"} => cmd'[c].exec > 0
    BY <2>2, <2>3
  <2>7. pending' # Nothing => Len(exec') > 0 BY <2>3
  <2> QED BY <2>4, <2>5, <2>6, <2>7 DEF RowsName
<1>15. AnswerStands' BY <1>9 DEF AnswerStands
<1>16. SettledRunIsOver'
  <2> SUFFICES ASSUME NEW i \in 1..Len(runs'), runs'[i].status \in {"completed", "failed"}, runs'[i].id # 0
               PROVE  exec[runs'[i].id].pc = "closed"
    BY <1>8, <1>9 DEF SettledRunIsOver
  <2>1. ~Live(runs'[i].status) BY DEF Live
  <2>2. i \in 1..Len(runs) /\ runs'[i].id = runs[i].id /\ runs[i].status \in {"completed", "failed"}
    BY <1>7, <2>1
  <2> QED BY <1>8, <2>2 DEF SettledRunIsOver
<1>17. CompletedPassedQA' BY <1>9, <1>11 DEF CompletedPassedQA
<1>18. OneOpen' BY <1>9 DEF OneOpen
<1> HIDE DEF GenerationInv
<1> QED BY <1>12, <1>13, <1>14, <1>15, <1>16, <1>17, <1>18 DEF GenerationInv

LEMMA CancelStep ==
  ASSUME GenerationInv, CancelProject \/ (\E c \in Command : CancelCommand(c))
  PROVE  GenerationInv'
<1>1. UNCHANGED <<pending, rec>> BY DEF CancelProject, CancelCommand
<1>2. CASE CancelProject
  <2>1. Grows
    <3>1. CASE IsOpen
      <4>1. /\ Latest \in Exec /\ Latest.pc # "closed" /\ Latest.said = "working" /\ Latest.end = "running"
            /\ Latest.passed = FALSE
        <5>1. Len(exec) \in 1..Len(exec) /\ Latest \in Exec /\ Latest.pc # "closed" /\ Latest.end = "running"
          BY <3>1, Lengths
        <5> QED BY <5>1 DEF GenerationInv, OneOpen, Latest, Exec
      <4>2. PICK told : told = (Latest.pc \in {"continuity_references", "approval", "shot_generation"})
        OBVIOUS
      <4> told \in BOOLEAN BY <4>2
      <4>3. PICK e : e = [Latest EXCEPT !.stop = TRUE, !.told = told] OBVIOUS
      <4>4. /\ e \in Exec /\ e.pc = Latest.pc /\ e.said = "working" /\ e.end = "running" /\ e.passed = FALSE
        BY <4>1, <4>3 DEF Exec
      <4>5. PICK f : f = Closed(Latest, "failed") OBVIOUS
      <4>6. f \in Exec /\ f.pc = "closed" /\ f.said = "working" /\ f.end = "failed" /\ f.passed = FALSE
        BY <4>1, <4>5 DEF Closed, Exec
      <4>7. Set(e) \/ Set(f) BY <1>2, <3>1, <4>2, <4>3, <4>5 DEF CancelProject, Signalled
      <4> QED BY <3>1, <4>1, <4>4, <4>6, <4>7, LatestBecomes
    <3>2. CASE ~IsOpen BY <1>2, <3>2, Stays DEF CancelProject
    <3> QED BY <3>1, <3>2
  <2>2. Settles /\ RowMoves
    <3>1. CASE Locked BY <1>2, <3>1, RunsStay, RowStays DEF CancelProject
    <3>2. CASE ~Locked
      <4>1. runs' = [i \in DOMAIN runs |->
                       IF i \in ActiveRuns THEN [runs[i] EXCEPT !.status = "cancelled"] ELSE runs[i]]
        BY <1>2, <3>2 DEF CancelProject
      <4>2. Settles BY <4>1, RunsTake
      <4>3. RowMoves BY <1>2, <3>2 DEF CancelProject, RowMoves, GenerationInv, RowType, RowsName
      <4> QED BY <4>2, <4>3
    <3> QED BY <3>1, <3>2
  <2>3. UNCHANGED cmd BY <1>2 DEF CancelProject
  <2> QED BY <1>1, <2>1, <2>2, <2>3, CommandsStay, PendingStays, GenerationMoves DEF AnswerMoves
<1>3. ASSUME NEW c \in Command, CancelCommand(c) PROVE GenerationInv'
  <2>1. Grows
    <3>1. CASE IsOpen
      <4>1. /\ Latest \in Exec /\ Latest.pc # "closed" /\ Latest.said = "working" /\ Latest.end = "running"
            /\ Latest.passed = FALSE
        <5>1. Len(exec) \in 1..Len(exec) /\ Latest \in Exec /\ Latest.pc # "closed" /\ Latest.end = "running"
          BY <3>1, Lengths
        <5> QED BY <5>1 DEF GenerationInv, OneOpen, Latest, Exec
      <4>2. PICK e : e = [Latest EXCEPT !.asked = TRUE] OBVIOUS
      <4>3. /\ e \in Exec /\ e.pc = Latest.pc /\ e.said = "working" /\ e.end = "running" /\ e.passed = FALSE
        BY <4>1, <4>2 DEF Exec
      <4>4. Set(e) BY <1>3, <3>1, <4>2 DEF CancelCommand
      <4> QED BY <3>1, <4>1, <4>3, <4>4, LatestBecomes
    <3>2. CASE ~IsOpen BY <1>3, <3>2, Stays DEF CancelCommand
    <3> QED BY <3>1, <3>2
  <2>2. Settles
    <3>1. PICK S : S = {i \in ActiveRuns : runs[i].origin = c} OBVIOUS
    <3>2. runs' = [i \in DOMAIN runs |-> IF i \in S THEN [runs[i] EXCEPT !.status = "cancelled"] ELSE runs[i]]
      BY <1>3, <3>1 DEF CancelCommand
    <3> QED BY <3>1, <3>2, RunsTake
  <2>3. CommandsMove
    <3>1. cmd' = [cmd EXCEPT ![c].status = "cancelled"] BY <1>3 DEF CancelCommand
    <3> QED BY <3>1, CommandTakes
  <2>4. UNCHANGED row BY <1>3 DEF CancelCommand
  <2> QED BY <1>1, <2>1, <2>2, <2>3, <2>4, RowStays, PendingStays, GenerationMoves DEF AnswerMoves
<1> QED BY <1>2, <1>3

\* The settling pass of the dispatcher: an execution that says it is through is over.
LEMMA SettleRunningStep ==
  ASSUME GenerationInv, NEW c \in Command, SettleRunning(c)
  PROVE  GenerationInv'
<1>1. UNCHANGED <<exec, row, pending, rec>> BY DEF SettleRunning
<1>2. /\ cmd[c].exec > 0 /\ cmd[c].exec <= Len(exec) /\ cmd[c].exec \in Nat
      /\ Len(exec) \in 1..Len(exec) /\ Len(exec) \in Nat
  BY Lengths, GenerationAssumption DEF SettleRunning, GenerationInv, RowsName, RowType, CommandRow
<1>3. PICK S : S = {i \in ActiveRuns : runs[i].origin = c} OBVIOUS
<1>4. ASSUME Latest.said # "working", NEW i \in S PROVE runs[i].id = 0 \/ exec[runs[i].id].pc = "closed"
  <2>1. i \in 1..Len(runs) /\ runs[i] \in Run BY <1>3, Lengths DEF ActiveRuns
  <2>2. runs[i].id \in Nat /\ runs[i].id <= Len(exec) BY <2>1 DEF Run, GenerationInv, RowsName
  <2> QED BY <1>2, <1>4, <2>2 DEF GenerationInv, OneOpen, Latest
<1>5. ASSUME NEW command \in {"awaiting_review", "completed", "failed"},
             NEW run \in {"awaiting_review", "completed", "failed", "cancelled"}, Settled(c, command, run),
             run \in {"completed", "failed"} => Latest.said # "working",
             command = "completed" => Latest.said = "completed"
      PROVE  Settles /\ CommandsMove
  <2>1. runs' = [i \in DOMAIN runs |-> IF i \in S THEN [runs[i] EXCEPT !.status = run] ELSE runs[i]]
    BY <1>3, <1>5 DEF Settled
  <2>2. Settles BY <1>3, <1>4, <1>5, <2>1, RunsTake
  <2>3. cmd' = [cmd EXCEPT ![c].status = command] BY <1>5 DEF Settled
  <2>4. command = "completed" => \E e \in cmd[c].exec..Len(exec) : exec[e].passed
    BY <1>2, <1>5 DEF Latest, GenerationInv, OneOpen
  <2>5. CommandsMove BY <1>2, <2>3, <2>4, CommandTakes
  <2> QED BY <2>2, <2>5
<1>6. Settles /\ CommandsMove
  <2>1. CASE Latest.said = "completed" /\ Settled(c, "completed", "completed") BY <1>5, <2>1
  <2>2. CASE Settled(c, "awaiting_review", "awaiting_review") BY <1>5, <2>2
  <2>3. CASE Settled(c, "failed", "cancelled") BY <1>5, <2>3
  <2>4. CASE Latest.said = "stopped" /\ Settled(c, "failed", "failed") BY <1>5, <2>4
  <2> QED BY <2>1, <2>2, <2>3, <2>4 DEF SettleRunning
<1> QED BY <1>1, <1>6, Stays, RowStays, PendingStays, GenerationMoves DEF AnswerMoves

\* The question to the cluster and its answer.
LEMMA AskStep ==
  ASSUME GenerationInv, NEW c \in Command \cup {"get"}, Ask(c)
  PROVE  AnswerMoves
<1>1. row.status = "running" /\ ~IsOpen BY DEF Ask, Stale
<1>2. Len(exec) > 0 /\ Len(exec) \in Nat BY <1>1, Lengths DEF GenerationInv, RowsName
<1>3. Len(exec) \in 1..Len(exec) /\ exec[Len(exec)].pc = "closed" /\ exec[Len(exec)] \in Exec
  BY <1>1, <1>2, Lengths
<1>4. Latest.end \in {"completed", "failed", "cancelled"} BY <1>3 DEF Latest, Exec, GenerationInv, OneOpen
<1>5. row.id \in Nat BY GenerationAssumption DEF GenerationInv, RowType
<1>6. rec' = [by |-> c, id |-> row.id, end |-> Latest.end] BY DEF Ask
<1>7. rec' \in Answer /\ rec'.id = row.id BY <1>4, <1>5, <1>6 DEF Answer
<1> QED BY <1>1, <1>2, <1>7 DEF AnswerMoves

LEMMA ReconcileStep ==
  ASSUME GenerationInv, Reconcile \/ SettleRows \/ (\E c \in Command : Continue(c))
  PROVE  GenerationInv'
<1>1. UNCHANGED <<exec, pending>> BY DEF Reconcile, SettleRows, Continue
<1>2. CASE Reconcile
  BY <1>1, <1>2, AskStep, Stays, RunsStay, CommandsStay, RowStays, PendingStays, GenerationMoves DEF Reconcile
<1>3. ASSUME NEW c \in Command, Continue(c) PROVE GenerationInv'
  <2>1. UNCHANGED <<runs, row>> BY <1>3 DEF Continue
  <2>2. CASE Ask(c) /\ UNCHANGED cmd
    BY <1>1, <2>1, <2>2, AskStep, Stays, RunsStay, CommandsStay, RowStays, PendingStays, GenerationMoves
  <2>3. CASE cmd' = [cmd EXCEPT ![c].status = "pending"] /\ UNCHANGED rec
    <3>1. CommandsMove BY <2>3, CommandTakes
    <3> QED BY <1>1, <2>1, <2>3, <3>1, Stays, RunsStay, RowStays, PendingStays, GenerationMoves DEF AnswerMoves
  <2> QED BY <1>3, <2>2, <2>3 DEF Continue
<1>4. CASE SettleRows
  <2>1. rec \in Answer /\ rec' = Nothing BY <1>4 DEF SettleRows, GenerationInv, RowType
  <2>2. Settles /\ RowMoves /\ CommandsMove
    <3>1. CASE Locked /\ UNCHANGED <<row, runs, cmd>> BY <3>1, RunsStay, RowStays, CommandsStay
    <3>2. CASE /\ row' = [row EXCEPT !.status = rec.end]
               /\ runs' = [i \in DOMAIN runs |-> IF i \in ActiveRuns /\ BelongsTo(i)
                                          THEN [runs[i] EXCEPT !.status = rec.end] ELSE runs[i]]
               /\ cmd' = [c \in Command |-> IF c = rec.by /\ cmd[c].status = "none"
                                     THEN [cmd[c] EXCEPT !.status = "pending"] ELSE cmd[c]]
      <4>1. PICK S : S = {i \in ActiveRuns : BelongsTo(i)} OBVIOUS
      <4>2. PICK end : end = rec.end OBVIOUS
      <4>3. end \in {"completed", "failed", "cancelled"} BY <2>1, <4>2 DEF Answer
      <4>4. runs' = [i \in DOMAIN runs |-> IF i \in S THEN [runs[i] EXCEPT !.status = end] ELSE runs[i]]
        BY <3>2, <4>1, <4>2
      <4>5. \A i \in S : runs[i].id = 0 \/ exec[runs[i].id].pc = "closed"
        BY <2>1, <4>1, <1>4 DEF BelongsTo, GenerationInv, AnswerStands, SettleRows
      <4>6. Settles BY <4>1, <4>3, <4>4, <4>5, RunsTake
      <4>7. RowMoves
        <5>1. row \in [status : {"none", "running", "completed", "failed", "cancelled"}, id : 0..MaxExec]
          BY DEF GenerationInv, RowType
        <5>2. row' = [row EXCEPT !.status = end] BY <3>2, <4>2
        <5>3. Len(exec) > 0 BY <1>4, <2>1 DEF SettleRows, GenerationInv, AnswerStands
        <5> QED BY <4>3, <5>1, <5>2, <5>3 DEF RowMoves
      <4>8. CommandsMove
        <5>1. cmd \in [Command -> CommandRow] BY DEF GenerationInv, RowType
        <5>2. ASSUME NEW c \in Command
              PROVE  /\ [cmd[c] EXCEPT !.status = "pending"] \in CommandRow
                     /\ [cmd[c] EXCEPT !.status = "pending"].exec = cmd[c].exec
                     /\ [cmd[c] EXCEPT !.status = "pending"].status = "pending"
          <6>1. cmd[c] \in CommandRow BY <5>1
          <6> QED BY <6>1 DEF CommandRow
        <5>3. /\ cmd' \in [Command -> CommandRow]
              /\ \A c \in Command : cmd'[c] = cmd[c] \/ (cmd'[c].status = "pending" /\ cmd'[c].exec = cmd[c].exec)
          BY <3>2, <5>1, <5>2
        <5> QED BY <5>3 DEF CommandsMove, GenerationInv, RowsName, CompletedPassedQA
      <4> QED BY <4>6, <4>7, <4>8
    <3> QED BY <1>4, <3>1, <3>2 DEF SettleRows
  <2> QED BY <1>1, <2>1, <2>2, Stays, PendingStays, GenerationMoves DEF AnswerMoves
<1> QED BY <1>2, <1>3, <1>4

LEMMA GenerationStep ==
  ASSUME GenerationInv, GenerationNext
  PROVE  GenerationInv'
<1>1. CASE StartWorkflow BY <1>1, BeginStep, StageNames DEF StartWorkflow, Origin
<1>2. ASSUME NEW c \in Command, Dispatch(c) PROVE GenerationInv'
  <2>1. EntryOf[c] \in StageName /\ c \in Origin BY GenerationAssumption DEF Origin
  <2> QED BY <1>2, <2>1, BeginStep DEF Dispatch
<1>3. ASSUME NEW c \in Command, DispatchRefused(c) PROVE GenerationInv'
  <2>1. CommandsMove BY <1>3, CommandTakes DEF DispatchRefused
  <2> QED BY <1>3, <2>1, Stays, RunsStay, RowStays, PendingStays, GenerationMoves DEF DispatchRefused, AnswerMoves
<1>4. CASE Crash
  <2>1. UNCHANGED <<exec, runs, row, cmd, rec>> /\ pending' = Nothing BY <1>4 DEF Crash
  <2> QED BY <2>1, Stays, RunsStay, RowStays, CommandsStay, GenerationMoves DEF AnswerMoves
<1> QED BY <1>1, <1>2, <1>3, <1>4, WorkflowStep, CommitStep, CancelStep, ReconcileStep, SettleRunningStep
  DEF GenerationNext

-----------------------------------------------------------------------------
(* The sum of the two. *)

Inv == FanoutInv /\ GenerationInv

\* The inductive invariant of both workflows (packages/workflows/shot.py, project.py and
\* the rows of control_command_repository.py): it holds in every state of every project.
THEOREM Invariance == FairSpec => []Inv
<1>1. Init => Inv BY FanoutStarts, GenerationStarts DEF Init, Inv
<1>2. Inv /\ [Next]_vars => Inv'
  <2> SUFFICES ASSUME Inv, [Next]_vars PROVE Inv' OBVIOUS
  <2>1. UNCHANGED generationVars => GenerationInv'
    <3> SUFFICES ASSUME UNCHANGED generationVars PROVE GenerationInv' OBVIOUS
    <3>1. UNCHANGED <<exec, runs, row, cmd, pending, rec>> BY DEF generationVars
    <3> QED BY <3>1, Stays, RunsStay, RowStays, CommandsStay, PendingStays, GenerationMoves DEF AnswerMoves, Inv
  <2>2. UNCHANGED fanoutVars => FanoutInv'
    <3> SUFFICES ASSUME UNCHANGED fanoutVars PROVE FanoutInv' OBVIOUS
    <3> QED BY DEF fanoutVars, fanVars, Inv, FanoutInv, FanoutType, LockedThroughGates, ReportedLocked,
                   ClosedComplete, GatedSoFar
  <2>3. CASE Fans(FanoutNext) BY <2>1, <2>3, FanoutStep DEF Fans, Inv
  <2>4. CASE Generates(GenerationNext) BY <2>2, <2>4, GenerationStep DEF Generates, Inv
  <2>5. CASE UNCHANGED vars BY <2>1, <2>2, <2>5 DEF vars, Inv
  <2> QED BY <2>3, <2>4, <2>5 DEF Next
<1> QED BY <1>1, <1>2, PTL DEF FairSpec

\* Every variable keeps its type, the fan-out holds no more children than its
\* concurrency, and one run of the project is active (ProjectShotFanoutInput.concurrency,
\* the partial unique index of project_generation_runs).
THEOREM TypeCorrect == FairSpec => []TypeOK
<1>1. Inv => TypeOK BY DEF Inv, FanoutInv, GenerationInv, TypeOK
<1> QED BY <1>1, Invariance, PTL

\* A fan-out is complete only behind shots that are locked, and a shot is locked only
\* behind its gates, whatever is parked, retried, repaired, cancelled or reported late
\* (ShotGenerationWorkflow, ProjectShotFanoutWorkflow).
THEOREM ShotsEarnTheirLock == FairSpec => []LockedIsEarned
<1>1. Inv => LockedIsEarned
  BY DEF Inv, FanoutInv, ClosedComplete, LockedIsEarned, CompleteMeansLocked
<1> QED BY <1>1, Invariance, PTL

\* No run is called completed or failed while the execution it knows is alive, whoever
\* reconciles, dispatches or cancels in between (reconcile_project_workflow, the
\* dispatcher's settling pass).
THEOREM RunsSettleAfterExecutions == FairSpec => []SettledRunIsOver
<1>1. Inv => SettledRunIsOver BY DEF Inv, GenerationInv
<1> QED BY <1>1, Invariance, PTL

\* A continuation command completes only off an execution whose final editorial QA passed
\* (_settle_generation_run).
THEOREM CompletionNeedsAPass == FairSpec => []CompletedPassedQA
<1>1. Inv => CompletedPassedQA BY DEF Inv, GenerationInv
<1> QED BY <1>1, Invariance, PTL

=============================================================================
