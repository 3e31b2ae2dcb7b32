---------------------------- MODULE RepairProofs ----------------------------
(***************************************************************************)
(* Proofs about Repair: whatever the number of clips, workers, faults and  *)
(* the policy, a repair ends on a clip that deserves it, verdicts stand,   *)
(* and nobody is paid beyond what was agreed.                              *)
(*                                                                         *)
(* The inductive invariant has three parts.  `Shape' types the state and   *)
(* binds each execution to the attempt or evaluation it is at.  `Books'    *)
(* accounts for the calls to an agent: until its answer is in, each was    *)
(* made by an execution that still waits, or was lost to a fault.  `Solo'  *)
(* is what holds while executions have not overlapped: one of them is at   *)
(* work at most, on the newest attempt and on the clip the shot shows.     *)
(*                                                                         *)
(* Then the decisions a repair rests on, as rules over every question they *)
(* can be asked: the cause, the route, the change and the fallback (Triage)*)
(* and the model that makes the clip (Routing).                            *)
(***************************************************************************)
EXTENDS Repair, FiniteSetTheorems, SequenceTheorems, WellFoundedInduction, TLAPS

CONSTANTS
  MaxSameProvider, MaxAlternate,                                  \* the policy of a route
  DimensionRepairs, ResultRepairs, ResultWarnings, GateTolerances, GateFindings, GateSeconds,
  SamplingQuestions, CoverageSamples, ActionSamples, FinalFrameBackoff, MinimumSamples,
  ParallaxQuestions                                               \* what else Triage is asked

-----------------------------------------------------------------------------
(* The inductive invariant. *)

Making == {"execute", "called", "polling", "downloading", "produced"}

Evaluating == {"asking", "asked", "heard"}

Pc == {"idle", "loop", "revalidate"} \cup Making \cup Evaluating

Job == [pc: Pc, for: {"none", "stage", "repair"}, attempt: Nat, token: Nat, clip: Nat,
        heard: {"none"} \cup Outcome \cup Agent]

\* The execution looks at a clip for the repair.
Judges(j) == j.pc = "revalidate" \/ (j.pc \in Evaluating /\ j.for = "repair")

\* What is known of an execution from where it is.
JobShape(j) ==
  /\ j.pc = "loop" \/ j.pc \in Making \/ Judges(j) => run.state # "none"
  /\ j.pc \in Making \/ Judges(j) => j.attempt \in DOMAIN attempts
  /\ j.pc \in Evaluating => j.for \in {"stage", "repair"}
  /\ j.pc \in {"asking", "asked"} => j.clip \in Clip /\ qa[j.clip].status # "none"
  /\ j.pc = "asked" => j.heard \in Agent
  /\ j.pc = "heard" => j.heard \in Outcome

QAShape ==
  /\ clip \in Clip /\ qa \in [Clip -> Run] /\ approved \subseteq Clip
  /\ order \in Seq(Clip)
  /\ \A i \in DOMAIN order : qa[order[i]].status # "none"
  /\ \A i, k \in DOMAIN order : order[i] = order[k] => i = k
  /\ \A c \in Clip : Complete(c) => qa[c].outcome # "none"
  /\ bought \in [Clip -> [Agent -> Nat]]
  /\ overlapped \in BOOLEAN /\ faults \in 0..MaxFaults

RepairRun == [state: {"none", "working"} \cup Terminal, token: Nat, cancel: BOOLEAN, root: 0..MaxClips,
              selected: Nat, policy: [Kind -> Nat]]

RunShape ==
  /\ run \in RepairRun
  /\ run.state = "none" => attempts = <<>>
  /\ run.state # "none" => run.policy \in Policy /\ run.root \in Clip
  /\ run.selected \in 0..Len(attempts)
  /\ attempts \in Seq(Attempt)
  /\ \A kind \in Kind : Spent(kind) <= run.policy[kind]
  /\ remote \in [Ordinal -> {"none", "running", "succeeded", "failed"}]
  /\ \A k \in Ordinal \ DOMAIN attempts : remote[k] = "none"

Shape ==
  /\ QAShape /\ RunShape
  /\ worker \in [Worker -> Job]
  /\ \A w \in Worker : JobShape(worker[w])

\* The executions at work, those that wait for an agent's answer on a clip, and
\* whether it is in.
AtWork == {w \in Worker : worker[w].pc # "idle"}

Waiting(c, a) ==
  {w \in AtWork : worker[w].pc = "asked" /\ worker[w].clip = c /\ worker[w].heard = a}

Silent(c, a) == IF a = "first" THEN qa[c].first = "none" ELSE qa[c].second = "none"

Books ==
  /\ IsFiniteSet(AtWork)
  /\ \A c \in Clip, a \in Agent :
       /\ bought[c][a] <= 1 + faults
       /\ Silent(c, a) =>
            bought[c][a] + Cardinality(AtWork \ Waiting(c, a)) <= faults + (IF AtWork = {} THEN 0 ELSE 1)

\* No clip waits for its verdict.
Settled == \A k \in DOMAIN attempts : attempts[k].status # "revalidating"

\* What a lone execution is at.
Busy(j) ==
  /\ j.pc = "loop" => run.state = "working" /\ Settled
  /\ j.pc \in Making =>
       run.state = "working" /\ Settled /\ j.attempt = Latest /\ ~attempts[j.attempt].judged
  /\ j.pc = "produced" => attempts[j.attempt].clip = clip
  /\ Judges(j) => j.attempt = Latest /\ attempts[j.attempt].status = "revalidating"
  /\ j.pc \in Evaluating /\ j.for = "stage" => run.state = "none"
  /\ j.pc \in {"asking", "asked"} => j.clip = clip /\ qa[clip].status = "open"
  /\ j.pc = "heard" => Complete(clip) /\ qa[clip].outcome = j.heard

SoloRows ==
  /\ \A k \in DOMAIN attempts :
       /\ attempts[k].status = "revalidating" =>
            k = Latest /\ attempts[k].clip = clip /\ ~attempts[k].judged /\ run.state = "working"
       /\ attempts[k].judged => attempts[k].status \in Over
  /\ run.state = "LOCKED" => run.selected # 0 /\ clip = attempts[run.selected].clip
                             /\ Complete(clip) /\ qa[clip].outcome = "PASS"
  /\ run.state = "HUMAN_REVIEW_REQUIRED" => clip = run.root

Solo ==
  ~overlapped =>
    /\ \A v, w \in AtWork : v = w
    /\ SoloRows
    /\ \A w \in Worker : Busy(worker[w])

RepairInv == Shape /\ Books /\ Solo

-----------------------------------------------------------------------------
(* Sequences and counts. *)

LEMMA Rows ==
  ASSUME RunShape
  PROVE  /\ Latest \in Nat /\ DOMAIN attempts = 1..Latest
         /\ \A k \in 1..Latest : attempts[k] \in Attempt
BY LenProperties, ElementOfSeq DEF RunShape, Latest

\* The attempts of the three kinds, counted.
LEMMA CountRows ==
  ASSUME RunShape
  PROVE  /\ \A kind \in Kind : Spent(kind) \in Nat
         /\ Latest = Spent("same") + Spent("alternate") + Spent("fallback")
<1> DEFINE Of(kind) == {k \in DOMAIN attempts : attempts[k].kind = kind}
<1>1. IsFiniteSet(DOMAIN attempts) /\ Cardinality(DOMAIN attempts) = Latest
  BY Rows, FS_Interval
<1>2. \A kind \in Kind : IsFiniteSet(Of(kind)) BY <1>1, FS_Subset
<1>3. \A kind \in Kind : Spent(kind) = Cardinality(Of(kind)) BY DEF Spent
<1>4. "same" \in Kind /\ "alternate" \in Kind /\ "fallback" \in Kind BY DEF Kind, Paid
<1>5. DOMAIN attempts = (Of("same") \cup Of("alternate")) \cup Of("fallback")
  BY Rows DEF Attempt, Kind, Paid
<1>6. Of("same") \cap Of("alternate") = {} /\ (Of("same") \cup Of("alternate")) \cap Of("fallback") = {} OBVIOUS
<1>7. \A kind \in Kind : Spent(kind) \in Nat BY <1>2, <1>3, FS_CardinalityType
<1> HIDE DEF Of
<1>8. /\ IsFiniteSet(Of("same") \cup Of("alternate"))
      /\ Cardinality(Of("same") \cup Of("alternate"))
           = Cardinality(Of("same")) + Cardinality(Of("alternate")) - Cardinality({})
  BY <1>2, <1>4, <1>6, FS_Union
<1>9. Cardinality((Of("same") \cup Of("alternate")) \cup Of("fallback"))
        = Cardinality(Of("same") \cup Of("alternate")) + Cardinality(Of("fallback")) - Cardinality({})
  BY <1>2, <1>4, <1>6, <1>8, FS_Union
<1>10. Cardinality({}) = 0 BY FS_EmptySet
<1> QED BY <1>1, <1>3, <1>4, <1>5, <1>7, <1>8, <1>9, <1>10

\* The policy leaves room for the original clip and one for each attempt.
LEMMA RoomForClips ==
  ASSUME RunShape, run.state # "none"
  PROVE  Latest < MaxClips /\ MaxClips \in Nat
<1>1. run.policy \in Policy /\ MaxClips \in Nat BY RepairAssumption, QAAssumption DEF RunShape
<1>2. PICK p \in [Kind -> Nat] : p = run.policy BY <1>1, RepairAssumption
<1>3. 1 + p["same"] + p["alternate"] + p["fallback"] <= MaxClips BY <1>1, <1>2, RepairAssumption
<1>4. "same" \in Kind /\ "alternate" \in Kind /\ "fallback" \in Kind BY DEF Kind, Paid
<1>5. Spent("same") <= p["same"] /\ Spent("alternate") <= p["alternate"] /\ Spent("fallback") <= p["fallback"]
  BY <1>2, <1>4 DEF RunShape
<1>6. p["same"] \in Nat /\ p["alternate"] \in Nat /\ p["fallback"] \in Nat BY <1>2, <1>4
<1> QED BY <1>1, <1>3, <1>4, <1>5, <1>6, CountRows

\* A clip that is made next is one of the shot's.
LEMMA NextIsAClip ==
  ASSUME RunShape, run.state # "none", NEW k \in DOMAIN attempts, attempts[k].clip = 0
  PROVE  NextClip \in Clip /\ NextClip # 0
<1> DEFINE Made == {i \in DOMAIN attempts : attempts[i].clip # 0}
<1>1. IsFiniteSet(DOMAIN attempts) /\ Cardinality(DOMAIN attempts) = Latest /\ Latest \in Nat
  BY Rows, FS_Interval
<1>2. /\ IsFiniteSet(DOMAIN attempts \ {k}) /\ Cardinality(DOMAIN attempts \ {k}) = Latest - 1
  BY <1>1, FS_RemoveElement
<1>3. Made \in SUBSET (DOMAIN attempts \ {k}) OBVIOUS
<1>4. IsFiniteSet(Made) /\ Cardinality(Made) <= Latest - 1 BY <1>2, <1>3, FS_Subset
<1>5. Cardinality(Made) \in Nat BY <1>4, FS_CardinalityType
<1>6. NextClip = 2 + Cardinality(Made) BY DEF NextClip
<1> QED BY <1>1, <1>4, <1>5, <1>6, RoomForClips DEF Clip

-----------------------------------------------------------------------------
(* What a step leaves of each part. *)

LEMMA ShapeKept ==
  ASSUME Shape, QAShape', RunShape', worker' \in [Worker -> Job],
         run.state # "none" => run'.state # "none",
         \A k \in DOMAIN attempts : k \in DOMAIN attempts',
         \A c \in Clip : qa[c].status # "none" => qa'[c].status # "none",
         \A w \in Worker : worker'[w] = worker[w] \/ JobShape(worker[w])'
  PROVE  Shape'
<1>1. ASSUME NEW w \in Worker, worker'[w] = worker[w] PROVE JobShape(worker[w])'
  <2>1. JobShape(worker[w]) BY DEF Shape
  <2> QED BY <1>1, <2>1 DEF JobShape, Judges
<1> QED BY <1>1 DEF Shape

\* The usual case: one execution moves.
LEMMA OneMoves ==
  ASSUME Shape, QAShape', RunShape', NEW w \in Worker, NEW j \in Job,
         worker' = [worker EXCEPT ![w] = j], JobShape(j)',
         run.state # "none" => run'.state # "none",
         \A k \in DOMAIN attempts : k \in DOMAIN attempts',
         \A c \in Clip : qa[c].status # "none" => qa'[c].status # "none"
  PROVE  Shape'
<1>1. worker' \in [Worker -> Job] /\ worker'[w] = j /\ \A v \in Worker \ {w} : worker'[v] = worker[v] BY DEF Shape
<1>2. JobShape(worker[w])' BY <1>1
<1> QED BY <1>1, <1>2, ShapeKept

LEMMA QAStill ==
  ASSUME QAShape, UNCHANGED qaVars, overlapped' \in BOOLEAN, faults' \in 0..MaxFaults
  PROVE  QAShape'
BY DEF QAShape, qaVars, Complete

\* The row of an evaluation is rewritten.
LEMMA Judged ==
  ASSUME QAShape, NEW c \in Clip, NEW r \in Run, r.status # "none", r.status = "complete" => r.outcome # "none",
         qa' = [qa EXCEPT ![c] = r], qa[c].status # "none", UNCHANGED <<clip, order, approved>>,
         bought' \in [Clip -> [Agent -> Nat]], overlapped' \in BOOLEAN, faults' \in 0..MaxFaults
  PROVE  QAShape'
<1>1. qa' \in [Clip -> Run] /\ qa'[c] = r /\ \A d \in Clip \ {c} : qa'[d] = qa[d] BY DEF QAShape
<1>2. \A i \in DOMAIN order : order[i] \in Clip
  BY LenProperties DEF QAShape
<1>3. \A i \in DOMAIN order : qa'[order[i]].status # "none" BY <1>1, <1>2 DEF QAShape
<1>4. \A d \in Clip : qa'[d].status = "complete" => qa'[d].outcome # "none" BY <1>1 DEF QAShape, Complete
<1> QED BY <1>1, <1>3, <1>4 DEF QAShape, Complete

\* An attempt is rewritten and stays of its kind.
LEMMA Rewritten ==
  ASSUME RunShape, NEW k \in DOMAIN attempts, NEW b \in Attempt, b.kind = attempts[k].kind,
         attempts' = [attempts EXCEPT ![k] = b],
         run' \in RepairRun, run.state # "none", run'.state # "none", run'.policy = run.policy,
         run'.root = run.root, run'.selected \in 0..Latest, UNCHANGED remote
  PROVE  /\ RunShape'
         /\ Latest' = Latest /\ DOMAIN attempts' = DOMAIN attempts /\ attempts'[k] = b
         /\ \A i \in DOMAIN attempts \ {k} : attempts'[i] = attempts[i]
<1>1. k \in 1..Latest BY Rows
<1>2. attempts' \in Seq(Attempt) /\ Len(attempts') = Len(attempts) BY <1>1, ExceptSeq DEF RunShape, Latest
<1>3. DOMAIN attempts' = DOMAIN attempts /\ attempts'[k] = b
      /\ \A i \in DOMAIN attempts \ {k} : attempts'[i] = attempts[i]
  OBVIOUS
<1>4. \A kind \in Kind : Spent(kind)' = Spent(kind)
  <2>1. \A i \in DOMAIN attempts : attempts'[i].kind = attempts[i].kind BY <1>3
  <2>2. ASSUME NEW kind \in Kind PROVE Spent(kind)' = Spent(kind)
    <3>1. {i \in DOMAIN attempts' : attempts'[i].kind = kind} = {i \in DOMAIN attempts : attempts[i].kind = kind}
      BY <1>3, <2>1
    <3> QED BY <3>1 DEF Spent
  <2> QED BY <2>2
<1>5. run'.policy \in Policy /\ run'.root \in Clip BY DEF RunShape
<1>6. \A kind \in Kind : Spent(kind)' <= run'.policy[kind] BY <1>4 DEF RunShape
<1>7. run'.selected \in 0..Len(attempts') BY <1>2 DEF Latest
<1> QED BY <1>2, <1>3, <1>5, <1>6, <1>7 DEF RunShape, Latest

\* Only the run's own row changes.
LEMMA Redirected ==
  ASSUME RunShape, run' \in RepairRun, run.state # "none", run'.state # "none", run'.policy = run.policy,
         run'.root = run.root, run'.selected \in 0..Latest, UNCHANGED <<attempts, remote>>
  PROVE  RunShape'
<1>1. \A kind \in Kind : Spent(kind)' = Spent(kind) BY DEF Spent
<1>2. run'.policy \in Policy /\ run'.root \in Clip BY DEF RunShape
<1>3. \A kind \in Kind : Spent(kind)' <= run'.policy[kind] BY <1>1 DEF RunShape
<1> QED BY <1>2, <1>3 DEF RunShape, Latest

LEMMA RunStill ==
  ASSUME RunShape, UNCHANGED <<run, attempts, remote>>
  PROVE  RunShape'
BY DEF RunShape, Spent

-----------------------------------------------------------------------------
(* The account of the calls to an agent. *)

LEMMA BooksStill ==
  ASSUME Books, UNCHANGED <<worker, bought, faults>>, \A c \in Clip, a \in Agent : Silent(c, a)' = Silent(c, a)
  PROVE  Books'
<1>1. AtWork' = AtWork /\ \A c \in Clip, a \in Agent : Waiting(c, a)' = Waiting(c, a) BY DEF AtWork, Waiting
<1> QED BY <1>1 DEF Books

\* One execution moves and asks nobody: it was not waiting, or that is a fault.
LEMMA BooksKept ==
  ASSUME Shape, Books, NEW w \in Worker, NEW j \in Job, worker' = [worker EXCEPT ![w] = j], j.pc # "asked",
         UNCHANGED bought, \A c \in Clip, a \in Agent : Silent(c, a)' => Silent(c, a),
         \/ faults' = faults + 1
         \/ faults' = faults /\ worker[w].pc # "asked" /\ (worker[w].pc = "idle" => Alone(w))
  PROVE  Books'
<1>1. worker'[w] = j /\ \A v \in Worker \ {w} : worker'[v] = worker[v] BY DEF Shape
<1>2. faults \in Nat /\ faults' \in Nat /\ faults <= faults' BY QAAssumption DEF Shape, QAShape
<1>3. IsFiniteSet(AtWork) BY DEF Books
<1>4. AtWork' = IF j.pc = "idle" THEN AtWork \ {w} ELSE AtWork \cup {w} BY <1>1 DEF AtWork
<1>5. IsFiniteSet(AtWork') BY <1>3, <1>4, FS_AddElement, FS_RemoveElement
<1>6. ASSUME NEW c \in Clip, NEW a \in Agent
      PROVE  /\ bought'[c][a] <= 1 + faults'
             /\ Silent(c, a)' => bought'[c][a] + Cardinality((AtWork \ Waiting(c, a))')
                                   <= faults' + (IF AtWork' = {} THEN 0 ELSE 1)
  <2>1. PICK D : D = AtWork \ Waiting(c, a) OBVIOUS
  <2>2. PICK E : E = (AtWork \ Waiting(c, a))' OBVIOUS
  <2>3. Waiting(c, a)' = Waiting(c, a) \ {w} BY <1>1 DEF Waiting, AtWork
  <2>4. E = IF j.pc = "idle" THEN D \ {w} ELSE D \cup {w} BY <1>4, <2>1, <2>2, <2>3
  <2>5. IsFiniteSet(D) BY <1>3, <2>1, FS_Subset
  <2>6. Cardinality(D) \in Nat BY <2>5, FS_CardinalityType
  <2>7. Cardinality(D \ {w}) = IF w \in D THEN Cardinality(D) - 1 ELSE Cardinality(D) BY <2>5, FS_RemoveElement
  <2>8. Cardinality(D \cup {w}) = IF w \in D THEN Cardinality(D) ELSE Cardinality(D) + 1 BY <2>5, FS_AddElement
  <2>9. PICK b \in Nat : b = bought[c][a] BY DEF Shape, QAShape
  <2>10. b <= 1 + faults BY <2>9 DEF Books
  <2>11. ASSUME Silent(c, a)' PROVE b + Cardinality(E) <= faults' + (IF AtWork' = {} THEN 0 ELSE 1)
    <3>1. b + Cardinality(D) <= faults + (IF AtWork = {} THEN 0 ELSE 1) BY <2>1, <2>9, <2>11 DEF Books
    <3>2. w \in D <=> worker[w].pc # "idle" /\ w \notin Waiting(c, a) BY <2>1 DEF AtWork
    <3>3. w \in Waiting(c, a) => worker[w].pc = "asked" BY DEF Waiting
    <3>4. w \in AtWork <=> worker[w].pc # "idle" BY DEF AtWork
    <3>5. CASE j.pc = "idle"
      <4>1. Cardinality(E) = IF w \in D THEN Cardinality(D) - 1 ELSE Cardinality(D) BY <2>4, <2>7, <3>5
      <4>2. w \notin AtWork => AtWork' = AtWork BY <1>4, <3>5
      <4>3. CASE w \in D BY <1>2, <2>6, <2>9, <3>1, <4>1, <4>3
      <4>4. CASE w \notin AtWork BY <1>2, <2>1, <2>6, <2>9, <3>1, <4>1, <4>2, <4>4
      <4>5. CASE w \in Waiting(c, a)
        <5>1. faults' = faults + 1 BY <3>3, <4>5
        <5> QED BY <1>2, <2>1, <2>6, <2>9, <3>1, <4>1, <4>5, <5>1
      <4> QED BY <2>1, <4>3, <4>4, <4>5
    <3>6. CASE j.pc # "idle"
      <4>1. Cardinality(E) = IF w \in D THEN Cardinality(D) ELSE Cardinality(D) + 1 BY <2>4, <2>8, <3>6
      <4>2. AtWork' # {} BY <1>4, <3>6
      <4>3. CASE w \in D BY <1>2, <2>6, <2>9, <3>1, <4>1, <4>2, <4>3
      <4>4. CASE faults' = faults + 1 BY <1>2, <2>6, <2>9, <3>1, <4>1, <4>2, <4>4
      <4>5. CASE w \notin D /\ faults' = faults
        <5>1. Alone(w) /\ worker[w].pc = "idle" BY <1>2, <3>2, <3>3, <4>5
        <5>2. AtWork = {} BY <5>1 DEF AtWork, Alone
        <5> QED BY <1>2, <2>6, <2>9, <3>1, <4>1, <4>2, <4>5, <5>2
      <4> QED BY <4>3, <4>4, <4>5
    <3> QED BY <3>5, <3>6
  <2>12. b <= 1 + faults' BY <1>2, <2>9, <2>10
  <2> QED BY <2>2, <2>9, <2>11, <2>12
<1> QED BY <1>5, <1>6 DEF Books

\* An execution at work asks an agent that has not answered.
LEMMA BooksAsked ==
  ASSUME Shape, Books, NEW w \in Worker, NEW j \in Job, worker' = [worker EXCEPT ![w] = j],
         worker[w].pc \notin {"idle", "asked"}, j.pc = "asked", j.clip \in Clip, j.heard \in Agent,
         Silent(j.clip, j.heard), bought' = [bought EXCEPT ![j.clip][j.heard] = @ + 1],
         UNCHANGED <<qa, faults>>
  PROVE  Books'
<1>1. worker'[w] = j /\ \A v \in Worker \ {w} : worker'[v] = worker[v] BY DEF Shape
<1>2. faults \in Nat BY QAAssumption DEF Shape, QAShape
<1>3. w \in AtWork BY DEF AtWork
<1>4. AtWork' = AtWork BY <1>1, <1>3 DEF AtWork
<1>5. IsFiniteSet(AtWork) BY DEF Books
<1>6. ASSUME NEW c \in Clip, NEW a \in Agent
      PROVE  /\ bought'[c][a] <= 1 + faults
             /\ Silent(c, a) => bought'[c][a] + Cardinality((AtWork \ Waiting(c, a))') <= faults + 1
  <2>1. PICK b \in Nat : b = bought[c][a] BY DEF Shape, QAShape
  <2>2. b <= 1 + faults BY <2>1 DEF Books
  <2>3. PICK D : D = AtWork \ Waiting(c, a) OBVIOUS
  <2>4. IsFiniteSet(D) BY <1>5, <2>3, FS_Subset
  <2>5. Cardinality(D) \in Nat BY <2>4, FS_CardinalityType
  <2>6. Silent(c, a) => b + Cardinality(D) <= faults + 1 BY <1>3, <2>1, <2>3 DEF Books
  <2>7. w \in D BY <1>3, <2>3 DEF Waiting
  <2>8. CASE c = j.clip /\ a = j.heard
    <3>1. bought'[c][a] = b + 1 BY <2>1, <2>8 DEF Shape, QAShape
    <3>2. (AtWork \ Waiting(c, a))' = D \ {w} BY <1>1, <1>3, <1>4, <2>3, <2>8 DEF Waiting, AtWork
    <3>3. Cardinality(D \ {w}) = Cardinality(D) - 1 /\ Cardinality(D \ {w}) \in Nat
      <4>1. IsFiniteSet(D \ {w}) BY <2>4, FS_RemoveElement
      <4> QED BY <2>4, <2>7, <4>1, FS_RemoveElement, FS_CardinalityType
    <3>4. b + Cardinality(D) <= faults + 1 BY <2>6, <2>8
    <3>5. b + 1 <= 1 + faults /\ (b + 1) + Cardinality(D \ {w}) <= faults + 1
      BY <1>2, <2>1, <2>5, <3>3, <3>4
    <3> QED BY <3>1, <3>2, <3>5
  <2>9. CASE ~(c = j.clip /\ a = j.heard)
    <3>1. bought'[c][a] = b BY <2>1, <2>9 DEF Shape, QAShape
    <3>2. (AtWork \ Waiting(c, a))' = D BY <1>1, <1>3, <1>4, <2>3, <2>9 DEF Waiting, AtWork
    <3> QED BY <2>2, <2>6, <3>1, <3>2
  <2> QED BY <2>8, <2>9
<1>7. \A c \in Clip, a \in Agent : Silent(c, a)' = Silent(c, a) BY DEF Silent
<1>8. AtWork' # {} BY <1>3, <1>4
<1> QED BY <1>4, <1>5, <1>6, <1>7, <1>8 DEF Books

\* The answer that an execution waited for is in.
LEMMA BooksAnswered ==
  ASSUME Shape, Books, NEW w \in Worker, NEW j \in Job, worker' = [worker EXCEPT ![w] = j],
         worker[w].pc = "asked", j.pc = "asking", UNCHANGED <<bought, faults>>,
         \A c \in Clip, a \in Agent : Silent(c, a)' =>
           Silent(c, a) /\ ~(c = worker[w].clip /\ a = worker[w].heard)
  PROVE  Books'
<1>1. worker'[w] = j /\ \A v \in Worker \ {w} : worker'[v] = worker[v] BY DEF Shape
<1>2. w \in AtWork /\ AtWork' = AtWork BY <1>1 DEF AtWork
<1>3. ASSUME NEW c \in Clip, NEW a \in Agent, Silent(c, a)' PROVE Waiting(c, a)' = Waiting(c, a)
  <2>1. w \notin Waiting(c, a) BY <1>3 DEF Waiting
  <2> QED BY <1>1, <2>1 DEF Waiting, AtWork
<1> QED BY <1>2, <1>3 DEF Books

-----------------------------------------------------------------------------
(* A lone execution. *)

\* Unless it overlaps another, the execution that moves is the only one at work.
LEMMA SoloKept ==
  ASSUME Shape, Solo, NEW w \in Worker, NEW j \in Job, worker' = [worker EXCEPT ![w] = j],
         ~overlapped' => ~overlapped /\ (worker[w].pc = "idle" => Alone(w)) /\ SoloRows' /\ Busy(j)'
  PROVE  Solo'
<1> SUFFICES ASSUME ~overlapped'
             PROVE  /\ \A v, x \in AtWork' : v = x
                    /\ SoloRows' /\ \A v \in Worker : Busy(worker[v])'
  BY DEF Solo
<1>1. worker'[w] = j /\ \A v \in Worker \ {w} : worker'[v] = worker[v] BY DEF Shape
<1>2. \A v \in Worker \ {w} : worker[v].pc = "idle" BY DEF Solo, AtWork, Alone
<1>3. \A v \in Worker \ {w} : worker'[v].pc = "idle" BY <1>1, <1>2
<1>4. \A v, x \in AtWork' : v = x BY <1>3 DEF AtWork
<1>5. Busy(worker[w])' BY <1>1
<1>6. \A v \in Worker \ {w} : Busy(worker[v])' BY <1>3 DEF Busy, Making, Evaluating, Judges
<1> QED BY <1>4, <1>5, <1>6

LEMMA SoloStill ==
  ASSUME Solo, UNCHANGED <<worker, overlapped, clip, qa, attempts>>,
         UNCHANGED <<run.state, run.selected, run.root>>
  PROVE  Solo'
BY DEF Solo, SoloRows, Busy, AtWork, Settled, Latest, Judges, Complete

-----------------------------------------------------------------------------
(* Groups of steps. *)

LEMMA IdleIsAJob == Idle \in Job /\ Idle.pc = "idle"
BY DEF Idle, Job, Pc

\* What is known of an execution before it moves.
LEMMA JobKnown ==
  ASSUME Shape, NEW w \in Worker
  PROVE  worker[w] \in Job /\ JobShape(worker[w])
BY DEF Shape

\* An execution leaves; if it waited for an answer, that is a fault.
LEMMA Leaves ==
  ASSUME RepairInv, NEW w \in Worker, worker[w].pc # "idle", Leave(w),
         UNCHANGED <<qaVars, overlapped, run, attempts, remote>>,
         faults' \in 0..MaxFaults, faults' = faults + 1 \/ (faults' = faults /\ worker[w].pc # "asked")
  PROVE  RepairInv'
<1>1. PICK j : j = Idle OBVIOUS
<1>2. j \in Job /\ j.pc = "idle" /\ worker' = [worker EXCEPT ![w] = j] BY <1>1, IdleIsAJob DEF Leave
<1>3. Shape /\ Books /\ Solo BY DEF RepairInv
<1>4. UNCHANGED <<clip, qa, bought>> BY DEF qaVars
<1>5. JobShape(j)' /\ Busy(j)' BY <1>2 DEF JobShape, Busy, Making, Evaluating, Judges
<1>6. Shape'
  <2>1. QAShape' BY <1>3, QAStill DEF Shape, QAShape
  <2>2. RunShape' BY <1>3, RunStill DEF Shape
  <2> QED BY <1>2, <1>3, <1>4, <1>5, <2>1, <2>2, OneMoves
<1>7. Books' BY <1>2, <1>3, <1>4, BooksKept DEF Silent
<1>8. Solo'
  <2>1. ~overlapped' => SoloRows' BY <1>3, <1>4 DEF Solo, SoloRows, Latest, Complete
  <2> QED BY <1>2, <1>3, <1>5, <2>1, SoloKept
<1> QED BY <1>6, <1>7, <1>8 DEF RepairInv

\* How an execution at pc may leave itself, as j, and its attempt a, as b, when no
\* clip is made or judged for good.
Onward(pc, j, a, b) ==
  /\ b.kind = a.kind /\ b.clip = a.clip
  /\ b.status \in Over \/ (pc \in Making /\ b.judged = a.judged)
  /\ b.status = "revalidating" => j.pc = "revalidate" \/ b.status = a.status
  /\ j.pc \in {"idle", "loop", "revalidate"} \cup (Making \ {"produced"})
  /\ j.pc \in Making => pc \in Making /\ b.judged = a.judged
  /\ j.pc = "revalidate" => b.status = "revalidating" /\ pc = "produced" /\ b.judged = a.judged

\* An execution takes its own attempt a step further.
LEMMA AttemptMoves ==
  ASSUME RepairInv, NEW w \in Worker, NEW j \in Job, worker' = [worker EXCEPT ![w] = j],
         worker[w].pc \in Making \cup {"heard"}, Judges(worker[w]) \/ worker[w].pc \in Making,
         NEW b \in Attempt, attempts' = [attempts EXCEPT ![At(w)] = b],
         Onward(worker[w].pc, j, attempts[At(w)], b), j.pc # "idle" => j.attempt = At(w),
         run' = run \/ run' = [run EXCEPT !.state = "working"],
         UNCHANGED <<qaVars, overlapped, remote>>, faults' \in 0..MaxFaults, faults' = faults \/ faults' = faults + 1
  PROVE  RepairInv'
<1>1. Shape /\ Books /\ Solo /\ QAShape /\ RunShape BY DEF RepairInv, Shape
<1> USE DEF Onward
<1>2. PICK k : k = At(w) OBVIOUS
<1>3. worker[w] \in Job /\ JobShape(worker[w]) BY <1>1, JobKnown
<1>4. k \in DOMAIN attempts /\ run.state # "none" BY <1>2, <1>3 DEF JobShape, At
<1>5. UNCHANGED <<clip, qa, bought>> BY DEF qaVars
<1>6. run' \in RepairRun /\ run'.state # "none" /\ run'.policy = run.policy /\ run'.root = run.root
      /\ run'.selected = run.selected /\ run'.state \in {run.state, "working"}
  BY <1>1, <1>4 DEF RunShape, RepairRun
<1>7. attempts' = [attempts EXCEPT ![k] = b] /\ b.kind = attempts[k].kind BY <1>2
<1>8. /\ RunShape'
      /\ Latest' = Latest /\ DOMAIN attempts' = DOMAIN attempts /\ attempts'[k] = b
      /\ \A i \in DOMAIN attempts \ {k} : attempts'[i] = attempts[i]
  <2>1. run'.selected \in 0..Latest BY <1>1, <1>6 DEF RunShape, Latest
  <2> QED BY <1>1, <1>4, <1>6, <1>7, <2>1, Rewritten
<1>9. JobShape(j)'
  <2>1. j.pc \notin Evaluating BY DEF Making, Evaluating
  <2>2. j.pc # "idle" => j.attempt \in DOMAIN attempts' BY <1>2, <1>4, <1>8
  <2> QED BY <1>6, <2>1, <2>2 DEF JobShape, Judges, Evaluating, Making
<1>10. Shape'
  <2>1. QAShape' BY <1>1, QAStill DEF QAShape
  <2> QED BY <1>1, <1>5, <1>6, <1>8, <1>9, <2>1, OneMoves
<1>11. Books'
  <2>1. worker[w].pc \notin {"idle", "asked"} /\ j.pc # "asked" BY DEF Making
  <2>2. \A c \in Clip, a \in Agent : Silent(c, a)' => Silent(c, a) BY <1>5 DEF Silent
  <2> QED BY <1>1, <1>5, <2>1, <2>2, BooksKept
<1>12. Solo'
  <2>1. worker[w].pc # "idle" BY DEF Making
  <2>2. ASSUME ~overlapped' PROVE SoloRows' /\ Busy(j)'
    <3>1. ~overlapped /\ SoloRows /\ Busy(worker[w]) BY <1>1, <2>2 DEF Solo
    <3>2. k = Latest BY <1>2, <3>1 DEF Busy, At
    <3>3. run.state = "working" /\ run'.state = "working"
      <4>1. worker[w].pc \in Making => run.state = "working" BY <3>1 DEF Busy
      <4>2. Judges(worker[w]) => attempts[k].status = "revalidating" BY <1>2, <3>1 DEF Busy, At
      <4>3. attempts[k].status = "revalidating" => run.state = "working" BY <1>4, <3>1 DEF SoloRows
      <4> QED BY <1>6, <4>1, <4>2, <4>3
    <3>4. \A i \in DOMAIN attempts \ {k} : attempts[i].status # "revalidating" BY <3>1, <3>2 DEF SoloRows
    <3>5. worker[w].pc \in Making => ~attempts[k].judged BY <1>2, <3>1 DEF Busy, At
    <3>6. worker[w].pc = "produced" => attempts[k].clip = clip BY <1>2, <3>1 DEF Busy, At
    <3>9. b.status = "revalidating" => j.pc = "revalidate"
      <4>1. worker[w].pc \in Making => attempts[k].status # "revalidating" BY <1>4, <3>1 DEF Busy, Settled
      <4> QED BY <1>2, <4>1 DEF Over
    <3>7. SoloRows'
      <4>1. ASSUME NEW i \in DOMAIN attempts
            PROVE  /\ attempts'[i].status = "revalidating" =>
                        i = Latest /\ attempts'[i].clip = clip /\ ~attempts'[i].judged
                   /\ attempts'[i].judged => attempts'[i].status \in Over
        <5>1. CASE i # k BY <1>8, <3>1, <3>4, <5>1 DEF SoloRows
        <5>2. CASE i = k
          <6>1. attempts'[i] = b BY <1>8, <5>2
          <6>2. b.status = "revalidating" => b.clip = clip /\ ~b.judged BY <1>2, <3>5, <3>6, <3>9 DEF Making
          <6>3. b.judged => b.status \in Over BY <1>2, <3>5
          <6> QED BY <3>2, <5>2, <6>1, <6>2, <6>3
        <5> QED BY <5>1, <5>2
      <4> QED BY <1>5, <1>8, <3>3, <4>1 DEF SoloRows
    <3>8. Busy(j)'
      <4>1. j.pc \notin Evaluating /\ j.pc # "produced" BY DEF Making, Evaluating
      <4>2. j.pc # "revalidate" => Settled' BY <1>8, <3>4, <3>9 DEF Settled
      <4>3. j.pc # "idle" => j.attempt = k BY <1>2
      <4>4. j.pc \in Making => ~attempts'[k].judged BY <1>2, <1>8, <3>5
      <4>5. j.pc = "revalidate" => attempts'[k].status = "revalidating" BY <1>8
      <4>6. j.pc = "loop" => Settled' BY <4>2
      <4>7. j.pc \in Making => Settled' BY <4>2 DEF Making
      <4>8. j.pc \in Making => j.pc # "idle" BY DEF Making
      <4>9. Judges(j) => j.pc = "revalidate" BY <4>1 DEF Judges
      <4>10. j.pc \notin {"asking", "asked"} /\ j.pc # "heard" BY <4>1 DEF Evaluating
      <4> QED BY <1>8, <3>2, <3>3, <4>1, <4>3, <4>4, <4>5, <4>6, <4>7, <4>8, <4>9, <4>10 DEF Busy
    <3> QED BY <3>7, <3>8
  <2>3. ~overlapped' => ~overlapped /\ (worker[w].pc = "idle" => Alone(w)) /\ SoloRows' /\ Busy(j)' BY <2>1, <2>2
  <2> QED BY <1>1, <2>3, SoloKept
<1> QED BY <1>10, <1>11, <1>12 DEF RepairInv

-----------------------------------------------------------------------------
(* Evaluations. *)

\* evaluate_shot begins, or answers with what it has.
LEMMA Evaluates ==
  ASSUME RepairInv, NEW w \in Worker, NEW key \in Nat, NEW for \in {"stage", "repair"}, NEW attempt \in Nat,
         Evaluate(w, key, for, attempt),
         UNCHANGED <<clip, approved, bought, run, attempts, remote>>,
         overlapped' \in BOOLEAN, faults' \in 0..MaxFaults,
         \/ faults' = faults + 1
         \/ faults' = faults /\ worker[w].pc # "asked" /\ (worker[w].pc = "idle" => Alone(w)),
         ~overlapped' => ~overlapped /\ (worker[w].pc = "idle" => Alone(w)),
         for = "stage" => run.state = "none",
         for = "repair" => /\ attempt \in DOMAIN attempts /\ run.state # "none"
                           /\ ~overlapped => attempt = Latest /\ attempts[attempt].status = "revalidating"
  PROVE  RepairInv'
<1>1. Shape /\ Books /\ Solo /\ QAShape /\ RunShape BY DEF RepairInv, Shape
<1>2. worker[w] \in Job /\ clip \in Clip /\ qa[clip] \in Run BY <1>1 DEF Shape, QAShape
<1>3. RunShape' BY <1>1, RunStill
<1>4. ~overlapped => SoloRows /\ run.state \notin Terminal
  <2>1. ASSUME ~overlapped, for = "repair" PROVE run.state \notin Terminal
    <3>1. attempts[attempt].status = "revalidating" /\ attempt \in DOMAIN attempts BY <2>1
    <3> QED BY <1>1, <2>1, <3>1 DEF Solo, SoloRows, Terminal
  <2> QED BY <1>1, <2>1 DEF Solo, Terminal
<1>5. CASE Reuses
  <2>1. PICK j : j = [worker[w] EXCEPT !.pc = "heard", !.for = for, !.attempt = attempt, !.heard = qa[clip].outcome]
    OBVIOUS
  <2>2. worker' = [worker EXCEPT ![w] = j] /\ UNCHANGED <<qa, order>> BY <1>5, <2>1 DEF Evaluate
  <2>3. Complete(clip) /\ qa[clip].outcome \in Outcome
    <3>1. Complete(clip) BY <1>5 DEF Reuses
    <3>2. qa[clip].outcome # "none" BY <1>1, <1>2, <3>1 DEF QAShape
    <3> QED BY <1>2, <3>1, <3>2 DEF Run
  <2>4. j \in Job /\ j.pc = "heard" /\ j.for = for /\ j.attempt = attempt /\ j.heard = qa[clip].outcome
    BY <1>2, <2>1, <2>3 DEF Job, Pc, Evaluating
  <2>5. JobShape(j)' BY <2>2, <2>3, <2>4 DEF JobShape, Judges, Making, Evaluating
  <2>6. QAShape' BY <1>1, <2>2, QAStill DEF qaVars
  <2>7. Shape' BY <1>1, <1>3, <2>2, <2>4, <2>5, <2>6, OneMoves
  <2>8. Books'
    <3>1. \A c \in Clip, a \in Agent : Silent(c, a)' => Silent(c, a) BY <2>2 DEF Silent
    <3> QED BY <1>1, <2>2, <2>4, <3>1, BooksKept
  <2>9. ~overlapped' => SoloRows' /\ Busy(j)'
    <3>1. ~overlapped' => SoloRows' BY <1>4, <2>2 DEF SoloRows, Latest, Complete
    <3>2. ~overlapped' => Busy(j)'
      BY <2>2, <2>3, <2>4 DEF Busy, Judges, Making, Evaluating, Latest, Complete
    <3> QED BY <3>1, <3>2
  <2>10. Solo' BY <1>1, <2>2, <2>4, <2>9, SoloKept
  <2> QED BY <2>7, <2>8, <2>10 DEF RepairInv
<1>6. CASE ~Reuses /\ Conflicts(key)
  <2>1. PICK j : j = Idle OBVIOUS
  <2>2. worker' = [worker EXCEPT ![w] = j] /\ UNCHANGED <<qa, order>> BY <1>6, <2>1 DEF Evaluate, Leave
  <2>3. j \in Job /\ j.pc = "idle" BY <2>1, IdleIsAJob
  <2>4. JobShape(j)' /\ Busy(j)' BY <2>3 DEF JobShape, Busy, Judges, Making, Evaluating
  <2>5. QAShape' BY <1>1, <2>2, QAStill DEF qaVars
  <2>6. Shape' BY <1>1, <1>3, <2>2, <2>3, <2>4, <2>5, OneMoves
  <2>7. Books'
    <3>1. \A c \in Clip, a \in Agent : Silent(c, a)' => Silent(c, a) BY <2>2 DEF Silent
    <3> QED BY <1>1, <2>2, <2>3, <3>1, BooksKept
  <2>8. ~overlapped' => SoloRows' BY <1>4, <2>2 DEF SoloRows, Latest, Complete
  <2>9. Solo' BY <1>1, <2>2, <2>3, <2>4, <2>8, SoloKept
  <2> QED BY <2>6, <2>7, <2>9 DEF RepairInv
<1>7. CASE ~Reuses /\ ~Conflicts(key)
  <2>1. PICK j : j = [worker[w] EXCEPT !.pc = "asking", !.for = for, !.attempt = attempt, !.clip = clip,
                                       !.heard = "none"]
    OBVIOUS
  <2>2. worker' = [worker EXCEPT ![w] = j] BY <1>7, <2>1 DEF Evaluate
  <2>3. j \in Job /\ j.pc = "asking" /\ j.for = for /\ j.attempt = attempt /\ j.clip = clip
    <3>1. clip \in Nat BY <1>2, QAAssumption DEF Clip
    <3>2. "asking" \in Pc BY DEF Pc, Evaluating
    <3>3. /\ j.pc = "asking" /\ j.for = for /\ j.attempt = attempt /\ j.clip = clip /\ j.heard = "none"
          /\ j.token = worker[w].token
      BY <1>2, <2>1 DEF Job
    <3> QED BY <1>2, <2>1, <3>1, <3>2, <3>3 DEF Job
  <2>4. PICK r : /\ r \in Run /\ r.status = "open" /\ r.first = qa[clip].first /\ r.second = qa[clip].second
                 /\ qa' = [qa EXCEPT ![clip] = r]
                 /\ \/ qa[clip].status # "none" /\ order' = order
                    \/ qa[clip].status = "none" /\ order' = Append(order, clip)
    <3>1. CASE qa[clip].status = "none"
      <4>1. PICK r : r = [qa[clip] EXCEPT !.status = "open", !.key = key] OBVIOUS
      <4>2. r \in Run /\ r.status = "open" /\ r.first = qa[clip].first /\ r.second = qa[clip].second
        BY <1>2, <4>1 DEF Run
      <4>3. qa' = [qa EXCEPT ![clip] = r] /\ order' = Append(order, clip) BY <1>7, <3>1, <4>1 DEF Evaluate
      <4> QED BY <3>1, <4>2, <4>3
    <3>2. CASE qa[clip].status # "none"
      <4>1. PICK r : r = [qa[clip] EXCEPT !.status = "open"] OBVIOUS
      <4>2. r \in Run /\ r.status = "open" /\ r.first = qa[clip].first /\ r.second = qa[clip].second
        BY <1>2, <4>1 DEF Run
      <4>3. qa' = [qa EXCEPT ![clip] = r] /\ order' = order BY <1>7, <3>2, <4>1 DEF Evaluate
      <4> QED BY <3>2, <4>2, <4>3
    <3> QED BY <3>1, <3>2
  <2>5. qa' \in [Clip -> Run] /\ qa'[clip] = r /\ \A d \in Clip \ {clip} : qa'[d] = qa[d] BY <1>1, <1>2, <2>4 DEF QAShape
  <2>6. JobShape(j)' BY <1>2, <2>3, <2>4, <2>5 DEF JobShape, Judges, Making, Evaluating
  <2>7. QAShape'
    <3>1. order \in Seq(Clip) BY <1>1 DEF QAShape
    <3>2. DOMAIN order = 1..Len(order) /\ Len(order) \in Nat /\ \A i \in DOMAIN order : order[i] \in Clip
      BY <3>1, LenProperties, ElementOfSeq
    <3>3. /\ order' \in Seq(Clip)
          /\ \A i \in DOMAIN order' : qa'[order'[i]].status # "none"
          /\ \A i, k \in DOMAIN order' : order'[i] = order'[k] => i = k
      <4>1. CASE order' = order BY <1>1, <2>4, <2>5, <3>2, <4>1 DEF QAShape
      <4>2. CASE qa[clip].status = "none" /\ order' = Append(order, clip)
        <5>1. /\ order' \in Seq(Clip) /\ Len(order') = Len(order) + 1
              /\ \A i \in 1..Len(order) : order'[i] = order[i]
              /\ order'[Len(order) + 1] = clip
          BY <1>2, <3>1, <4>2, AppendProperties
        <5>2. DOMAIN order' = 1..(Len(order) + 1) BY <5>1, LenProperties
        <5>3. \A i \in DOMAIN order : order[i] # clip BY <1>1, <4>2 DEF QAShape
        <5>4. \A i \in DOMAIN order' : i \in DOMAIN order \/ i = Len(order) + 1 BY <3>2, <5>2
        <5>5. \A i \in DOMAIN order' : qa'[order'[i]].status # "none" BY <1>1, <2>4, <2>5, <3>2, <5>1, <5>4 DEF QAShape
        <5>6. \A i, k \in DOMAIN order' : order'[i] = order'[k] => i = k BY <1>1, <3>2, <5>1, <5>3, <5>4 DEF QAShape
        <5> QED BY <5>1, <5>5, <5>6
      <4> QED BY <2>4, <4>1, <4>2
    <3>4. \A d \in Clip : qa'[d].status = "complete" => qa'[d].outcome # "none" BY <1>1, <2>4, <2>5 DEF QAShape, Complete
    <3> QED BY <1>1, <2>5, <3>3, <3>4 DEF QAShape, Complete
  <2>8. Shape'
    <3>1. \A d \in Clip : qa[d].status # "none" => qa'[d].status # "none" BY <2>4, <2>5
    <3> QED BY <1>1, <1>3, <2>2, <2>3, <2>6, <2>7, <3>1, OneMoves
  <2>9. Books'
    <3>1. \A c \in Clip, a \in Agent : Silent(c, a)' => Silent(c, a) BY <2>4, <2>5 DEF Silent
    <3> QED BY <1>1, <2>2, <2>3, <3>1, BooksKept
  <2>10. ~overlapped' => SoloRows' /\ Busy(j)'
    <3>1. ~overlapped' => SoloRows' BY <1>4 DEF SoloRows, Latest, Terminal
    <3>2. ~overlapped' => Busy(j)'
      BY <2>3, <2>4, <2>5 DEF Busy, Judges, Making, Evaluating, Latest, Complete
    <3> QED BY <3>1, <3>2
  <2>11. Solo' BY <1>1, <2>2, <2>3, <2>10, SoloKept
  <2> QED BY <2>8, <2>9, <2>11 DEF RepairInv
<1> QED BY <1>5, <1>6, <1>7

\* An evaluation goes on: the row it works on and the execution move together.
LEMMA Examines ==
  ASSUME RepairInv, NEW w \in Worker, NEW j \in Job, worker' = [worker EXCEPT ![w] = j],
         worker[w].pc \in {"asking", "asked"},
         NEW r \in Run, qa' = [qa EXCEPT ![worker[w].clip] = r],
         r.status # "none", r.status = "complete" => r.outcome # "none",
         j.pc \in {"idle", "asking", "asked", "heard"},
         j.pc # "idle" => j.for = worker[w].for /\ j.attempt = worker[w].attempt,
         j.pc \in {"asking", "asked"} => j.clip = worker[w].clip /\ r.status = qa[worker[w].clip].status,
         j.pc = "asked" => j.heard \in Agent,
         j.pc = "heard" => j.heard \in Outcome /\ r.status = "complete" /\ r.outcome = j.heard,
         UNCHANGED <<clip, order, approved, overlapped, run, attempts, remote>>,
         bought' \in [Clip -> [Agent -> Nat]], faults' \in 0..MaxFaults
  PROVE  Shape' /\ Solo'
<1>1. Shape /\ Solo /\ QAShape /\ RunShape BY DEF RepairInv, Shape
<1>2. PICK c : c = worker[w].clip OBVIOUS
<1>3. worker[w] \in Job /\ JobShape(worker[w]) BY <1>1, JobKnown
<1>4. c \in Clip /\ qa[c].status # "none" /\ worker[w].for \in {"stage", "repair"}
  BY <1>2, <1>3 DEF JobShape, Evaluating
<1>5. qa' = [qa EXCEPT ![c] = r] BY <1>2
<1>6. qa'[c] = r /\ \A d \in Clip \ {c} : qa'[d] = qa[d] BY <1>1, <1>4, <1>5 DEF QAShape
<1>7. JobShape(j)'
  <2>1. Judges(j) => Judges(worker[w]) BY DEF Judges, Evaluating
  <2>2. j.pc \notin Making /\ j.pc # "loop" BY DEF Making
  <2>3. Judges(worker[w]) => run.state # "none" /\ worker[w].attempt \in DOMAIN attempts BY <1>3 DEF JobShape
  <2>4. Judges(j) => j.attempt = worker[w].attempt BY DEF Judges, Evaluating
  <2>5. j.pc \in Evaluating => j.for \in {"stage", "repair"} BY <1>4 DEF Evaluating
  <2>6. j.pc \in {"asking", "asked"} => j.clip \in Clip /\ qa'[j.clip].status # "none" BY <1>2, <1>4, <1>6
  <2> QED BY <2>1, <2>2, <2>3, <2>4, <2>5, <2>6 DEF JobShape, Judges
<1>8. Shape'
  <2>1. QAShape'
    <3>1. overlapped' \in BOOLEAN BY <1>1 DEF QAShape
    <3> QED BY <1>1, <1>4, <1>5, <3>1, Judged
  <2>2. RunShape' BY <1>1, RunStill
  <2>3. \A d \in Clip : qa[d].status # "none" => qa'[d].status # "none" BY <1>6
  <2> QED BY <1>1, <1>7, <2>1, <2>2, <2>3, OneMoves
<1>9. ~overlapped' => SoloRows' /\ Busy(j)'
  <2> SUFFICES ASSUME ~overlapped' PROVE SoloRows' /\ Busy(j)' OBVIOUS
  <2>1. SoloRows /\ Busy(worker[w]) BY <1>1 DEF Solo
  <2>2. c = clip BY <1>2, <2>1 DEF Busy
  <2>3. Judges(worker[w]) =>
          worker[w].attempt = Latest /\ attempts[worker[w].attempt].status = "revalidating"
          /\ worker[w].attempt \in DOMAIN attempts
    BY <1>3, <2>1 DEF Busy, JobShape
  <2>4. worker[w].for = "stage" => run.state = "none" BY <2>1 DEF Busy, Evaluating
  <2>5. run.state \notin Terminal
    <3>1. worker[w].for = "repair" => Judges(worker[w]) BY DEF Judges, Evaluating
    <3>2. worker[w].for = "repair" => run.state = "working" BY <2>1, <2>3, <3>1 DEF SoloRows
    <3> QED BY <1>4, <2>4, <3>2 DEF Terminal
  <2>6. SoloRows' BY <2>1, <2>5 DEF SoloRows, Latest, Terminal
  <2>7. qa[clip].status = "open" BY <2>1 DEF Busy
  <2>8. Busy(j)'
    <3>1. Judges(j) => Judges(worker[w]) /\ j.attempt = worker[w].attempt BY DEF Judges, Evaluating
    <3>2. j.pc \notin Making /\ j.pc # "loop" /\ j.pc # "produced" BY DEF Making
    <3>3. j.pc \in Evaluating /\ j.for = "stage" => worker[w].for = "stage" BY DEF Evaluating
    <3>4. j.pc \in {"asking", "asked"} => j.clip = clip /\ qa'[clip].status = "open" BY <1>2, <1>6, <2>2, <2>7, <1>4
    <3>5. j.pc = "heard" => qa'[clip].status = "complete" /\ qa'[clip].outcome = j.heard BY <1>4, <1>6, <2>2
    <3> QED BY <2>3, <2>4, <3>1, <3>2, <3>3, <3>4, <3>5 DEF Busy, Latest, Complete
  <2> QED BY <2>6, <2>8
<1>10. Solo'
  <2>1. worker[w].pc # "idle" /\ (~overlapped' => ~overlapped) OBVIOUS
  <2>2. ~overlapped' => ~overlapped /\ (worker[w].pc = "idle" => Alone(w)) /\ SoloRows' /\ Busy(j)' BY <1>9, <2>1
  <2> QED BY <1>1, <2>2, SoloKept
<1> QED BY <1>8, <1>10

-----------------------------------------------------------------------------
(* The steps. *)

LEMMA Goes ==
  ASSUME Shape, NEW w \in Worker, NEW pc \in Pc, Goto(w, pc)
  PROVE  \E j \in Job : /\ worker' = [worker EXCEPT ![w] = j] /\ j.pc = pc
                        /\ j.for = worker[w].for /\ j.attempt = worker[w].attempt
                        /\ j.clip = worker[w].clip /\ j.heard = worker[w].heard
<1>1. PICK j : j = [worker[w] EXCEPT !.pc = pc] OBVIOUS
<1>2. worker[w] \in Job BY JobKnown
<1>3. j \in Job /\ j.pc = pc /\ j.for = worker[w].for /\ j.attempt = worker[w].attempt
      /\ j.clip = worker[w].clip /\ j.heard = worker[w].heard
  BY <1>1, <1>2 DEF Job
<1>4. worker' = [worker EXCEPT ![w] = j] BY <1>1 DEF Goto
<1> QED BY <1>3, <1>4

LEMMA Enters ==
  ASSUME Shape, NEW w \in Worker, Enter(w)
  PROVE  /\ worker[w].pc = "idle" /\ overlapped' \in BOOLEAN /\ faults' \in 0..MaxFaults
         /\ faults' = faults + 1 \/ (faults' = faults /\ Alone(w))
         /\ ~overlapped' => ~overlapped /\ Alone(w)
<1>1. faults \in 0..MaxFaults /\ overlapped \in BOOLEAN /\ MaxFaults \in Nat BY QAAssumption DEF Shape, QAShape
<1>2. CASE Alone(w) BY <1>1, <1>2 DEF Enter
<1>3. CASE ~Alone(w) BY <1>1, <1>3 DEF Enter, Fault
<1> QED BY <1>2, <1>3

LEMMA Faults ==
  ASSUME Shape
  PROVE  /\ faults \in 0..MaxFaults
         /\ Fault => faults' \in 0..MaxFaults /\ faults' = faults + 1
BY QAAssumption DEF Shape, QAShape, Fault

LEMMA StartQAStep ==
  ASSUME RepairInv, NEW w \in Worker, StartQA(w)
  PROVE  RepairInv'
<1>1. Shape BY DEF RepairInv
<1>2. /\ worker[w].pc = "idle" /\ overlapped' \in BOOLEAN /\ faults' \in 0..MaxFaults
      /\ faults' = faults + 1 \/ (faults' = faults /\ Alone(w))
      /\ ~overlapped' => ~overlapped /\ Alone(w)
  BY <1>1, Enters DEF StartQA
<1>3. run.state = "none" /\ Evaluate(w, 0, "stage", 0)
      /\ UNCHANGED <<clip, approved, bought, run, attempts, remote>>
  BY DEF StartQA, repairVars
<1> HIDE DEF RepairInv, Shape
<1> QED BY <1>2, <1>3, Evaluates

LEMMA StartRepairStep ==
  ASSUME RepairInv, NEW w \in Worker, StartRepair(w)
  PROVE  RepairInv'
<1>1. Shape /\ Books /\ Solo /\ QAShape /\ RunShape BY DEF RepairInv, Shape
<1>2. /\ worker[w].pc = "idle" /\ overlapped' \in BOOLEAN /\ faults' \in 0..MaxFaults
      /\ faults' = faults + 1 \/ (faults' = faults /\ Alone(w))
      /\ ~overlapped' => ~overlapped /\ Alone(w)
  BY <1>1, Enters DEF StartRepair
<1>3. UNCHANGED <<qa, order, clip, approved, bought, attempts, remote>> BY DEF StartRepair
<1>4. worker[w] \in Job /\ run \in RepairRun BY <1>1, JobKnown DEF RunShape
<1>5. QAShape' BY <1>1, <1>2, <1>3, QAStill DEF qaVars
<1>6. ASSUME NEW j \in Job, worker' = [worker EXCEPT ![w] = j], j.pc \in {"loop", "revalidate"}, RunShape',
             run.state # "none" => run'.state # "none", run'.state = "working",
             j.pc = "revalidate" => j.attempt \in DOMAIN attempts,
             ~overlapped' => SoloRows' /\ Busy(j)'
      PROVE  RepairInv'
  <2>1. JobShape(j)' BY <1>3, <1>6 DEF JobShape, Judges, Making, Evaluating
  <2>2. Shape' BY <1>1, <1>3, <1>5, <1>6, <2>1, OneMoves
  <2>3. Books'
    <3>1. \A c \in Clip, a \in Agent : Silent(c, a)' => Silent(c, a) BY <1>3 DEF Silent
    <3>2. worker[w].pc # "asked" /\ j.pc # "asked" BY <1>2, <1>6
    <3> QED BY <1>1, <1>2, <1>3, <1>6, <3>1, <3>2, BooksKept
  <2>4. Solo' BY <1>1, <1>2, <1>6, SoloKept
  <2> QED BY <2>2, <2>3, <2>4 DEF RepairInv
<1>7. CASE run.state = "none" /\ run' # run
  <2>1. PICK policy \in Policy :
          run' = [NoRun EXCEPT !.state = "working", !.token = 1, !.root = clip, !.policy = policy]
    BY <1>7 DEF StartRepair
  <2>2. PICK j : j = [worker[w] EXCEPT !.pc = "loop", !.token = 1] OBVIOUS
  <2>3. worker' = [worker EXCEPT ![w] = j] BY <1>7, <2>2 DEF StartRepair
  <2>4. j \in Job /\ j.pc = "loop" BY <1>4, <2>2 DEF Job, Pc
  <2>5. clip \in Clip /\ policy \in [Kind -> Nat] BY <1>1, RepairAssumption DEF QAShape
  <2>6. run' \in RepairRun /\ run'.state = "working" /\ run'.policy = policy /\ run'.root = clip
        /\ run'.selected = 0
    <3>1. run'.state = "working" /\ run'.token = 1 /\ run'.root = clip /\ run'.policy = policy
          /\ run'.cancel = FALSE /\ run'.selected = 0
          /\ run' = [state |-> run'.state, token |-> run'.token, cancel |-> run'.cancel, root |-> run'.root,
                     selected |-> run'.selected, policy |-> run'.policy]
      BY <2>1 DEF NoRun
    <3>2. clip \in 0..MaxClips BY <2>5, QAAssumption DEF Clip
    <3>3. run'.state \in {"none", "working"} \cup Terminal /\ run'.token \in Nat /\ run'.cancel \in BOOLEAN
          /\ run'.root \in 0..MaxClips /\ run'.selected \in Nat /\ run'.policy \in [Kind -> Nat]
      <4>1. run'.state \in {"none", "working"} \cup Terminal BY <3>1
      <4>2. run'.token \in Nat /\ run'.selected \in Nat BY <3>1
      <4>3. run'.cancel \in BOOLEAN BY <3>1
      <4>4. run'.root \in 0..MaxClips BY <3>1, <3>2
      <4>5. run'.policy \in [Kind -> Nat] BY <2>5, <3>1
      <4> QED BY <4>1, <4>2, <4>3, <4>4, <4>5
    <3>4. run' \in RepairRun BY <3>1, <3>3 DEF RepairRun
    <3> QED BY <3>1, <3>4
  <2>7. attempts = <<>> BY <1>1, <1>7 DEF RunShape
  <2>8. DOMAIN attempts = {} BY <2>7
  <2>9. \A kind \in Kind : Spent(kind)' = 0
    <3>1. ASSUME NEW kind \in Kind PROVE {k \in DOMAIN attempts' : attempts'[k].kind = kind} = {}
      BY <1>3, <2>8
    <3> QED BY <3>1, FS_EmptySet DEF Spent
  <2>10. RunShape'
    <3>1. \A kind \in Kind : Spent(kind)' <= run'.policy[kind] BY <2>5, <2>6, <2>9
    <3>2. run'.selected \in 0..Len(attempts') BY <1>3, <2>6, <2>7
    <3> QED BY <1>1, <1>3, <2>1, <2>5, <2>6, <3>1, <3>2 DEF RunShape
  <2>11. SoloRows' BY <1>3, <2>6, <2>8 DEF SoloRows
  <2>12. Busy(j)' BY <1>3, <2>4, <2>6, <2>8 DEF Busy, Making, Evaluating, Judges, Settled
  <2> QED BY <1>6, <1>7, <2>3, <2>4, <2>6, <2>10, <2>11, <2>12
<1>8. CASE run.state = "working" /\ run' = run
  <2>1. RunShape' BY <1>1, <1>3, <1>8, RunStill
  <2>2. ~overlapped' => SoloRows' BY <1>1, <1>2, <1>3, <1>8 DEF Solo, SoloRows, Latest, Complete
  <2>3. DOMAIN attempts = 1..Latest /\ Latest \in Nat BY <1>1, Rows
  <2>4. CASE ~Interrupted /\ worker' = [worker EXCEPT ![w].pc = "loop", ![w].token = run.token]
    <3>1. PICK j : j = [worker[w] EXCEPT !.pc = "loop", !.token = run.token] OBVIOUS
    <3>2. worker' = [worker EXCEPT ![w] = j] BY <2>4, <3>1
    <3>3. j \in Job /\ j.pc = "loop" BY <1>4, <3>1 DEF Job, Pc, RepairRun
    <3>4. ~overlapped => Settled
      <4>1. ASSUME ~overlapped, NEW k \in DOMAIN attempts, attempts[k].status = "revalidating" PROVE FALSE
        <5>1. k = Latest /\ attempts[k].clip = clip /\ ~attempts[k].judged BY <1>1, <4>1 DEF Solo, SoloRows
        <5>2. clip # 0 /\ Latest > 0 BY <1>1, <2>3, <4>1, <5>1, QAAssumption DEF QAShape, Clip
        <5> QED BY <2>4, <4>1, <5>1, <5>2 DEF Interrupted
      <4> QED BY <4>1 DEF Settled
    <3>5. ~overlapped' => Busy(j)'
      BY <1>2, <1>3, <1>8, <3>3, <3>4 DEF Busy, Making, Evaluating, Judges, Settled
    <3> QED BY <1>6, <1>8, <2>1, <2>2, <3>2, <3>3, <3>5
  <2>5. CASE /\ Interrupted
             /\ worker' = [worker EXCEPT ![w].pc = "revalidate", ![w].attempt = Latest, ![w].token = run.token]
    <3>1. PICK j : j = [worker[w] EXCEPT !.pc = "revalidate", !.attempt = Latest, !.token = run.token] OBVIOUS
    <3>2. worker' = [worker EXCEPT ![w] = j] BY <2>5, <3>1
    <3>3. j \in Job /\ j.pc = "revalidate" /\ j.attempt = Latest BY <1>4, <2>3, <3>1 DEF Job, Pc, RepairRun
    <3>4. Latest \in DOMAIN attempts /\ attempts[Latest].status = "revalidating" BY <2>3, <2>5 DEF Interrupted
    <3>5. Busy(j)' BY <1>3, <3>3, <3>4 DEF Busy, Making, Evaluating, Judges, Latest
    <3> QED BY <1>6, <1>8, <2>1, <2>2, <3>2, <3>3, <3>4, <3>5
  <2> QED BY <1>8, <2>4, <2>5 DEF StartRepair
<1>9. (run.state = "none" /\ run' # run) \/ (run.state = "working" /\ run' = run)
  BY DEF StartRepair, NoRun
<1> QED BY <1>7, <1>8, <1>9

\* Another clip is selected.
LEMMA Reselected ==
  ASSUME QAShape, clip' \in Clip, UNCHANGED <<qa, order, approved, bought, overlapped, faults>>
  PROVE  QAShape'
BY DEF QAShape, Complete

\* A new attempt, of a kind the policy still allows.
LEMMA Added ==
  ASSUME RunShape, NEW b \in Attempt, Spent(b.kind) < run.policy[b.kind], attempts' = Append(attempts, b),
         run' \in RepairRun, run.state # "none", run'.state # "none", run'.policy = run.policy,
         run'.root = run.root, run'.selected = run.selected, UNCHANGED remote
  PROVE  /\ RunShape'
         /\ Latest' = Latest + 1 /\ DOMAIN attempts' = 1..(Latest + 1) /\ attempts'[Latest + 1] = b
         /\ \A i \in DOMAIN attempts : attempts'[i] = attempts[i]
<1>1. Latest \in Nat /\ DOMAIN attempts = 1..Latest /\ attempts \in Seq(Attempt) BY Rows DEF RunShape
<1>2. /\ attempts' \in Seq(Attempt) /\ Latest' = Latest + 1 /\ attempts' # <<>>
      /\ \A i \in DOMAIN attempts : attempts'[i] = attempts[i]
      /\ attempts'[Latest + 1] = b
  BY <1>1, AppendProperties DEF Latest
<1>3. DOMAIN attempts' = 1..(Latest + 1) BY <1>2, LenProperties DEF Latest
<1>4. ASSUME NEW kind \in Kind PROVE Spent(kind)' <= run'.policy[kind]
  <2>1. PICK S : S = {k \in DOMAIN attempts : attempts[k].kind = kind} OBVIOUS
  <2>2. IsFiniteSet(DOMAIN attempts)
    <3>1. Latest \in Int /\ 1 \in Int BY <1>1
    <3>2. IsFiniteSet(1..Latest) BY <3>1, FS_Interval
    <3> QED BY <1>1, <3>2
  <2>3. IsFiniteSet(S) BY <2>1, <2>2, FS_Subset
  <2>4. Spent(kind) = Cardinality(S) /\ Cardinality(S) \in Nat BY <2>1, <2>3, FS_CardinalityType DEF Spent
  <2>5. Cardinality(S) <= run.policy[kind] BY <2>4 DEF RunShape
  <2>6. Latest + 1 \notin S BY <1>1, <2>1
  <2>7. {k \in DOMAIN attempts' : attempts'[k].kind = kind} = IF b.kind = kind THEN S \cup {Latest + 1} ELSE S
    BY <1>1, <1>2, <1>3, <2>1
  <2>8. Cardinality(S \cup {Latest + 1}) = Cardinality(S) + 1 BY <2>3, <2>6, FS_AddElement
  <2>9. run.policy[kind] \in Nat BY DEF RunShape, RepairRun
  <2>10. b.kind = kind => Cardinality(S) < run.policy[kind] BY <2>4
  <2>11. Spent(kind)' = Cardinality(IF b.kind = kind THEN S \cup {Latest + 1} ELSE S) BY <2>7 DEF Spent
  <2> QED BY <2>4, <2>5, <2>8, <2>9, <2>10, <2>11
<1>5. run'.policy \in Policy /\ run'.root \in Clip BY DEF RunShape
<1>6. run'.selected \in 0..Len(attempts') BY <1>1, <1>2 DEF RunShape, Latest
<1>7. \A k \in Ordinal \ DOMAIN attempts' : remote'[k] = "none"
  <2>1. \A k \in Ordinal \ DOMAIN attempts' : k \in Ordinal \ DOMAIN attempts BY <1>1, <1>3
  <2> QED BY <2>1 DEF RunShape
<1> QED BY <1>2, <1>3, <1>4, <1>5, <1>6, <1>7 DEF RunShape

LEMMA ClaimSteps ==
  ASSUME RepairInv, NEW w \in Worker, LosesClaim(w) \/ Resume(w) \/ Review(w) \/ Plan(w)
  PROVE  RepairInv'
<1>1. Shape /\ Books /\ Solo /\ QAShape /\ RunShape BY DEF RepairInv, Shape
<1>2. worker[w].pc = "loop" BY DEF LosesClaim, Resume, Review, Plan, Claims
<1>3. worker[w] \in Job /\ run.state # "none" /\ run \in RepairRun
  <2>1. worker[w] \in Job /\ JobShape(worker[w]) BY <1>1, JobKnown
  <2> QED BY <1>1, <1>2, <2>1 DEF JobShape, RunShape
<1>4. run.token + 1 \in Nat BY <1>3 DEF RepairRun
<1>5. ~overlapped => SoloRows /\ Settled /\ run.state = "working" BY <1>1, <1>2 DEF Solo, Busy
<1>6. Latest \in Nat /\ DOMAIN attempts = 1..Latest /\ \A k \in 1..Latest : attempts[k] \in Attempt BY <1>1, Rows
<1>7. faults \in 0..MaxFaults BY <1>1, Faults
<1>8. ASSUME NEW j \in Job, worker' = [worker EXCEPT ![w] = j], j.pc \in {"idle", "polling", "execute"},
             QAShape', RunShape', run'.state # "none", DOMAIN attempts \subseteq DOMAIN attempts',
             UNCHANGED <<qa, bought, overlapped, faults>>,
             j.pc # "idle" => j.attempt \in DOMAIN attempts',
             ~overlapped => SoloRows' /\ Busy(j)'
      PROVE  RepairInv'
  <2>1. JobShape(j)' BY <1>8 DEF JobShape, Judges, Making, Evaluating
  <2>2. Shape' BY <1>1, <1>8, <2>1, OneMoves
  <2>3. Books'
    <3>1. \A c \in Clip, a \in Agent : Silent(c, a)' => Silent(c, a) BY <1>8 DEF Silent
    <3> QED BY <1>1, <1>2, <1>8, <3>1, BooksKept
  <2>4. Solo'
    <3>1. ~overlapped' => ~overlapped /\ (worker[w].pc = "idle" => Alone(w)) /\ SoloRows' /\ Busy(j)' BY <1>2, <1>8
    <3> QED BY <1>1, <1>8, <3>1, SoloKept
  <2> QED BY <2>2, <2>3, <2>4 DEF RepairInv
<1>9. CASE LosesClaim(w)
  <2>1. /\ worker[w].pc # "idle" /\ worker[w].pc # "asked" /\ Leave(w)
        /\ UNCHANGED <<qaVars, overlapped, faults, run, attempts, remote>>
    BY <1>2, <1>9 DEF LosesClaim, repairVars
  <2> QED BY <1>7, <2>1, Leaves
<1>10. ASSUME NEW state \in {"working", "HUMAN_REVIEW_REQUIRED"}, Advance(state)
       PROVE  /\ run' \in RepairRun /\ run'.state = state /\ run'.policy = run.policy /\ run'.root = run.root
              /\ run'.selected = run.selected
  BY <1>3, <1>4, <1>10 DEF Advance, RepairRun, Terminal
<1>11. CASE Resume(w)
  <2>1. run' \in RepairRun /\ run'.state = "working" /\ run'.policy = run.policy /\ run'.root = run.root
        /\ run'.selected = run.selected
    BY <1>10, <1>11 DEF Resume
  <2>2. UNCHANGED <<qaVars, overlapped, faults, attempts, remote>> BY <1>11 DEF Resume
  <2>3. UNCHANGED <<clip, qa, order, approved, bought>> BY <2>2 DEF qaVars
  <2>4. PICK j : j = [worker[w] EXCEPT !.pc = "polling", !.attempt = Latest, !.token = run.token + 1] OBVIOUS
  <2>5. worker' = [worker EXCEPT ![w] = j] BY <1>11, <2>4 DEF Resume
  <2>6. j \in Job /\ j.pc = "polling" /\ j.attempt = Latest BY <1>3, <1>4, <1>6, <2>4 DEF Job, Pc, Making
  <2>7. Latest \in DOMAIN attempts /\ attempts[Latest].status \notin Over
    BY <1>6, <1>11 DEF Resume, Resumable, Over
  <2>8. QAShape' BY <1>1, <2>2, <1>7, QAStill DEF QAShape
  <2>9. RunShape'
    <3>1. run'.selected \in 0..Latest BY <1>1, <2>1 DEF RunShape, Latest
    <3> QED BY <1>1, <1>3, <2>1, <2>2, <3>1, Redirected
  <2>10. ~overlapped => SoloRows' /\ Busy(j)'
    <3> SUFFICES ASSUME ~overlapped PROVE SoloRows' /\ Busy(j)' OBVIOUS
    <3>1. SoloRows' BY <1>5, <2>1, <2>2, <2>3 DEF SoloRows, Latest, Settled
    <3>2. ~attempts[Latest].judged BY <1>5, <2>7 DEF SoloRows
    <3>3. Settled' BY <1>5, <2>2 DEF Settled
    <3> QED BY <2>1, <2>2, <2>6, <3>1, <3>2, <3>3 DEF Busy, Making, Evaluating, Judges, Latest
  <2> QED BY <1>8, <2>1, <2>2, <2>3, <2>5, <2>6, <2>7, <2>8, <2>9, <2>10
<1>12. CASE Review(w)
  <2>1. run' \in RepairRun /\ run'.state = "HUMAN_REVIEW_REQUIRED" /\ run'.policy = run.policy
        /\ run'.root = run.root /\ run'.selected = run.selected
    BY <1>10, <1>12 DEF Review
  <2>2. UNCHANGED <<qa, order, approved, bought, overlapped, faults, attempts, remote>> /\ clip' = run.root
    BY <1>12 DEF Review, Restored
  <2>3. PICK j : j = Idle OBVIOUS
  <2>4. worker' = [worker EXCEPT ![w] = j] /\ j \in Job /\ j.pc = "idle"
    BY <1>12, <2>3, IdleIsAJob DEF Review, Leave
  <2>5. QAShape'
    <3>1. run.root \in Clip BY <1>1, <1>3 DEF RunShape
    <3> QED BY <1>1, <2>2, <3>1, Reselected
  <2>6. RunShape'
    <3>1. run'.selected \in 0..Latest BY <1>1, <2>1 DEF RunShape, Latest
    <3> QED BY <1>1, <1>3, <2>1, <2>2, <3>1, Redirected
  <2>7. ~overlapped => SoloRows'
    <3>1. ~overlapped => \A k \in DOMAIN attempts : attempts[k].status # "revalidating" BY <1>5 DEF Settled
    <3> QED BY <1>5, <2>1, <2>2, <3>1 DEF SoloRows, Latest
  <2>8. Busy(j)' BY <2>4 DEF Busy, Making, Evaluating, Judges
  <2> QED BY <1>8, <2>1, <2>2, <2>4, <2>5, <2>6, <2>7, <2>8
<1>13. CASE Plan(w)
  <2>1. run' \in RepairRun /\ run'.state = "working" /\ run'.policy = run.policy /\ run'.root = run.root
        /\ run'.selected = run.selected
    BY <1>10, <1>13 DEF Plan
  <2>2. UNCHANGED <<qaVars, overlapped, faults, remote>> BY <1>13 DEF Plan
  <2>3. UNCHANGED <<clip, qa, order, approved, bought>> BY <2>2 DEF qaVars
  <2>4. PICK kind : kind = NextKind OBVIOUS
  <2>5. kind \in Kind /\ Spent(kind) < run.policy[kind]
    <3>1. kind # "none" BY <1>13, <2>4 DEF Plan
    <3>2. \/ kind = "same" /\ Spent("same") < run.policy["same"]
          \/ kind = "alternate" /\ Spent("alternate") < run.policy["alternate"]
          \/ kind = "fallback" /\ Spent("fallback") < run.policy["fallback"]
      BY <2>4, <3>1 DEF NextKind
    <3> QED BY <3>2 DEF Kind, Paid
  <2>6. PICK b : b = [kind |-> kind, status |-> "planned", operation |-> FALSE, ambiguous |-> FALSE,
                      done |-> FALSE, clip |-> 0, judged |-> FALSE]
    OBVIOUS
  <2>7. b \in Attempt /\ b.kind = kind /\ b.status = "planned" /\ ~b.judged
    <3>1. 0 \in 0..MaxClips /\ "planned" \in AttemptStatus BY QAAssumption DEF AttemptStatus
    <3> QED BY <2>5, <2>6, <3>1 DEF Attempt
  <2>8. attempts' = Append(attempts, b) BY <1>13, <2>4, <2>6 DEF Plan
  <2>9. /\ RunShape'
        /\ Latest' = Latest + 1 /\ DOMAIN attempts' = 1..(Latest + 1) /\ attempts'[Latest + 1] = b
        /\ \A i \in DOMAIN attempts : attempts'[i] = attempts[i]
    <3>1. Spent(b.kind) < run.policy[b.kind] BY <2>5, <2>7
    <3> QED BY <1>1, <1>3, <2>1, <2>2, <2>7, <2>8, <3>1, Added
  <2>10. PICK j : j = [worker[w] EXCEPT !.pc = "execute", !.attempt = Latest + 1, !.token = run.token + 1] OBVIOUS
  <2>11. worker' = [worker EXCEPT ![w] = j] BY <1>13, <2>10 DEF Plan
  <2>12. j \in Job /\ j.pc = "execute" /\ j.attempt = Latest + 1
    <3>1. Latest + 1 \in Nat /\ "execute" \in Pc BY <1>6 DEF Pc, Making
    <3> QED BY <1>3, <1>4, <2>10, <3>1 DEF Job
  <2>13. QAShape' BY <1>1, <2>2, <1>7, QAStill DEF QAShape
  <2>14. ~overlapped => SoloRows' /\ Busy(j)'
    <3> SUFFICES ASSUME ~overlapped PROVE SoloRows' /\ Busy(j)' OBVIOUS
    <3>1. \A i \in DOMAIN attempts' : i \in DOMAIN attempts \/ i = Latest + 1 BY <1>6, <2>9
    <3>2. Settled' BY <1>5, <2>7, <2>9, <3>1 DEF Settled
    <3>3. \A i \in DOMAIN attempts' : attempts'[i].judged => attempts'[i].status \in Over
      BY <1>5, <2>7, <2>9, <3>1 DEF SoloRows
    <3>4. SoloRows' BY <2>1, <3>2, <3>3 DEF SoloRows, Settled
    <3> QED BY <2>1, <2>7, <2>9, <2>12, <3>2, <3>4 DEF Busy, Making, Evaluating, Judges
  <2>15. DOMAIN attempts \subseteq DOMAIN attempts' /\ j.attempt \in DOMAIN attempts' BY <1>6, <2>9, <2>12
  <2> QED BY <1>8, <2>1, <2>2, <2>3, <2>9, <2>11, <2>12, <2>13, <2>14, <2>15
<1> QED BY <1>9, <1>11, <1>12, <1>13

\* The steps of an attempt that leave the clips alone.
LEMMA AttemptSteps ==
  ASSUME RepairInv, NEW w \in Worker,
         AttemptFails(w) \/ Submit(w) \/ Submitted(w) \/ Unanswered(w) \/ Polled(w) \/ WindowExpires(w)
         \/ Produced(w) \/ Rejected(w)
  PROVE  RepairInv'
<1>1. Shape /\ RunShape BY DEF RepairInv, Shape
<1>2. worker[w] \in Job /\ JobShape(worker[w]) BY <1>1, JobKnown
<1>3. worker[w].pc \in Making \cup {"heard"} /\ (Judges(worker[w]) \/ worker[w].pc \in Making)
  BY DEF AttemptFails, Submit, Submitted, Unanswered, Polled, WindowExpires, Produced, Rejected, Making, Judges,
     Evaluating
<1>4. PICK k : k = At(w) OBVIOUS
<1>5. k \in DOMAIN attempts /\ run.state # "none" BY <1>2, <1>3, <1>4 DEF JobShape, At
<1>6. PICK a : a = attempts[k] OBVIOUS
<1>7. a \in Attempt BY <1>1, <1>5, <1>6, Rows
<1>8. faults \in 0..MaxFaults /\ (Fault => faults' \in 0..MaxFaults /\ faults' = faults + 1) BY <1>1, Faults
<1>9. UNCHANGED <<qaVars, overlapped, remote>>
  BY DEF AttemptFails, Submit, Submitted, Unanswered, Polled, WindowExpires, Produced, Rejected
<1>10. run' = run \/ run' = [run EXCEPT !.state = "working"]
  BY DEF AttemptFails, Submit, Submitted, Unanswered, Polled, WindowExpires, Produced, Rejected
<1>11. ASSUME NEW j \in Job, worker' = [worker EXCEPT ![w] = j], NEW b \in Attempt,
              attempts' = [attempts EXCEPT ![k] = b], Onward(worker[w].pc, j, a, b),
              j.pc # "idle" => j.attempt = worker[w].attempt,
              faults' \in 0..MaxFaults, faults' = faults \/ faults' = faults + 1
       PROVE  RepairInv'
  <2>1. Onward(worker[w].pc, j, attempts[At(w)], b) BY <1>4, <1>6, <1>11
  <2>2. attempts' = [attempts EXCEPT ![At(w)] = b] BY <1>4, <1>11
  <2>3. j.pc # "idle" => j.attempt = At(w) BY <1>11 DEF At
  <2> QED BY <1>3, <1>9, <1>10, <1>11, <2>1, <2>2, <2>3, AttemptMoves
<1>12. ASSUME NEW pc \in Pc, Goto(w, pc)
       PROVE  \E j \in Job : worker' = [worker EXCEPT ![w] = j] /\ j.pc = pc /\ j.attempt = worker[w].attempt
  <2>1. PICK j \in Job : /\ worker' = [worker EXCEPT ![w] = j] /\ j.pc = pc
                         /\ j.for = worker[w].for /\ j.attempt = worker[w].attempt
                         /\ j.clip = worker[w].clip /\ j.heard = worker[w].heard
    BY <1>1, <1>12, Goes
  <2> QED BY <2>1
\* Only its status changes.
<1>13. ASSUME NEW status \in AttemptStatus, attempts' = Mark(w, status)
       PROVE  \E b \in Attempt : /\ attempts' = [attempts EXCEPT ![k] = b] /\ b.kind = a.kind /\ b.clip = a.clip
                                 /\ b.status = status /\ b.judged = a.judged
  <2>1. PICK b : b = [a EXCEPT !.status = status] OBVIOUS
  <2>2. b \in Attempt /\ b.kind = a.kind /\ b.clip = a.clip /\ b.status = status /\ b.judged = a.judged
    BY <1>7, <2>1 DEF Attempt
  <2>3. attempts' = [attempts EXCEPT ![k] = b] BY <1>4, <1>6, <1>13, <2>1 DEF Mark
  <2> QED BY <2>2, <2>3
<1>14. {"planned", "submitted", "polling", "downloading", "revalidating", "failed", "passed"} \subseteq AttemptStatus
       /\ {"idle", "loop", "revalidate", "called", "polling", "downloading"} \subseteq Pc
  BY DEF AttemptStatus, Over, Pc, Making
<1>15. CASE AttemptFails(w)
  <2>1. PICK j \in Job : worker' = [worker EXCEPT ![w] = j] /\ j.pc = "loop" /\ j.attempt = worker[w].attempt
    BY <1>12, <1>14, <1>15 DEF AttemptFails
  <2>2. PICK b \in Attempt : /\ attempts' = [attempts EXCEPT ![k] = b] /\ b.kind = a.kind /\ b.clip = a.clip
                             /\ b.status = "failed" /\ b.judged = a.judged
    BY <1>13, <1>14, <1>15 DEF AttemptFails
  <2>3. faults' = faults BY <1>15 DEF AttemptFails
  <2> QED BY <1>8, <1>11, <2>1, <2>2, <2>3 DEF Making, Over, Onward
<1>16. CASE Submit(w)
  <2>1. PICK j \in Job : worker' = [worker EXCEPT ![w] = j] /\ j.pc = "called" /\ j.attempt = worker[w].attempt
    BY <1>12, <1>14, <1>16 DEF Submit
  <2>2. PICK b \in Attempt : /\ attempts' = [attempts EXCEPT ![k] = b] /\ b.kind = a.kind /\ b.clip = a.clip
                             /\ b.status = "submitted" /\ b.judged = a.judged
    BY <1>13, <1>14, <1>16 DEF Submit
  <2>3. faults' = faults /\ worker[w].pc = "execute" BY <1>16 DEF Submit
  <2> QED BY <1>8, <1>11, <2>1, <2>2, <2>3 DEF Making, Onward
<1>17. CASE Produced(w)
  <2>1. PICK j \in Job : worker' = [worker EXCEPT ![w] = j] /\ j.pc = "revalidate" /\ j.attempt = worker[w].attempt
    BY <1>12, <1>14, <1>17 DEF Produced
  <2>2. PICK b \in Attempt : /\ attempts' = [attempts EXCEPT ![k] = b] /\ b.kind = a.kind /\ b.clip = a.clip
                             /\ b.status = "revalidating" /\ b.judged = a.judged
    BY <1>13, <1>14, <1>17 DEF Produced
  <2>3. faults' = faults /\ worker[w].pc = "produced" BY <1>17 DEF Produced
  <2> QED BY <1>8, <1>11, <2>1, <2>2, <2>3 DEF Making, Onward
<1>18. ASSUME NEW b, b = [a EXCEPT !.operation = TRUE] \/ b = [a EXCEPT !.ambiguous = TRUE]
       PROVE  b \in Attempt /\ b.kind = a.kind /\ b.clip = a.clip /\ b.status = a.status /\ b.judged = a.judged
  BY <1>7, <1>18 DEF Attempt
<1>19. CASE Submitted(w)
  <2>1. PICK j \in Job : worker' = [worker EXCEPT ![w] = j] /\ j.pc = "polling" /\ j.attempt = worker[w].attempt
    BY <1>12, <1>14, <1>19 DEF Submitted
  <2>2. PICK b : b = [a EXCEPT !.operation = TRUE] OBVIOUS
  <2>3. b \in Attempt /\ b.kind = a.kind /\ b.clip = a.clip /\ b.status = a.status /\ b.judged = a.judged
    BY <1>18, <2>2
  <2>4. attempts' = [attempts EXCEPT ![k] = b] BY <1>4, <1>6, <1>19, <2>2 DEF Submitted
  <2>5. faults' = faults /\ worker[w].pc = "called" BY <1>19 DEF Submitted
  <2> QED BY <1>8, <1>11, <2>1, <2>3, <2>4, <2>5 DEF Making, Onward
<1>20. CASE Unanswered(w)
  <2>1. faults' \in 0..MaxFaults /\ faults' = faults + 1 /\ worker[w].pc = "called" BY <1>8, <1>20 DEF Unanswered
  <2>2. PICK b : b = [a EXCEPT !.ambiguous = TRUE] OBVIOUS
  <2>3. b \in Attempt /\ b.kind = a.kind /\ b.clip = a.clip /\ b.status = a.status /\ b.judged = a.judged
    BY <1>18, <2>2
  <2>4. PICK unknown : unknown = [attempts EXCEPT ![k] = b] OBVIOUS
  <2>5. unknown = [attempts EXCEPT ![At(w)].ambiguous = TRUE] BY <1>4, <1>6, <2>2, <2>4
  <2>6. CASE Leave(w) /\ attempts' = unknown
    <3>1. PICK j : j = Idle OBVIOUS
    <3>2. j \in Job /\ j.pc = "idle" /\ worker' = [worker EXCEPT ![w] = j] BY <2>6, <3>1, IdleIsAJob DEF Leave
    <3> QED BY <1>11, <2>1, <2>3, <2>4, <2>6, <3>2 DEF Making, Onward
  <2>7. CASE Goto(w, "loop") /\ attempts' = [unknown EXCEPT ![At(w)].status = "failed"]
    <3>1. PICK j \in Job : worker' = [worker EXCEPT ![w] = j] /\ j.pc = "loop" /\ j.attempt = worker[w].attempt
      BY <1>12, <1>14, <2>7
    <3>2. PICK d : d = [b EXCEPT !.status = "failed"] OBVIOUS
    <3>3. d \in Attempt /\ d.kind = a.kind /\ d.clip = a.clip /\ d.status = "failed" BY <1>14, <2>3, <3>2 DEF Attempt
    <3>4. attempts' = [attempts EXCEPT ![k] = d] BY <1>4, <1>5, <2>4, <2>7, <3>2
    <3> QED BY <1>11, <2>1, <3>1, <3>3, <3>4 DEF Making, Over, Onward
  <2> QED BY <1>20, <2>5, <2>6, <2>7 DEF Unanswered
<1>21. CASE Polled(w)
  <2>1. PICK j \in Job : worker' = [worker EXCEPT ![w] = j] /\ j.pc = "downloading" /\ j.attempt = worker[w].attempt
    BY <1>12, <1>14, <1>21 DEF Polled
  <2>2. PICK v : v = (a.kind = "alternate") OBVIOUS
  <2>3. PICK b : b = [a EXCEPT !.status = "downloading", !.done = v] OBVIOUS
  <2>4. b \in Attempt /\ b.kind = a.kind /\ b.clip = a.clip /\ b.status = "downloading" /\ b.judged = a.judged
    <3>1. v \in BOOLEAN BY <2>2
    <3> QED BY <1>7, <1>14, <2>3, <3>1 DEF Attempt
  <2>5. attempts' = [attempts EXCEPT ![k] = b] BY <1>4, <1>6, <1>21, <2>2, <2>3 DEF Polled
  <2>6. faults' = faults /\ worker[w].pc = "polling" BY <1>21 DEF Polled
  <2> QED BY <1>8, <1>11, <2>1, <2>4, <2>5, <2>6 DEF Making, Onward
<1>22. CASE WindowExpires(w)
  <2>1. PICK j : j = Idle OBVIOUS
  <2>2. j \in Job /\ j.pc = "idle" /\ worker' = [worker EXCEPT ![w] = j]
    BY <1>22, <2>1, IdleIsAJob DEF Leave, WindowExpires
  <2>3. faults' = faults /\ worker[w].pc = "polling" BY <1>22 DEF WindowExpires
  <2>4. PICK b \in Attempt : /\ attempts' = [attempts EXCEPT ![k] = b] /\ b.kind = a.kind /\ b.clip = a.clip
                             /\ b.status \in {"polling", a.status} /\ b.judged = a.judged
    <3>1. CASE attempts' = Mark(w, "polling") BY <1>13, <1>14, <3>1
    <3>2. CASE attempts' = attempts
      <4>1. attempts' = [attempts EXCEPT ![k] = a] BY <1>1, <1>5, <1>6, <3>2, Rows DEF RunShape
      <4> QED BY <1>7, <4>1
    <3> QED BY <1>22, <3>1, <3>2 DEF WindowExpires
  <2> QED BY <1>8, <1>11, <2>2, <2>3, <2>4 DEF Making, Onward
<1>23. CASE Rejected(w)
  <2>1. PICK j \in Job : worker' = [worker EXCEPT ![w] = j] /\ j.pc = "loop" /\ j.attempt = worker[w].attempt
    BY <1>12, <1>14, <1>23 DEF Rejected
  <2>2. PICK b : b = [a EXCEPT !.status = "failed", !.judged = TRUE] OBVIOUS
  <2>3. b \in Attempt /\ b.kind = a.kind /\ b.clip = a.clip /\ b.status = "failed" BY <1>7, <1>14, <2>2 DEF Attempt
  <2>4. attempts' = [attempts EXCEPT ![k] = b] BY <1>4, <1>6, <1>23, <2>2 DEF Rejected
  <2>5. faults' = faults BY <1>23 DEF Rejected
  <2> QED BY <1>8, <1>11, <2>1, <2>3, <2>4, <2>5 DEF Making, Over, Onward
<1> QED BY <1>15, <1>16, <1>17, <1>19, <1>20, <1>21, <1>22, <1>23

LEMMA PersistStep ==
  ASSUME RepairInv, NEW w \in Worker, Persist(w)
  PROVE  RepairInv'
<1>1. Shape /\ Books /\ Solo /\ QAShape /\ RunShape BY DEF RepairInv, Shape
<1>2. worker[w].pc \in {"downloading", "execute"} /\ worker[w].pc \in Making BY DEF Persist, Making
<1>3. worker[w] \in Job /\ JobShape(worker[w]) BY <1>1, JobKnown
<1>4. PICK k : k = At(w) OBVIOUS
<1>5. k \in DOMAIN attempts /\ run.state # "none" /\ k = worker[w].attempt BY <1>2, <1>3, <1>4 DEF JobShape, At
<1>6. PICK a : a = attempts[k] OBVIOUS
<1>7. a \in Attempt BY <1>1, <1>5, <1>6, Rows
<1>8. UNCHANGED <<qa, order, approved, bought, overlapped, faults, run, remote>> BY DEF Persist
<1>9. CASE a.clip # 0
  <2>1. Leave(w) /\ UNCHANGED <<attempts, clip>> BY <1>4, <1>6, <1>9 DEF Persist
  <2>2. faults' \in 0..MaxFaults /\ faults' = faults BY <1>1, <1>8, Faults
  <2>3. worker[w].pc # "idle" /\ worker[w].pc # "asked" BY <1>2
  <2>4. UNCHANGED <<qaVars, overlapped, run, attempts, remote>> BY <1>8, <2>1 DEF qaVars
  <2> QED BY <2>1, <2>2, <2>3, <2>4, Leaves
<1>10. CASE a.clip = 0
  <2>1. PICK c : c = NextClip OBVIOUS
  <2>2. c \in Clip /\ clip' = c BY <1>1, <1>4, <1>5, <1>6, <1>10, <2>1, NextIsAClip DEF Persist
  <2>3. PICK b : b = [a EXCEPT !.clip = c] OBVIOUS
  <2>4. b \in Attempt /\ b.kind = a.kind /\ b.clip = c /\ b.status = a.status /\ b.judged = a.judged
    <3>1. c \in 0..MaxClips BY <2>2, QAAssumption DEF Clip
    <3> QED BY <1>7, <2>3, <3>1 DEF Attempt
  <2>5. attempts' = [attempts EXCEPT ![k] = b] BY <1>4, <1>6, <1>10, <2>1, <2>3 DEF Persist
  <2>6. PICK j \in Job : /\ worker' = [worker EXCEPT ![w] = j] /\ j.pc = "produced"
                         /\ j.for = worker[w].for /\ j.attempt = worker[w].attempt
                         /\ j.clip = worker[w].clip /\ j.heard = worker[w].heard
    <3>1. Goto(w, "produced") /\ "produced" \in Pc BY <1>4, <1>6, <1>10 DEF Persist, Pc, Making
    <3> QED BY <1>1, <3>1, Goes
  <2>7. /\ RunShape' /\ Latest' = Latest /\ DOMAIN attempts' = DOMAIN attempts /\ attempts'[k] = b
        /\ \A i \in DOMAIN attempts \ {k} : attempts'[i] = attempts[i]
    <3>1. run' \in RepairRun /\ run'.state # "none" /\ run'.policy = run.policy /\ run'.root = run.root
          /\ run'.selected \in 0..Latest
      BY <1>1, <1>5, <1>8 DEF RunShape, Latest
    <3> QED BY <1>1, <1>5, <1>6, <1>8, <2>4, <2>5, <3>1, Rewritten
  <2>8. QAShape' BY <1>1, <1>8, <2>2, Reselected
  <2>9. JobShape(j)' BY <1>5, <1>8, <2>6, <2>7 DEF JobShape, Judges, Making, Evaluating
  <2>10. Shape' BY <1>1, <1>8, <2>6, <2>7, <2>8, <2>9, OneMoves
  <2>11. Books'
    <3>1. \A d \in Clip, ag \in Agent : Silent(d, ag)' => Silent(d, ag) BY <1>8 DEF Silent
    <3> QED BY <1>1, <1>2, <1>8, <2>6, <3>1, BooksKept
  <2>12. ASSUME ~overlapped PROVE SoloRows' /\ Busy(j)'
    <3>1. SoloRows /\ Busy(worker[w]) BY <1>1, <2>12 DEF Solo
    <3>2. run.state = "working" /\ Settled /\ k = Latest /\ ~a.judged BY <1>2, <1>5, <1>6, <3>1 DEF Busy
    <3>3. Settled' BY <1>5, <1>6, <2>4, <2>7, <3>2 DEF Settled
    <3>4. \A i \in DOMAIN attempts' : attempts'[i].judged => attempts'[i].status \in Over
      BY <1>6, <2>4, <2>7, <3>1 DEF SoloRows
    <3>5. SoloRows' BY <1>8, <3>2, <3>3, <3>4 DEF SoloRows, Settled
    <3>6. Busy(j)' BY <1>5, <1>8, <2>2, <2>4, <2>6, <2>7, <3>2, <3>3 DEF Busy, Making, Evaluating, Judges
    <3> QED BY <3>5, <3>6
  <2>13. Solo'
    <3>1. ~overlapped' => ~overlapped /\ (worker[w].pc = "idle" => Alone(w)) /\ SoloRows' /\ Busy(j)'
      BY <1>2, <1>8, <2>12
    <3> QED BY <1>1, <2>6, <3>1, SoloKept
  <2> QED BY <2>10, <2>11, <2>13 DEF RepairInv
<1> QED BY <1>9, <1>10

LEMMA LockStep ==
  ASSUME RepairInv, NEW w \in Worker, Lock(w)
  PROVE  RepairInv'
<1>1. Shape /\ Books /\ Solo /\ QAShape /\ RunShape BY DEF RepairInv, Shape
<1>2. worker[w].pc = "heard" /\ worker[w].for = "repair" /\ worker[w].heard = "PASS" BY DEF Lock, Locks
<1>3. worker[w] \in Job /\ JobShape(worker[w]) /\ Judges(worker[w]) BY <1>1, <1>2, JobKnown DEF Judges, Evaluating
<1>4. PICK k : k = At(w) OBVIOUS
<1>5. k \in DOMAIN attempts /\ run.state # "none" /\ k = worker[w].attempt BY <1>3, <1>4 DEF JobShape, At
<1>6. PICK a : a = attempts[k] OBVIOUS
<1>7. a \in Attempt /\ Latest \in Nat /\ k \in 1..Latest BY <1>1, <1>5, <1>6, Rows
<1>8. UNCHANGED <<qaVars, overlapped, faults, remote>> BY DEF Lock
<1>9. UNCHANGED <<clip, qa, order, approved, bought>> BY <1>8 DEF qaVars
<1>10. PICK b : b = [a EXCEPT !.status = "passed", !.judged = TRUE] OBVIOUS
<1>11. b \in Attempt /\ b.kind = a.kind /\ b.clip = a.clip /\ b.status = "passed" /\ "passed" \in Over
  BY <1>7, <1>10 DEF Attempt, AttemptStatus, Over
<1>12. attempts' = [attempts EXCEPT ![k] = b] BY <1>4, <1>6, <1>10 DEF Lock
<1>13. run' \in RepairRun /\ run'.state = "LOCKED" /\ run'.policy = run.policy /\ run'.root = run.root
       /\ run'.selected = k /\ k # 0
  <2>1. run' = [run EXCEPT !.state = "LOCKED", !.selected = k] BY <1>4 DEF Lock
  <2>2. run \in RepairRun /\ k \in Nat /\ k # 0 BY <1>1, <1>7 DEF RunShape
  <2>3. "LOCKED" \in Terminal BY DEF Terminal
  <2> QED BY <2>1, <2>2, <2>3 DEF RepairRun
<1>14. /\ RunShape' /\ Latest' = Latest /\ DOMAIN attempts' = DOMAIN attempts /\ attempts'[k] = b
       /\ \A i \in DOMAIN attempts \ {k} : attempts'[i] = attempts[i]
  <2>1. run'.selected \in 0..Latest BY <1>7, <1>13
  <2> QED BY <1>1, <1>5, <1>6, <1>8, <1>11, <1>12, <1>13, <2>1, Rewritten
<1>15. PICK j : j = Idle OBVIOUS
<1>16. j \in Job /\ j.pc = "idle" /\ worker' = [worker EXCEPT ![w] = j] BY <1>15, IdleIsAJob DEF Lock, Leave
<1>17. JobShape(j)' /\ Busy(j)' BY <1>16 DEF JobShape, Busy, Making, Evaluating, Judges
<1>18. Shape'
  <2>1. QAShape' BY <1>1, <1>8, QAStill DEF QAShape
  <2> QED BY <1>1, <1>9, <1>13, <1>14, <1>16, <1>17, <2>1, OneMoves
<1>19. Books'
  <2>1. \A d \in Clip, ag \in Agent : Silent(d, ag)' => Silent(d, ag) BY <1>9 DEF Silent
  <2> QED BY <1>1, <1>2, <1>8, <1>9, <1>16, <2>1, BooksKept
<1>20. ASSUME ~overlapped PROVE SoloRows'
  <2>1. SoloRows /\ Busy(worker[w]) BY <1>1, <1>20 DEF Solo
  <2>2. k = Latest /\ a.status = "revalidating" BY <1>3, <1>5, <1>6, <2>1 DEF Busy
  <2>3. a.clip = clip BY <1>5, <1>6, <2>1, <2>2 DEF SoloRows
  <2>4. Complete(clip) /\ qa[clip].outcome = "PASS" BY <1>2, <2>1 DEF Busy
  <2>5. \A i \in DOMAIN attempts' :
          attempts'[i].status # "revalidating" /\ (attempts'[i].judged => attempts'[i].status \in Over)
    BY <1>11, <1>14, <2>1, <2>2 DEF SoloRows, Over
  <2> QED BY <1>9, <1>11, <1>13, <1>14, <2>3, <2>4, <2>5 DEF SoloRows, Complete
<1>21. Solo'
  <2>1. ~overlapped' => ~overlapped /\ (worker[w].pc = "idle" => Alone(w)) /\ SoloRows' /\ Busy(j)'
    BY <1>2, <1>8, <1>17, <1>20
  <2> QED BY <1>1, <1>16, <2>1, SoloKept
<1> QED BY <1>18, <1>19, <1>21 DEF RepairInv

\* The provider and the owner.
LEMMA OutsideSteps ==
  ASSUME RepairInv,
         (\E w \in Worker : Arrive(w)) \/ (\E k \in Ordinal : RemoteEnds(k)) \/ (\E c \in Clip : Overrule(c)) \/ Act
  PROVE  RepairInv'
<1>1. Shape /\ Books /\ Solo /\ QAShape /\ RunShape BY DEF RepairInv, Shape
<1>2. UNCHANGED <<clip, qa, order, bought, worker, overlapped, faults, attempts>>
  BY DEF Arrive, RemoteEnds, Overrule, Act, Approve, qaVars
<1>3. approved' \subseteq Clip
  BY <1>1 DEF Arrive, RemoteEnds, Overrule, Act, Approve, qaVars, QAShape
<1>4. QAShape' BY <1>1, <1>2, <1>3 DEF QAShape, Complete
<1>5. /\ run' \in RepairRun /\ run'.policy = run.policy /\ run'.root = run.root /\ run'.selected = run.selected
      /\ run'.state = run.state \/ (run.state = "HUMAN_REVIEW_REQUIRED" /\ run'.state = "working")
  BY <1>1 DEF Arrive, RemoteEnds, Overrule, Act, RunShape, RepairRun
<1>6. /\ remote' \in [Ordinal -> {"none", "running", "succeeded", "failed"}]
      /\ \A k \in Ordinal \ DOMAIN attempts : remote'[k] = "none"
  <2>1. CASE \E w \in Worker : Arrive(w)
    <3>1. PICK w \in Worker : Arrive(w) BY <2>1
    <3>2. worker[w].pc = "called" /\ remote' = [remote EXCEPT ![At(w)] = "running"] BY <3>1 DEF Arrive
    <3>3. JobShape(worker[w]) BY <1>1, JobKnown
    <3>4. At(w) \in DOMAIN attempts BY <3>2, <3>3 DEF JobShape, Making, At
    <3> QED BY <1>1, <3>2, <3>4 DEF RunShape
  <2>2. CASE \E k \in Ordinal : RemoteEnds(k)
    <3>1. PICK k \in Ordinal, end \in {"succeeded", "failed"} :
            remote[k] = "running" /\ remote' = [remote EXCEPT ![k] = end]
      BY <2>2 DEF RemoteEnds
    <3> QED BY <1>1, <3>1 DEF RunShape
  <2>3. CASE (\E c \in Clip : Overrule(c)) \/ Act BY <1>1, <2>3 DEF Overrule, Act, RunShape
  <2> QED BY <2>1, <2>2, <2>3
<1>7. RunShape'
  <2>1. \A kind \in Kind : Spent(kind)' = Spent(kind) BY <1>2 DEF Spent
  <2>2. run'.state = "none" <=> run.state = "none" BY <1>5
  <2> QED BY <1>1, <1>2, <1>5, <1>6, <2>1, <2>2 DEF RunShape
<1>8. Shape'
  <2>1. worker' \in [Worker -> Job] BY <1>1, <1>2 DEF Shape
  <2> QED BY <1>1, <1>2, <1>4, <1>5, <1>7, <2>1, ShapeKept
<1>9. Books'
  <2>1. \A c \in Clip, a \in Agent : Silent(c, a)' = Silent(c, a) BY <1>2 DEF Silent
  <2> QED BY <1>1, <1>2, <2>1, BooksStill
<1>10. Solo'
  <2> SUFFICES ASSUME ~overlapped'
               PROVE  (\A v, w \in AtWork' : v = w) /\ SoloRows' /\ \A w \in Worker : Busy(worker[w])'
    BY DEF Solo
  <2>1. /\ ~overlapped /\ (\A v, w \in AtWork : v = w) /\ SoloRows
        /\ \A w \in Worker : Busy(worker[w])
    BY <1>1, <1>2 DEF Solo
  <2>2. SoloRows' BY <1>2, <1>5, <2>1 DEF SoloRows, Latest, Complete
  <2>3. ASSUME NEW w \in Worker PROVE Busy(worker[w])'
    <3>1. Busy(worker[w]) /\ JobShape(worker[w]) BY <1>1, <2>1, JobKnown
    <3>2. UNCHANGED worker[w] BY <1>2
    <3>3. Judges(worker[w])' = Judges(worker[w]) BY <3>2 DEF Judges
    <3>4. Settled' = Settled /\ Latest' = Latest BY <1>2 DEF Settled, Latest
    <3>5. run.state = "HUMAN_REVIEW_REQUIRED" =>
            worker[w].pc # "loop" /\ worker[w].pc \notin Making /\ ~(worker[w].pc \in Evaluating /\ worker[w].for = "stage")
      BY <3>1 DEF Busy
    <3> QED BY <1>2, <1>5, <3>1, <3>2, <3>3, <3>4, <3>5 DEF Busy, Complete
  <2>4. AtWork' = AtWork BY <1>2 DEF AtWork
  <2> QED BY <2>1, <2>2, <2>3, <2>4
<1> QED BY <1>8, <1>9, <1>10 DEF RepairInv

LEMMA RevalidateStep ==
  ASSUME RepairInv, NEW w \in Worker, Revalidate(w)
  PROVE  RepairInv'
<1>1. Shape /\ Solo BY DEF RepairInv
<1>2. PICK k : k = At(w) OBVIOUS
<1>3. worker[w].pc = "revalidate" /\ Judges(worker[w]) BY DEF Revalidate, Judges
<1>4. worker[w] \in Job /\ JobShape(worker[w]) BY <1>1, JobKnown
<1>5. k \in Nat /\ k = worker[w].attempt BY <1>2, <1>4 DEF Job, At
<1>6. k \in DOMAIN attempts /\ run.state # "none" BY <1>3, <1>4, <1>5 DEF JobShape
<1>7. ~overlapped => k = Latest /\ attempts[k].status = "revalidating" BY <1>1, <1>3, <1>5 DEF Solo, Busy
<1>8. Evaluate(w, k, "repair", k) BY <1>2 DEF Revalidate
<1>9. UNCHANGED <<clip, approved, bought, run, attempts, remote, overlapped, faults>> BY DEF Revalidate, repairVars
<1>10. overlapped' \in BOOLEAN /\ faults' \in 0..MaxFaults BY <1>1, <1>9 DEF Shape, QAShape
<1> HIDE DEF RepairInv
<1> QED BY <1>3, <1>5, <1>6, <1>7, <1>8, <1>9, <1>10, Evaluates

\* What Resolved and NextAgent make of the answers that are in.
LEMMA AnswersDecide ==
  ASSUME NEW c \in Clip, qa[c] \in Run, NextAgent(c) = "none"
  PROVE  Resolved(c) \in Outcome
<1>1. qa[c].first # "none" BY DEF NextAgent
<1>2. Doubtful(c, qa[c].first) => qa[c].second # "none" BY <1>1 DEF NextAgent
<1>3. qa[c].first = "unsure" => qa[c].second # "none" BY <1>2 DEF Doubtful
<1>4. qa[c].first \in Answer \cup {"none"} /\ qa[c].second \in Answer \cup {"none"} BY DEF Run
<1> QED BY <1>1, <1>3, <1>4, QAAssumption DEF Resolved, Outcome

LEMMA NextAgentIsSilent ==
  ASSUME NEW c \in Clip, NextAgent(c) # "none"
  PROVE  NextAgent(c) \in Agent /\ Silent(c, NextAgent(c))
BY DEF NextAgent, Agent, Silent

LEMMA QASteps ==
  ASSUME RepairInv, NEW w \in Worker,
         Unusable(w) \/ Ask(w) \/ Answers(w) \/ Finalize(w) \/ Unheard(w), UNCHANGED repairVars
  PROVE  RepairInv'
<1>1. Shape /\ Books /\ Solo /\ QAShape BY DEF RepairInv, Shape
<1>2. worker[w].pc \in {"asking", "asked"} BY DEF Unusable, Ask, Answers, Finalize, Unheard
<1>3. PICK c : c = worker[w].clip OBVIOUS
<1>4. worker[w] \in Job /\ JobShape(worker[w]) BY <1>1, JobKnown
<1>5. c \in Clip /\ qa[c].status # "none" BY <1>2, <1>3, <1>4 DEF JobShape
<1>6. PICK q : q = qa[c] OBVIOUS
<1>7. q \in Run /\ (q.status = "complete" => q.outcome # "none") BY <1>1, <1>5, <1>6 DEF QAShape, Complete
<1>8. faults \in 0..MaxFaults /\ (Fault => faults' \in 0..MaxFaults /\ faults' = faults + 1) BY <1>1, Faults
<1>9. UNCHANGED <<clip, order, approved, overlapped, run, attempts, remote>>
  BY DEF Unusable, Ask, Answers, Finalize, Unheard, repairVars
<1>10. bought \in [Clip -> [Agent -> Nat]] BY <1>1 DEF QAShape
\* An evaluation is finished, with an outcome.
<1>11. ASSUME NEW outcome \in Outcome, Finished(w, c, outcome), UNCHANGED <<bought, faults>>, worker[w].pc = "asking"
       PROVE  RepairInv'
  <2>1. PICK r : r = [q EXCEPT !.status = "complete", !.outcome = outcome] OBVIOUS
  <2>2. r \in Run /\ r.status = "complete" /\ r.outcome = outcome /\ r.first = q.first /\ r.second = q.second
    BY <1>7, <2>1 DEF Run
  <2>3. qa' = [qa EXCEPT ![c] = r] BY <1>6, <1>11, <2>1 DEF Finished
  <2>4. PICK j : j = [worker[w] EXCEPT !.pc = "heard", !.heard = outcome, !.clip = 0] OBVIOUS
  <2>5. worker' = [worker EXCEPT ![w] = j] BY <1>11, <2>4 DEF Finished
  <2>6. j \in Job /\ j.pc = "heard" /\ j.heard = outcome /\ j.for = worker[w].for /\ j.attempt = worker[w].attempt
    BY <1>4, <2>4 DEF Job, Pc, Evaluating
  <2>7. outcome # "none" BY DEF Outcome
  <2>8. Shape' /\ Solo'
    <3>1. qa' = [qa EXCEPT ![worker[w].clip] = r] BY <1>3, <2>3
    <3>2. faults' \in 0..MaxFaults /\ bought' \in [Clip -> [Agent -> Nat]] BY <1>8, <1>10, <1>11
    <3> HIDE DEF RepairInv
    <3> QED BY <1>2, <1>9, <2>2, <2>5, <2>6, <2>7, <3>1, <3>2, Examines
  <2>9. Books'
    <3>1. \A d \in Clip, a \in Agent : Silent(d, a)' => Silent(d, a)
      BY <1>1, <1>5, <1>6, <2>2, <2>3 DEF Silent, QAShape
    <3> QED BY <1>1, <1>11, <2>5, <2>6, <3>1, BooksKept
  <2> QED BY <2>8, <2>9 DEF RepairInv
<1>12. CASE Unusable(w)
  <2>1. Finished(w, c, "HARD") /\ UNCHANGED <<bought, faults>> /\ worker[w].pc = "asking" BY <1>3, <1>12 DEF Unusable
  <2> QED BY <1>11, <2>1 DEF Outcome
<1>13. CASE Finalize(w)
  <2>1. PICK outcome : outcome = Resolved(c) OBVIOUS
  <2>2. Finished(w, c, outcome) /\ UNCHANGED <<bought, faults>> /\ worker[w].pc = "asking" /\ NextAgent(c) = "none"
    BY <1>3, <1>13, <2>1 DEF Finalize
  <2>3. outcome \in Outcome BY <1>5, <1>6, <1>7, <2>1, <2>2, AnswersDecide
  <2> QED BY <1>11, <2>2, <2>3
<1>14. CASE Ask(w)
  <2>1. PICK a : a = NextAgent(c) OBVIOUS
  <2>2. /\ worker[w].pc = "asking" /\ a # "none"
        /\ bought' = [bought EXCEPT ![c][a] = @ + 1]
        /\ UNCHANGED <<qa, faults>>
    BY <1>3, <1>14, <2>1 DEF Ask
  <2>3. a \in Agent /\ Silent(c, a) BY <1>5, <2>1, <2>2, NextAgentIsSilent
  <2>4. PICK j : j = [worker[w] EXCEPT !.pc = "asked", !.heard = a] OBVIOUS
  <2>5. worker' = [worker EXCEPT ![w] = j] BY <1>3, <1>14, <2>1, <2>4 DEF Ask
  <2>6. j \in Job /\ j.pc = "asked" /\ j.heard = a /\ j.for = worker[w].for /\ j.attempt = worker[w].attempt
        /\ j.clip = c
    BY <1>3, <1>4, <2>3, <2>4 DEF Job, Pc, Evaluating
  <2>7. bought' \in [Clip -> [Agent -> Nat]] BY <1>5, <1>10, <2>2, <2>3
  <2>8. Shape' /\ Solo'
    <3>1. qa' = [qa EXCEPT ![worker[w].clip] = q] BY <1>1, <1>3, <1>5, <1>6, <2>2 DEF QAShape
    <3>2. faults' \in 0..MaxFaults BY <1>8, <2>2
    <3>3. j.clip = worker[w].clip /\ q.status = qa[worker[w].clip].status /\ q.status # "none"
      BY <1>3, <1>5, <1>6, <2>6
    <3> HIDE DEF RepairInv
    <3> QED BY <1>2, <1>7, <1>9, <2>3, <2>5, <2>6, <2>7, <3>1, <3>2, <3>3, Examines
  <2>9. Books'
    <3>1. bought' = [bought EXCEPT ![j.clip][j.heard] = @ + 1] /\ j.clip \in Clip /\ j.heard \in Agent
          /\ Silent(j.clip, j.heard)
      BY <1>5, <2>2, <2>3, <2>6
    <3> QED BY <1>1, <2>2, <2>5, <2>6, <3>1, BooksAsked
  <2> QED BY <2>8, <2>9 DEF RepairInv
<1>15. CASE Answers(w)
  <2>1. PICK a : a = worker[w].heard OBVIOUS
  <2>2. worker[w].pc = "asked" /\ a \in Agent /\ UNCHANGED <<bought, faults>>
    BY <1>4, <1>15, <2>1 DEF Answers, JobShape
  <2>3. PICK answer \in Answer :
          qa' = [qa EXCEPT ![c] = IF a = "first" THEN [@ EXCEPT !.first = answer] ELSE [@ EXCEPT !.second = answer]]
    BY <1>3, <1>15, <2>1 DEF Answers
  <2>4. PICK r : r = IF a = "first" THEN [q EXCEPT !.first = answer] ELSE [q EXCEPT !.second = answer] OBVIOUS
  <2>5. answer # "none" BY QAAssumption
  <2>6. /\ r \in Run /\ r.status = q.status /\ r.outcome = q.outcome
        /\ r.first # q.first => a = "first"
        /\ r.second # q.second => a = "second"
        /\ a = "first" => r.first # "none"
        /\ a = "second" => r.second # "none"
    <3>1. CASE a = "first" BY <1>7, <2>4, <2>5, <3>1 DEF Run
    <3>2. CASE a = "second" BY <1>7, <2>4, <2>5, <3>2 DEF Run
    <3> QED BY <2>2, <3>1, <3>2 DEF Agent
  <2>7. qa' = [qa EXCEPT ![c] = r] BY <1>6, <2>3, <2>4
  <2>8. PICK j : j = [worker[w] EXCEPT !.pc = "asking", !.heard = "none"] OBVIOUS
  <2>9. worker' = [worker EXCEPT ![w] = j] BY <1>15, <2>8 DEF Answers
  <2>10. j \in Job /\ j.pc = "asking" /\ j.for = worker[w].for /\ j.attempt = worker[w].attempt /\ j.clip = c
    BY <1>3, <1>4, <2>8 DEF Job, Pc, Evaluating
  <2>11. Shape' /\ Solo'
    <3>1. qa' = [qa EXCEPT ![worker[w].clip] = r] BY <1>3, <2>7
    <3>2. faults' \in 0..MaxFaults /\ bought' \in [Clip -> [Agent -> Nat]] BY <1>8, <1>10, <2>2
    <3>3. j.clip = worker[w].clip /\ r.status = qa[worker[w].clip].status /\ r.status # "none"
          /\ (r.status = "complete" => r.outcome # "none")
      BY <1>3, <1>5, <1>6, <1>7, <2>6, <2>10
    <3> HIDE DEF RepairInv
    <3> QED BY <1>2, <1>9, <2>6, <2>9, <2>10, <3>1, <3>2, <3>3, Examines
  <2>12. Books'
    <3>1. qa'[c] = r /\ \A d \in Clip \ {c} : qa'[d] = qa[d] BY <1>1, <1>5, <2>7 DEF QAShape
    <3>2. ASSUME NEW d \in Clip, NEW ag \in Agent, Silent(d, ag)' PROVE Silent(d, ag) /\ ~(d = c /\ ag = a)
      BY <1>6, <2>6, <3>1, <3>2 DEF Silent, Agent
    <3> QED BY <1>1, <1>3, <2>1, <2>2, <2>9, <2>10, <3>2, BooksAnswered
  <2> QED BY <2>11, <2>12 DEF RepairInv
<1>16. CASE Unheard(w)
  <2>1. faults' \in 0..MaxFaults /\ faults' = faults + 1 /\ UNCHANGED bought BY <1>8, <1>16 DEF Unheard
  <2>2. PICK r : r = [q EXCEPT !.status = "failed"] OBVIOUS
  <2>3. r \in Run /\ r.status = "failed" /\ r.first = q.first /\ r.second = q.second BY <1>7, <2>2 DEF Run
  <2>4. qa' = [qa EXCEPT ![c] = r] BY <1>3, <1>6, <1>16, <2>2 DEF Unheard
  <2>5. PICK j : j = Idle OBVIOUS
  <2>6. j \in Job /\ j.pc = "idle" /\ worker' = [worker EXCEPT ![w] = j] BY <1>16, <2>5, IdleIsAJob DEF Unheard, Leave
  <2>7. Shape' /\ Solo'
    <3>1. qa' = [qa EXCEPT ![worker[w].clip] = r] BY <1>3, <2>4
    <3>2. bought' \in [Clip -> [Agent -> Nat]] BY <1>10, <2>1
    <3> HIDE DEF RepairInv
    <3> QED BY <1>2, <1>9, <2>1, <2>3, <2>6, <3>1, <3>2, Examines
  <2>8. Books'
    <3>1. \A d \in Clip, a \in Agent : Silent(d, a)' => Silent(d, a)
      BY <1>1, <1>5, <1>6, <2>3, <2>4 DEF Silent, QAShape
    <3> QED BY <1>1, <2>1, <2>6, <3>1, BooksKept
  <2> QED BY <2>7, <2>8 DEF RepairInv
<1> QED BY <1>12, <1>13, <1>14, <1>15, <1>16

-----------------------------------------------------------------------------
(* The theorems. *)

LEMMA InitHolds == Init => RepairInv
<1> SUFFICES ASSUME Init PROVE RepairInv OBVIOUS
<1> USE DEF Init, QAInit
<1>1. QAShape
  <2>1. Unrun \in Run /\ Unrun.status = "none" BY DEF Unrun, Run
  <2>2. qa \in [Clip -> Run] /\ \A c \in Clip : qa[c].status = "none" BY <2>1
  <2>3. order \in Seq(Clip) /\ DOMAIN order = {} BY EmptySeq
  <2>4. clip \in Clip /\ faults \in 0..MaxFaults BY QAAssumption DEF Clip
  <2>5. bought \in [Clip -> [Agent -> Nat]] OBVIOUS
  <2> QED BY <2>2, <2>3, <2>4, <2>5 DEF QAShape, Complete
<1>2. RunShape
  <2>1. run.state = "none" /\ run.selected = 0 /\ \A kind \in Kind : run.policy[kind] = 0 BY DEF NoRun
  <2>2. run \in RepairRun
    <3>1. PICK p : p = [kind \in Kind |-> 0] OBVIOUS
    <3>2. p \in [Kind -> Nat] BY <3>1
    <3>3. run = [state |-> "none", token |-> 0, cancel |-> FALSE, root |-> 0, selected |-> 0, policy |-> p]
      BY <3>1 DEF NoRun
    <3>4. 0 \in 0..MaxClips BY QAAssumption
    <3> QED BY <3>2, <3>3, <3>4 DEF RepairRun
  <2>3. attempts \in Seq(Attempt) /\ Len(attempts) = 0 /\ DOMAIN attempts = {} BY EmptySeq
  <2>4. \A kind \in Kind : Spent(kind) = 0
    <3>1. \A kind \in Kind : {k \in DOMAIN attempts : attempts[k].kind = kind} = {} BY <2>3
    <3> QED BY <3>1, FS_EmptySet DEF Spent
  <2> QED BY <2>1, <2>2, <2>3, <2>4 DEF RunShape
<1>3. \A w \in Worker : worker[w] = Idle OBVIOUS
<1>4. Shape BY <1>1, <1>2, <1>3, IdleIsAJob DEF Shape, JobShape, Making, Evaluating, Judges
<1>5. AtWork = {} BY <1>3, IdleIsAJob DEF AtWork
<1>6. Books
  <2>1. \A c \in Clip, a \in Agent : AtWork \ Waiting(c, a) = {} BY <1>5
  <2> QED BY <1>5, <2>1, FS_EmptySet DEF Books
<1>7. Solo
  <2>1. DOMAIN attempts = {} BY EmptySeq
  <2>2. SoloRows BY <2>1 DEF SoloRows, NoRun
  <2>3. \A w \in Worker : Busy(worker[w]) BY <1>3, IdleIsAJob DEF Busy, Making, Evaluating, Judges
  <2> QED BY <1>5, <2>2, <2>3 DEF Solo
<1> QED BY <1>4, <1>6, <1>7 DEF RepairInv

LEMMA Stutters == RepairInv /\ UNCHANGED vars => RepairInv'
<1> SUFFICES ASSUME RepairInv, UNCHANGED vars PROVE RepairInv' OBVIOUS
<1>1. UNCHANGED <<clip, qa, order, approved, bought, worker, overlapped, faults, run, attempts, remote>>
  BY DEF vars, qaVars, repairVars
<1>2. Shape /\ Books /\ Solo /\ QAShape /\ RunShape BY DEF RepairInv, Shape
<1>3. QAShape' BY <1>1, <1>2 DEF QAShape, Complete
<1>4. RunShape' BY <1>1, <1>2, RunStill
<1>5. Shape' BY <1>1, <1>2, <1>3, <1>4, ShapeKept DEF Shape
<1>6. Books'
  <2>1. \A c \in Clip, a \in Agent : Silent(c, a)' = Silent(c, a) BY <1>1 DEF Silent
  <2> QED BY <1>1, <1>2, <2>1, BooksStill
<1>7. Solo' BY <1>1, <1>2, SoloStill
<1> QED BY <1>5, <1>6, <1>7 DEF RepairInv

LEMMA CrashStep ==
  ASSUME RepairInv, NEW w \in Worker, Crash(w)
  PROVE  RepairInv'
<1>1. Shape BY DEF RepairInv
<1>2. faults' \in 0..MaxFaults /\ faults' = faults + 1 BY <1>1, Faults DEF Crash
<1>3. worker[w].pc # "idle" /\ Leave(w) /\ UNCHANGED <<qaVars, overlapped, run, attempts, remote>>
  BY DEF Crash, repairVars
<1> HIDE DEF RepairInv
<1> QED BY <1>2, <1>3, Leaves

LEMMA ReportStep ==
  ASSUME RepairInv, NEW w \in Worker, QAReported(w)
  PROVE  RepairInv'
<1>1. Shape BY DEF RepairInv
<1>2. faults' \in 0..MaxFaults /\ faults' = faults BY <1>1, Faults DEF QAReported
<1>3. worker[w].pc # "idle" /\ worker[w].pc # "asked" /\ Leave(w)
      /\ UNCHANGED <<qaVars, overlapped, run, attempts, remote>>
  BY DEF QAReported, repairVars
<1> HIDE DEF RepairInv
<1> QED BY <1>2, <1>3, Leaves

LEMMA StepHolds == RepairInv /\ [Next]_vars => RepairInv'
<1> SUFFICES ASSUME RepairInv, [Next]_vars PROVE RepairInv' OBVIOUS
<1> HIDE DEF RepairInv
<1>1. ASSUME NEW w \in Worker, Work(w) PROVE RepairInv'
  <2>1. CASE StartQA(w) BY <2>1, StartQAStep
  <2>2. CASE QAReported(w) BY <2>2, ReportStep
  <2>3. CASE StartRepair(w) BY <2>3, StartRepairStep
  <2>4. CASE LosesClaim(w) \/ Resume(w) \/ Review(w) \/ Plan(w) BY <2>4, ClaimSteps
  <2>5. CASE \/ AttemptFails(w) \/ Submit(w) \/ Submitted(w) \/ Unanswered(w) \/ Polled(w) \/ WindowExpires(w)
             \/ Produced(w) \/ Rejected(w)
    BY <2>5, AttemptSteps
  <2>6. CASE Arrive(w) BY <2>6, OutsideSteps
  <2>7. CASE Persist(w) BY <2>7, PersistStep
  <2>8. CASE Revalidate(w) BY <2>8, RevalidateStep
  <2>9. CASE Lock(w) BY <2>9, LockStep
  <2>10. CASE QAStep(w)
    <3>1. Unusable(w) \/ Ask(w) \/ Answers(w) \/ Finalize(w) \/ Unheard(w) BY <2>10 DEF QAStep
    <3>2. UNCHANGED repairVars BY <2>10 DEF QAStep
    <3> QED BY <3>1, <3>2, QASteps
  <2> QED BY <1>1, <2>1, <2>2, <2>3, <2>4, <2>5, <2>6, <2>7, <2>8, <2>9, <2>10 DEF Work
<1>2. ASSUME NEW w \in Worker, Crash(w) PROVE RepairInv' BY <1>2, CrashStep
<1>3. CASE (\E k \in Ordinal : RemoteEnds(k)) \/ (\E c \in Clip : Overrule(c)) \/ Act BY <1>3, OutsideSteps
<1>4. CASE UNCHANGED vars BY <1>4, Stutters
<1> QED BY <1>1, <1>2, <1>3, <1>4 DEF Next

\* Whatever the clips, workers, faults, policies and answers, the invariant holds of
\* every state the repair can reach.
THEOREM Invariance == FairSpec => []RepairInv
<1>1. Spec => []RepairInv
  <2>1. Init => RepairInv BY InitHolds
  <2>2. RepairInv /\ [Next]_vars => RepairInv' BY StepHolds
  <2> QED BY <2>1, <2>2, PTL DEF Spec
<1> QED BY <1>1, PTL DEF FairSpec

\* The rows stay of their types, an evaluation is created once per clip and a run
\* selects an attempt it has: what the code's columns and keys are declared to hold.
THEOREM TypeCorrect == FairSpec => []TypeOK
<1>1. RepairInv => TypeOK
  <2> SUFFICES ASSUME QAShape, RunShape PROVE TypeOK BY DEF RepairInv, Shape
  <2>1. Latest \in Nat /\ DOMAIN attempts = 1..Latest /\ \A k \in 1..Latest : attempts[k] \in Attempt BY Rows
  <2>2. Latest <= MaxClips /\ MaxClips \in Nat
    <3>1. CASE run.state = "none" BY <3>1, EmptySeq, QAAssumption DEF RunShape, Latest
    <3>2. CASE run.state # "none" BY <2>1, <3>2, RoomForClips
    <3> QED BY <3>1, <3>2
  <2>3. order \in UNION {[1..n -> Clip] : n \in 0..MaxClips}
    <3>1. order \in [1..Len(order) -> Clip] /\ Len(order) \in Nat /\ DOMAIN order = 1..Len(order)
      BY LenProperties DEF QAShape
    <3>2. PICK n \in Nat : n = Len(order) BY <3>1
    <3>3. order \in Injection(1..n, Clip) BY <3>1, <3>2 DEF QAShape, Injection, IsInjective
    <3>4. IsFiniteSet(1..n) /\ Cardinality(1..n) = n /\ IsFiniteSet(1..MaxClips) /\ Cardinality(1..MaxClips) = MaxClips
      <4>1. n \in Int /\ MaxClips \in Int /\ 1 \in Int BY <2>2, <3>2
      <4>2. IsFiniteSet(1..n) /\ Cardinality(1..n) = IF 1 > n THEN 0 ELSE n - 1 + 1 BY <4>1, FS_Interval
      <4>3. /\ IsFiniteSet(1..MaxClips)
            /\ Cardinality(1..MaxClips) = IF 1 > MaxClips THEN 0 ELSE MaxClips - 1 + 1
        BY <4>1, FS_Interval
      <4> QED BY <2>2, <3>2, <4>2, <4>3
    <3>5. Cardinality(1..n) <= Cardinality(1..MaxClips) BY <3>3, <3>4, FS_Injection DEF Clip
    <3>6. n \in 0..MaxClips BY <2>2, <3>2, <3>4, <3>5
    <3> QED BY <3>1, <3>2, <3>6
  <2>4. QAType BY <2>3 DEF QAType, QAShape
  <2> QED BY <2>1, <2>2, <2>4 DEF TypeOK, RunShape, RepairRun, Latest
<1> QED BY <1>1, Invariance, PTL

\* A locked shot shows the clip of the attempt it was locked on and that clip has
\* passed; a repair that gives up leaves the clip the shot had.
THEOREM EndsWhereItShould == FairSpec => []EndsOnItsClip
<1>1. RepairInv => EndsOnItsClip
  BY DEF RepairInv, Solo, SoloRows, EndsOnItsClip, LockedOnItsVerdict, OriginalRestored
<1> QED BY <1>1, Invariance, PTL

\* The policy bounds what the providers are paid for, and an agent is asked about a
\* clip again only after a failure.
THEOREM PaysAsAgreed == FairSpec => []PaidAsAgreed
<1>1. RepairInv => PaidAsAgreed
  <2> SUFFICES ASSUME Shape, Books PROVE PaidWithinPolicy /\ AskedOnce BY DEF RepairInv, PaidAsAgreed
  <2>1. AskedOnce BY DEF Books, AskedOnce
  <2>2. RunShape BY DEF Shape
  <2>3. ASSUME NEW kind \in Paid
        PROVE  Cardinality({k \in DOMAIN attempts \cap Ordinal : attempts[k].kind = kind /\ remote[k] # "none"})
                 <= run.policy[kind]
    <3>1. PICK S : S = {k \in DOMAIN attempts : attempts[k].kind = kind} OBVIOUS
    <3>2. PICK P : P = {k \in DOMAIN attempts \cap Ordinal : attempts[k].kind = kind /\ remote[k] # "none"} OBVIOUS
    <3>3. IsFiniteSet(DOMAIN attempts)
      <4>1. Latest \in Int /\ 1 \in Int /\ DOMAIN attempts = 1..Latest BY <2>2, Rows
      <4>2. IsFiniteSet(1..Latest) BY <4>1, FS_Interval
      <4> QED BY <4>1, <4>2
    <3>4. IsFiniteSet(S) BY <3>1, <3>3, FS_Subset
    <3>5. P \in SUBSET S BY <3>1, <3>2
    <3>6. Cardinality(P) <= Cardinality(S) /\ IsFiniteSet(P) BY <3>4, <3>5, FS_Subset
    <3>7. kind \in Kind BY DEF Kind
    <3>8. Cardinality(S) <= run.policy[kind] BY <2>2, <3>1, <3>7 DEF RunShape, Spent
    <3>9. Cardinality(S) \in Nat /\ Cardinality(P) \in Nat BY <3>4, <3>6, FS_CardinalityType
    <3>10. run.policy[kind] \in Nat BY <2>2, <3>7 DEF RunShape, RepairRun
    <3> QED BY <3>2, <3>6, <3>8, <3>9, <3>10
  <2>4. PaidWithinPolicy BY <2>3 DEF PaidWithinPolicy
  <2> QED BY <2>1, <2>4
<1> QED BY <1>1, Invariance, PTL

\* Unless executions overlap, a clip's verdict is given once.
THEOREM VerdictsStand == FairSpec => VerdictStays
<1> DEFINE Stands == \A c \in Clip : Complete(c) /\ ~overlapped => Complete(c)' /\ qa'[c].outcome = qa[c].outcome
<1>1. RepairInv /\ [Next]_vars => Stands
  <2> SUFFICES ASSUME RepairInv, [Next]_vars, ~overlapped PROVE Stands OBVIOUS
  <2>1. Shape /\ Solo /\ QAShape BY DEF RepairInv, Shape
  <2>2. CASE UNCHANGED qa BY <2>2 DEF Complete
\* Only a row that is not complete is rewritten.
  <2>3. ASSUME NEW d, ~Complete(d), \A c \in Clip \ {d} : qa'[c] = qa[c] PROVE Stands BY <2>3 DEF Complete
  <2>4. ASSUME NEW w \in Worker, Unusable(w) \/ Answers(w) \/ Finalize(w) \/ Unheard(w) PROVE Stands
    <3>1. worker[w].pc \in {"asking", "asked"} BY <2>4 DEF Unusable, Answers, Finalize, Unheard
    <3>2. PICK d : d = worker[w].clip OBVIOUS
    <3>3. ~Complete(d) BY <2>1, <3>1, <3>2 DEF Solo, Busy, Complete
    <3>4. \A c \in Clip \ {d} : qa'[c] = qa[c]
      BY <2>1, <2>4, <3>2 DEF Unusable, Answers, Finalize, Unheard, Finished, QAShape
    <3> QED BY <2>3, <3>3, <3>4
  <2>5. ASSUME NEW w \in Worker, NEW key, NEW for, NEW attempt, Evaluate(w, key, for, attempt) PROVE Stands
    <3>1. CASE Reuses \/ Conflicts(key) BY <2>2, <2>5, <3>1 DEF Evaluate
    <3>2. CASE ~Reuses /\ ~Conflicts(key)
      <4>1. PICK d : d = clip OBVIOUS
      <4>2. ~Complete(d) BY <3>2, <4>1 DEF Reuses
      <4>3. \A c \in Clip \ {d} : qa'[c] = qa[c] BY <2>1, <2>5, <3>2, <4>1 DEF Evaluate, QAShape
      <4> QED BY <2>3, <4>2, <4>3
    <3> QED BY <3>1, <3>2
  <2>6. CASE \E w \in Worker : StartQA(w) BY <2>5, <2>6 DEF StartQA
  <2>7. CASE \E w \in Worker : Revalidate(w) BY <2>5, <2>7 DEF Revalidate
  <2>8. CASE \E w \in Worker : QAStep(w)
    <3>1. PICK w \in Worker : QAStep(w) BY <2>8
    <3>2. CASE Ask(w) BY <2>2, <3>2 DEF Ask
    <3> QED BY <2>4, <3>1, <3>2 DEF QAStep
  <2>9. CASE \E w \in Worker : \/ QAReported(w) \/ StartRepair(w) \/ LosesClaim(w) \/ Resume(w) \/ Review(w) \/ Plan(w)
    <3>1. UNCHANGED qa BY <2>9 DEF QAReported, StartRepair, LosesClaim, Resume, Review, Plan, qaVars
    <3> QED BY <2>2, <3>1
  <2>10. CASE \E w \in Worker : \/ AttemptFails(w) \/ Submit(w) \/ Arrive(w) \/ Submitted(w) \/ Unanswered(w)
                                \/ Polled(w) \/ WindowExpires(w) \/ Persist(w) \/ Produced(w) \/ Lock(w)
                                \/ Rejected(w) \/ Crash(w)
    <3>1. UNCHANGED qa
      BY <2>10 DEF AttemptFails, Submit, Arrive, Submitted, Unanswered, Polled, WindowExpires, Persist, Produced,
                   Lock, Rejected, Crash, qaVars
    <3> QED BY <2>2, <3>1
  <2>11. CASE (\E k \in Ordinal : RemoteEnds(k)) \/ (\E c \in Clip : Overrule(c)) \/ Act \/ UNCHANGED vars
    <3>1. UNCHANGED qa BY <2>11 DEF RemoteEnds, Overrule, Approve, Act, vars, qaVars
    <3> QED BY <2>2, <3>1
  <2> HIDE DEF Stands
  <2>12. (\E w \in Worker : Work(w) \/ Crash(w)) \/ (\E k \in Ordinal : RemoteEnds(k)) \/ (\E c \in Clip : Overrule(c))
         \/ Act \/ UNCHANGED vars
    BY DEF Next
  <2> QED BY <2>6, <2>7, <2>8, <2>9, <2>10, <2>11, <2>12 DEF Work
<1>2. [][Next]_vars /\ []RepairInv => VerdictStays
  <2>1. RepairInv /\ [Next]_vars => [Stands]_vars BY <1>1
  <2> QED BY <2>1, PTL DEF VerdictStays
<1> QED BY <1>2, Invariance, PTL DEF FairSpec, Spec

-----------------------------------------------------------------------------
(* How a repair is decided (Triage): the cause, the route, the change.       *)

Triages == INSTANCE Triage

\* A set of numbers has a least.
LEMMA Least ==
  ASSUME NEW S \in SUBSET Nat, S # {}
  PROVE  \E m \in S : \A k \in S : m <= k
<1>1. \E m \in S : \A k \in S : ~(<<k, m>> \in OpToRel(<, Nat))
  BY WFMin, NatLessThanWellFounded, Zenon
<1>2. PICK m \in S : \A k \in S : ~(<<k, m>> \in OpToRel(<, Nat)) BY <1>1
<1>3. ASSUME NEW k \in S PROVE m <= k
  <2>1. k \in Nat /\ m \in Nat OBVIOUS
  <2>2. k < m => <<k, m>> \in OpToRel(<, Nat) BY <2>1, Zenon DEF OpToRel
  <2>3. ~(k < m) BY <1>2, <2>2
  <2> QED BY <2>1, <2>3
<1> QED BY <1>3

\* Causes as a classification has them: those that are hard are among those found.
Causes == {causes \in [hard: SUBSET Triages!Diagnosis, all: SUBSET Triages!Diagnosis] :
             causes.hard \subseteq causes.all /\ causes.all # {}}

\* The first cause by priority, of the hard ones if there are any.
LEMMA PrimaryIs ==
  ASSUME NEW causes \in Causes
  PROVE  /\ Triages!Primary(causes) \in Triages!Diagnosis
         /\ causes.hard # {} => Triages!Primary(causes) \in causes.hard
         /\ causes.hard \cap Triages!Unpayable # {} =>
              Triages!Primary(causes) \in DOMAIN Triages!Refusals \cup {"safety_rejection"}
<1> DEFINE ranked == IF causes.hard # {} THEN causes.hard ELSE causes.all
           S == {i \in 1..11 : Triages!Priority[i] \in ranked}
<1>1. Triages!Primary(causes) = Triages!Priority[CHOOSE x \in S : \A y \in S : x <= y]
  BY DEF Triages!Primary, Triages!Min, Triages!Priority
<1>2. Triages!Diagnosis = {Triages!Priority[i] : i \in 1..11}
  BY DEF Triages!Diagnosis, Triages!Range, Triages!Priority
<1>3. ranked \subseteq Triages!Diagnosis /\ ranked # {} BY DEF Causes
<1>4. S \in SUBSET Nat /\ S \subseteq 1..11 /\ S # {} BY <1>2, <1>3
<1> HIDE DEF S
<1>5. PICK x \in S : Triages!Primary(causes) = Triages!Priority[x] /\ \A y \in S : x <= y
  BY <1>1, <1>4, Least
<1>6. Triages!Primary(causes) \in ranked BY <1>5 DEF S
<1>7. ASSUME causes.hard \cap Triages!Unpayable # {}
      PROVE  Triages!Primary(causes) \in DOMAIN Triages!Refusals \cup {"safety_rejection"}
  <2>1. \E j \in {1, 2, 4, 5} : j \in S BY <1>7 DEF S, Triages!Unpayable, Triages!Priority
  <2>2. x \in 1..5 BY <1>4, <1>5, <2>1
  <2>3. Triages!Priority[x] \in {"corrupt_media", "unsupported_capability", "safety_rejection", "reference_conflict", "impossible_duration"}
    BY <2>2 DEF Triages!Priority
  <2> QED BY <1>5, <2>3 DEF Triages!Refusals
<1> QED BY <1>3, <1>6, <1>7

\* The dimensions of the rubric a finding may be about.
Rated == {"identity", "motion", "anatomy"}

\* What a classification is made of, for any result and whatever is known of the references.
LEMMA ClassifiedBy ==
  ASSUME NEW result, \A f \in result.shown : f.cause \in Rated,
         NEW context \in Triages!TriageContexts,
         Triages!Classification(result, context) # Triages!NoRepair
  PROVE  \E causes \in Causes : /\ Triages!Classification(result, context).primary = Triages!Primary(causes)
                                /\ Triages!Classification(result, context).hard = causes.hard
<1> DEFINE causes == Triages!Diagnostics(result, context)
<1>1. Triages!Diagnosis = {Triages!Priority[i] : i \in 1..11}
  BY DEF Triages!Diagnosis, Triages!Range, Triages!Priority
<1>2. /\ {"corrupt_media", "unsupported_capability", "safety_rejection", "reference_conflict"} \subseteq Triages!Diagnosis
      /\ {"impossible_duration", "identity", "action", "anatomy"} \subseteq Triages!Diagnosis
      /\ {"weak_motion", "overconstraint", "ambiguity"} \subseteq Triages!Diagnosis
  BY <1>1 DEF Triages!Priority
<1>3. ASSUME NEW code PROVE Triages!CauseOfCode(code) \in Triages!Diagnosis
  BY <1>2 DEF Triages!CauseOfCode
<1>4. ASSUME NEW f \in result.shown PROVE Triages!CauseOfFinding(f) \in Triages!Diagnosis
  BY <1>2, <1>3 DEF Triages!CauseOfFinding, Rated
<1>5. context.signals \subseteq Triages!Diagnosis BY <1>2 DEF Triages!TriageContexts, Triages!Signals
<1>6. Triages!Hard(result, context) \subseteq Triages!Diagnosis BY <1>2, <1>4, <1>5 DEF Triages!Hard
<1>7. Triages!Found(result, context) \subseteq Triages!Diagnosis /\ Triages!Hard(result, context) \subseteq Triages!Found(result, context)
  BY <1>4, <1>6 DEF Triages!Found
<1>8. causes \in [hard: SUBSET Triages!Diagnosis, all: SUBSET Triages!Diagnosis] /\ causes.hard \subseteq causes.all
  BY <1>3, <1>6, <1>7 DEF Triages!Diagnostics
<1>9. causes.all # {} BY DEF Triages!Classification
<1>10. causes \in Causes BY <1>8, <1>9 DEF Causes
<1>11. /\ Triages!Classification(result, context).primary = Triages!Primary(causes)
       /\ Triages!Classification(result, context).hard = causes.hard
  BY DEF Triages!Classification
<1> HIDE DEF causes
<1> QED BY <1>10, <1>11

\* What a route is decided upon: any counts of attempts the policy allows.
Decided == [same: 0..MaxSameProvider, alternate: 0..MaxAlternate, fallbacks: Nat, unpersisted: BOOLEAN,
            resumable: BOOLEAN, cancelled: BOOLEAN, ambiguous: BOOLEAN, available: BOOLEAN,
            eligible: BOOLEAN, allowed: BOOLEAN]

\* Under any policy and whatever the result, money goes to a generation only if no cause
\* that money cannot remove decides, nothing paid for is still to be had, the budget
\* allows it and an attempt is left.  (classify, next_route)
THEOREM RoutesArePaidFor ==
  ASSUME MaxSameProvider \in Nat, MaxAlternate \in Nat, NEW x \in Decided,
         NEW result, \A f \in result.shown : f.cause \in Rated, NEW context \in Triages!TriageContexts,
         Triages!Classification(result, context) # Triages!NoRepair
  PROVE  LET class == Triages!Classification(result, context)
         IN  Triages!RouteHolds(class, x, Triages!NextRoute(class.primary, x))
<1>0. PICK class : class = Triages!Classification(result, context) OBVIOUS
<1> SUFFICES Triages!RouteHolds(class, x, Triages!NextRoute(class.primary, x)) BY <1>0
<1>1. PICK causes \in Causes : class.primary = Triages!Primary(causes) /\ class.hard = causes.hard
  BY <1>0, ClassifiedBy
<1> DEFINE d == Triages!NextRoute(class.primary, x)
<1> SUFFICES ASSUME d.route \in Triages!PaidRoutes
             PROVE  /\ class.hard \cap Triages!Unpayable # {} => class.primary = "safety_rejection"
                    /\ ~x.unpersisted /\ ~x.resumable /\ ~x.ambiguous /\ ~x.cancelled /\ x.allowed
                    /\ x.same + x.alternate < MaxSameProvider + MaxAlternate
  BY DEF Triages!RouteHolds
<1>2. /\ x.same \in Nat /\ x.same <= MaxSameProvider /\ x.alternate \in Nat /\ x.alternate <= MaxAlternate
      /\ x.allowed \in BOOLEAN
  BY DEF Decided
<1>3. /\ ~x.unpersisted /\ ~x.resumable /\ ~x.ambiguous /\ ~x.cancelled
      /\ class.primary \notin DOMAIN Triages!Refusals
      /\ x.same < MaxSameProvider \/ x.alternate < MaxAlternate
      /\ x.allowed
  BY <1>2 DEF Triages!NextRoute, Triages!PaidRoutes, Triages!Paid, Triages!Review, Triages!Refusals
<1>4. class.hard \cap Triages!Unpayable # {} => class.primary = "safety_rejection" BY <1>1, <1>3, PrimaryIs
<1> QED BY <1>2, <1>3, <1>4

\* The planner's change for any result whose cause has a plan is submitted: it is valid,
\* touches nothing that identifies the shot, and is not what was submitted before.  The
\* new seed is a digest of the attempt, and assumed to differ from the previous one.
\* (DeterministicRepairPlanner.plan, validate_delta)
THEOREM PlansAreSubmittable ==
  ASSUME NEW result, \A f \in result.shown : f.cause \in Rated, NEW context \in Triages!TriageContexts,
         Triages!Classification(result, context) # Triages!NoRepair,
         Triages!Classification(result, context).primary \notin DOMAIN Triages!Refusals,
         NEW previous, NEW fresh, fresh # previous, fresh # "kept", previous # "kept"
  PROVE  LET class == Triages!Classification(result, context)
         IN  /\ Triages!Valid(Triages!Delta(class, previous, fresh), class.primary)
             /\ Triages!PlanHolds(Triages!Delta(class, previous, fresh))
<1>0. PICK class : class = Triages!Classification(result, context) OBVIOUS
<1>1. PICK causes \in Causes : class.primary = Triages!Primary(causes) BY <1>0, ClassifiedBy
<1> DEFINE p == class.primary
           delta == Triages!Delta(class, previous, fresh)
<1>2. p \in {"safety_rejection", "identity", "action", "anatomy", "weak_motion", "overconstraint", "ambiguity"}
  <2>1. Triages!Diagnosis = {Triages!Priority[i] : i \in 1..11}
    BY DEF Triages!Diagnosis, Triages!Range, Triages!Priority
  <2>2. p \in Triages!Diagnosis BY <1>1, PrimaryIs
  <2> QED BY <1>0, <2>1, <2>2 DEF Triages!Refusals, Triages!Priority
<1>3. Triages!Valid(delta, p)
  BY <1>2 DEF Triages!Delta, Triages!Valid, Triages!Removed, Triages!Rewritten, Triages!Touchable,
              Triages!Immutable, Triages!SeedSensitive
<1>4. Triages!PlanHolds(delta)
  <2> HIDE DEF delta
  <2> QED BY <1>3 DEF Triages!Valid, Triages!PlanHolds, Triages!Kept, Triages!Immutable, Triages!Constraint
<1> QED BY <1>0, <1>3, <1>4

-----------------------------------------------------------------------------
(* The move over a still that is the free fallback (Triage).                *)

\* A still, a shot of at most a million frames (eleven hours), and the identity of its render,
\* a digest read by its bytes.
MostFrames == 1000000

Identity == [direction: 0..255, depth: 0..255, pan: 0..255, drift: 0..255, slope: 0..255]

ParallaxAsked ==
  {q \in [id: Identity, duration: Nat, rate: Nat \ {0}, action: STRING, note: STRING,
          still: [judged: BOOLEAN, hard: BOOLEAN, codes: SUBSET STRING]] :
     q.duration * q.rate <= MostFrames * Triages!Second}

\* What integer division returns.
LEMMA DivIs ==
  ASSUME NEW a \in Int, NEW n \in Nat \ {0}
  PROVE  a \div n \in Int /\ n * (a \div n) <= a /\ a < n * (a \div n) + n
OBVIOUS

\* An amount spread evenly over n steps stays within the amount, up or down.
LEMMA SpreadStays ==
  ASSUME NEW d \in Nat, NEW n \in Nat \ {0}, NEW k \in 0..n
  PROVE  (d * k) \div n \in 0..d /\ ((-d) * k) \div n \in (-d)..0
<1>1. 0 <= d * k /\ d * k <= d * n
  <2>1. k \in Nat /\ k <= n OBVIOUS
  <2> QED BY <2>1
<1>2. PICK p \in Nat : p = d * k BY <1>1
<1>3. p <= n * d BY <1>1, <1>2
<1>4. p \div n \in Int /\ n * (p \div n) <= p /\ p < n * (p \div n) + n BY DivIs
<1>5. p \div n >= 0 /\ p \div n <= d
  <2>1. PICK q \in Int : q = p \div n BY <1>4
  <2>2. q >= 0
    <3>1. q <= -1 => n * q <= -n BY <2>1
    <3> QED BY <1>4, <2>1, <3>1
  <2>3. q <= d
    <3>1. q >= d + 1 => n * q >= n * d + n BY <2>1
    <3> QED BY <1>3, <1>4, <2>1, <3>1
  <2> QED BY <2>1, <2>2, <2>3
<1>6. (-p) \div n \in Int /\ n * ((-p) \div n) <= -p /\ -p < n * ((-p) \div n) + n BY <1>2, DivIs
<1>7. (-p) \div n <= 0 /\ (-p) \div n >= -d
  <2>1. PICK q \in Int : q = (-p) \div n BY <1>6
  <2>2. q <= 0
    <3>1. q >= 1 => n * q >= n BY <2>1
    <3> QED BY <1>2, <1>6, <2>1, <3>1
  <2>3. q >= -d
    <3>1. q <= -d - 1 => n * q <= -(n * d) - n BY <2>1
    <3> QED BY <1>3, <1>6, <2>1, <3>1
  <2> QED BY <2>1, <2>2, <2>3
<1>8. (-d) * k = -p BY <1>2
<1> QED BY <1>2, <1>4, <1>5, <1>6, <1>7, <1>8

\* It moves at every step if there is at least one unit for each.
LEMMA SpreadMoves ==
  ASSUME NEW d \in Nat, NEW n \in Nat \ {0}, d >= n, NEW k \in 1..n
  PROVE  /\ (d * k) \div n > (d * (k - 1)) \div n
         /\ ((-d) * k) \div n < ((-d) * (k - 1)) \div n
<1>1. PICK p \in Nat : p = d * (k - 1)
  <2>1. k - 1 \in Nat OBVIOUS
  <2>2. d * (k - 1) \in Nat BY <2>1
  <2> QED BY <2>2
<1>2. d * k = p + d /\ (-d) * k = -p - d /\ (-d) * (k - 1) = -p BY <1>1
<1>3. ASSUME NEW a \in Int PROVE (a + d) \div n >= a \div n + 1
  <2>1. PICK q \in Int : q = a \div n /\ n * q <= a /\ a < n * q + n BY DivIs
  <2>2. PICK s \in Int : s = (a + d) \div n /\ n * s <= a + d /\ a + d < n * s + n BY DivIs
  <2>3. s <= q => n * s <= n * q OBVIOUS
  <2>4. ~(s <= q) BY <2>1, <2>2, <2>3
  <2> QED BY <2>1, <2>2, <2>4
<1>4. (p + d) \div n >= p \div n + 1 BY <1>3
<1>5. (-p) \div n >= (-p - d) \div n + 1
  <2>1. PICK a \in Int : a = -p - d OBVIOUS
  <2>2. a + d = -p BY <2>1
  <2> QED BY <1>3, <2>1, <2>2
<1>6. p \div n \in Int /\ (p + d) \div n \in Int /\ (-p) \div n \in Int /\ (-p - d) \div n \in Int BY DivIs
<1> QED BY <1>1, <1>2, <1>4, <1>5, <1>6

\* What the bytes of an identity make of a move.
LEMMA MoveIs ==
  ASSUME NEW id \in Identity
  PROVE  LET m == Triages!Move(id) IN
         \E s, z \in Nat : \E x, y \in Int :
           /\ m.startScale = s /\ m.endScale = s + z /\ m.startX = -x /\ m.endX = x /\ m.startY = -y /\ m.endY = y
           /\ s > Triages!Unit /\ z >= 1000000 /\ s + z <= 4 * Triages!Unit
           /\ (x >= 700000 /\ x <= 1000000) \/ (x <= -700000 /\ x >= -1000000)
           /\ (y >= 0 /\ y <= 1000000) \/ (y <= 0 /\ y >= -1000000)
<1>1. PICK depth \in 0..255, pan \in 0..255, drift \in 0..255 : depth = id.depth /\ pan = id.pan /\ drift = id.drift
  BY DEF Identity
<1>2. PICK s \in Nat : s = 2662400 + 400 * depth /\ s > 2560000 /\ s <= 3000000 BY SMT
<1>3. PICK z \in Nat : z = 1024000 + 1000 * depth /\ z >= 1000000 /\ z <= 2000000 BY SMT
<1>4. Triages!StartScale(id) = s /\ Triages!EndScale(id) = s + z
  <2>1. Triages!StartScale(id) = s BY <1>1, <1>2, SMT DEF Triages!StartScale, Triages!Tenth
  <2> QED BY <1>1, <1>3, <2>1, SMT DEF Triages!EndScale, Triages!Tenth
<1>5. ASSUME NEW p \in Nat, NEW byte
      PROVE  \E x \in Int : x = p * Triages!Sign(byte) /\ (x = p \/ x = -p)
  <2>1. PICK sign \in {1, -1} : sign = Triages!Sign(byte) BY SMT DEF Triages!Sign
  <2>2. p * sign = p \/ p * sign = -p BY SMT
  <2> QED BY <2>1, <2>2, SMT
<1>6. PICK x \in Int : x = Triages!Pan(id) /\ ((x >= 700000 /\ x <= 1000000) \/ (x <= -700000 /\ x >= -1000000))
  <2>1. PICK p \in Nat : p = 716800 + 1000 * pan /\ p >= 700000 /\ p <= 1000000 BY SMT
  <2>2. Triages!Pan(id) = p * Triages!Sign(id.direction) BY <1>1, <2>1, SMT DEF Triages!Pan, Triages!Tenth
  <2>3. PICK x \in Int : x = p * Triages!Sign(id.direction) /\ (x = p \/ x = -p) BY <1>5
  <2>4. (x >= 700000 /\ x <= 1000000) \/ (x <= -700000 /\ x >= -1000000) BY <2>1, <2>3, SMT
  <2> QED BY <2>2, <2>3, <2>4, SMT
<1>7. PICK y \in Int : y = Triages!Drift(id) /\ ((y >= 0 /\ y <= 1000000) \/ (y <= 0 /\ y >= -1000000))
  <2>1. PICK p \in Nat : p = 400 * drift /\ p <= 1000000 BY SMT
  <2>2. Triages!Drift(id) = p * Triages!Sign(id.slope) BY <1>1, <2>1, SMT DEF Triages!Drift
  <2>3. PICK y \in Int : y = p * Triages!Sign(id.slope) /\ (y = p \/ y = -p) BY <1>5
  <2>4. (y >= 0 /\ y <= 1000000) \/ (y <= 0 /\ y >= -1000000) BY <2>1, <2>3, SMT
  <2> QED BY <2>2, <2>3, <2>4, SMT
<1>8. s > Triages!Unit /\ s + z <= 4 * Triages!Unit BY <1>2, <1>3, SMT DEF Triages!Unit
<1>9. Triages!Pan(id) = x /\ Triages!Drift(id) = y BY <1>6, <1>7, SMT
<1>10. Triages!Move(id) = [startScale |-> s, endScale |-> s + z, startX |-> -x, endX |-> x, startY |-> -y, endY |-> y]
  BY <1>4, <1>9, Zenon DEF Triages!Move
<1> DEFINE m == Triages!Move(id)
<1>11. m.startScale = s /\ m.endScale = s + z /\ m.startX = -x /\ m.endX = x /\ m.startY = -y /\ m.endY = y BY <1>10
<1>12. z >= 1000000 BY <1>3, SMT
<1>13. /\ (x >= 700000 /\ x <= 1000000) \/ (x <= -700000 /\ x >= -1000000)
       /\ (y >= 0 /\ y <= 1000000) \/ (y <= 0 /\ y >= -1000000)
  BY <1>6, <1>7, SMT
<1> HIDE DEF m
<1> QED BY <1>8, <1>11, <1>12, <1>13, SMT DEF m

\* How many frames reach a duration, and how long they last.
LEMMA FramesReach ==
  ASSUME NEW q \in ParallaxAsked, q.duration > 0
  PROVE  /\ Triages!FrameCount(q) \in Nat \ {0} /\ Triages!FrameCount(q) <= MostFrames
         /\ Triages!Measured(q) \in Int /\ Triages!Measured(q) >= q.duration
         /\ (Triages!Measured(q) - q.duration) * q.rate < Triages!Second
<1>1. PICK d \in Nat, r \in Nat : d = q.duration /\ r = q.rate /\ d > 0 /\ r > 0 BY SMT DEF ParallaxAsked
<1>2. PICK exact \in Nat : exact = d * r BY SMT
<1>3. exact > 0 /\ exact <= 1000000 * 1000000
  <2>1. d * r > 0 BY <1>1, SMT
  <2> QED BY <1>1, <1>2, <2>1, SMT DEF ParallaxAsked, MostFrames, Triages!Second
<1>4. Triages!FrameCount(q) = exact \div 1000000 + (IF exact % 1000000 = 0 THEN 0 ELSE 1)
  BY <1>1, <1>2, SMT DEF Triages!FrameCount, Triages!Second
<1>5. PICK f \in Nat : f = Triages!FrameCount(q) /\ f >= 1 /\ f <= 1000000 /\ exact <= f * 1000000 /\ f * 1000000 < exact + 1000000
  BY <1>3, <1>4, SMT
<1>6. Triages!Measured(q) = (f * 1000000) \div r BY <1>1, <1>5, SMT DEF Triages!Measured, Triages!Second
<1>7. PICK m \in Int : m = Triages!Measured(q) /\ r * m <= f * 1000000 /\ f * 1000000 < r * m + r
  <2>1. PICK p \in Int : p = f * 1000000 BY SMT
  <2>2. r \in Nat \ {0} BY <1>1, SMT
  <2>3. p \div r \in Int /\ r * (p \div r) <= p /\ p < r * (p \div r) + r BY <2>2, DivIs, Zenon
  <2> QED BY <1>6, <2>1, <2>3, SMT
<1>8. m >= d
  <2>1. m <= d - 1 => r * m <= r * d - r BY <1>1, SMT
  <2> QED BY <1>2, <1>5, <1>7, <2>1, SMT
<1>9. (m - d) * r < 1000000
  <2>1. (m - d) * r = r * m - d * r BY SMT
  <2> QED BY <1>2, <1>5, <1>7, <2>1, SMT
<1> QED BY <1>1, <1>5, <1>7, <1>8, <1>9, SMT DEF MostFrames, Triages!Second

\* Where the move is at a frame, and that the next frame is elsewhere.
LEMMA MoveStaysIn ==
  ASSUME NEW id \in Identity, NEW frames \in Nat \ {0}, frames <= MostFrames, NEW k \in 0..(frames - 1)
  PROVE  LET v == Triages!View(Triages!Move(id), k, frames)
             u == Triages!View(Triages!Move(id), k - 1, frames)
         IN  /\ v.zoom > Triages!Unit /\ v.x \in 0..Triages!Unit /\ v.y \in 0..Triages!Unit
             /\ k > 0 => v.zoom > u.zoom /\ v.x # u.x
<1> DEFINE m == Triages!Move(id)
           v == Triages!View(m, k, frames)
           u == Triages!View(m, k - 1, frames)
<1>1. PICK n \in Nat \ {0} : n = (IF frames > 1 THEN frames - 1 ELSE 1) /\ n <= 1000000 BY SMT DEF MostFrames
<1>2. k \in 0..n /\ (k > 0 => k \in 1..n) BY <1>1, SMT
<1>3. PICK s \in Nat, z \in Nat, x \in Int, y \in Int :
        /\ m.startScale = s /\ m.endScale = s + z /\ m.startX = -x /\ m.endX = x /\ m.startY = -y /\ m.endY = y
        /\ s > Triages!Unit /\ z >= 1000000 /\ s + z <= 4 * Triages!Unit
        /\ (x >= 700000 /\ x <= 1000000) \/ (x <= -700000 /\ x >= -1000000)
        /\ (y >= 0 /\ y <= 1000000) \/ (y <= 0 /\ y >= -1000000)
  BY MoveIs, SMT
<1> HIDE DEF m
<1>4. /\ s > 2560000 /\ z >= 1000000
      /\ \/ x >= 700000 /\ x <= 1000000
         \/ x <= -700000 /\ x >= -1000000
      /\ \/ y >= 0 /\ y <= 1000000
         \/ y <= 0 /\ y >= -1000000
  BY <1>3, SMT DEF Triages!Unit
<1>5. PICK dx \in Int, dy \in Int : dx = 2 * x /\ dy = 2 * y BY SMT
<1>6. (s + z) - s = z /\ x - (-x) = dx /\ y - (-y) = dy BY <1>5, SMT
<1>7. PICK zk \in Int, xk \in Int, yk \in Int, zj \in Int, xj \in Int :
        /\ zk = (z * k) \div n /\ zj = (z * (k - 1)) \div n
        /\ xk = (dx * k) \div n /\ xj = (dx * (k - 1)) \div n
        /\ yk = (dy * k) \div n
  <2>1. z * k \in Int /\ z * (k - 1) \in Int /\ dx * k \in Int /\ dx * (k - 1) \in Int /\ dy * k \in Int BY <1>2, SMT
  <2> QED BY <2>1, DivIs, Zenon
<1>8. /\ v.zoom = s + zk /\ u.zoom = s + zj
      /\ v.x = Triages!Unit \div 2 + (-x + xk) /\ u.x = Triages!Unit \div 2 + (-x + xj)
      /\ v.y = Triages!Unit \div 2 + (-y + yk)
  BY <1>1, <1>3, <1>6, <1>7 DEF Triages!View, Triages!Along
<1> HIDE DEF v, u
<1>9. zk >= 0 /\ (k > 0 => zk > zj)
  <2>1. z >= n BY <1>1, <1>4, SMT
  <2>2. k > 0 => (z * k) \div n > (z * (k - 1)) \div n BY <1>2, <2>1, SpreadMoves
  <2>3. (z * k) \div n \in 0..z BY <1>2, SpreadStays
  <2> QED BY <1>7, <2>2, <2>3
<1>10. -x + xk >= -1000000 /\ -x + xk <= 1000000 /\ (k > 0 => xk # xj)
  <2>1. CASE x >= 700000 /\ x <= 1000000
    <3>1. dx \in Nat /\ dx >= n BY <1>1, <1>5, <2>1, SMT
    <3>2. (dx * k) \div n \in 0..dx BY <1>2, <3>1, SpreadStays
    <3>3. k > 0 => (dx * k) \div n > (dx * (k - 1)) \div n BY <1>2, <3>1, SpreadMoves
    <3>4. xk \in 0..dx /\ (k > 0 => xk > xj) BY <1>7, <3>2, <3>3
    <3> QED BY <1>5, <2>1, <3>4, SMT
  <2>2. CASE x <= -700000 /\ x >= -1000000
    <3>1. PICK e \in Nat : e = -dx /\ e >= n BY <1>1, <1>5, <2>2, SMT
    <3>2. dx = -e BY <3>1, SMT
    <3>3. (dx * k) \div n \in (-e)..0 BY <1>2, <3>2, SpreadStays
    <3>4. k > 0 => (dx * k) \div n < (dx * (k - 1)) \div n BY <1>2, <3>1, <3>2, SpreadMoves
    <3>5. xk \in (-e)..0 /\ (k > 0 => xk < xj) BY <1>7, <3>3, <3>4
    <3> QED BY <1>5, <2>2, <3>2, <3>5, SMT
  <2> QED BY <1>4, <2>1, <2>2
<1>11. -y + yk >= -1000000 /\ -y + yk <= 1000000
  <2>1. CASE y >= 0 /\ y <= 1000000
    <3>1. dy \in Nat BY <1>5, <2>1, SMT
    <3>2. (dy * k) \div n \in 0..dy BY <1>2, <3>1, SpreadStays
    <3>3. yk \in 0..dy BY <1>7, <3>2
    <3> QED BY <1>5, <2>1, <3>3, SMT
  <2>2. CASE y <= 0 /\ y >= -1000000
    <3>1. PICK e \in Nat : e = -dy BY <1>5, <2>2, SMT
    <3>2. dy = -e BY <3>1, SMT
    <3>3. (dy * k) \div n \in (-e)..0 BY <1>2, <3>2, SpreadStays
    <3>4. yk \in (-e)..0 BY <1>7, <3>3
    <3> QED BY <1>5, <2>2, <3>2, <3>4, SMT
  <2> QED BY <1>4, <2>1, <2>2
<1>12. Triages!Unit = 2560000 /\ Triages!Unit \div 2 = 1280000 BY SMT DEF Triages!Unit
<1>13. v.zoom > Triages!Unit /\ (k > 0 => v.zoom > u.zoom) BY <1>4, <1>8, <1>9, <1>12, SMT
<1>14. v.x \in 0..Triages!Unit /\ (k > 0 => v.x # u.x)
  <2>1. PICK vx \in Int, ux \in Int : vx = 1280000 + (-x + xk) /\ ux = 1280000 + (-x + xj) BY SMT
  <2>2. v.x = vx /\ u.x = ux BY <1>8, <1>12, <2>1, SMT
  <2>3. vx >= 0 /\ vx <= 2560000 /\ (k > 0 => vx # ux) BY <1>10, <2>1, SMT
  <2>4. PICK unit \in Nat : unit = Triages!Unit /\ vx <= unit BY <1>12, <2>3, SMT
  <2>5. vx \in 0..unit BY <2>3, <2>4, SMT
  <2> QED BY <2>2, <2>3, <2>4, <2>5, SMT
<1>15. v.y \in 0..Triages!Unit
  <2>1. PICK vy \in Int : vy = 1280000 + (-y + yk) BY SMT
  <2>2. v.y = vy BY <1>8, <1>12, <2>1, SMT
  <2>3. vy >= 0 /\ vy <= 2560000 BY <1>11, <2>1, SMT
  <2>4. PICK unit \in Nat : unit = Triages!Unit /\ vy <= unit BY <1>12, <2>3, SMT
  <2>5. vy \in 0..unit BY <2>3, <2>4, SMT
  <2> QED BY <2>2, <2>4, <2>5, SMT
<1> QED BY <1>13, <1>14, <1>15, SMT DEF v, u, m

\* Of whatever still and for whatever shot of at most a million frames: a fallback is only
\* made of a still that QA did not condemn, it lasts the shot and less than a frame more,
\* and its move stays on the still and never stands still.  (decide_eligibility, _background,
\* layer_filter, render_parallax)
THEOREM FallbackMoves == ASSUME NEW q \in ParallaxAsked PROVE Triages!ParallaxHolds(q, Triages!Rendered(q))
<1> DEFINE a == Triages!Rendered(q)
<1>0. /\ q.id \in Identity /\ q.duration \in Nat /\ q.rate \in Nat \ {0}
      /\ q.still.judged \in BOOLEAN /\ q.still.hard \in BOOLEAN
  BY SMT DEF ParallaxAsked
<1>1. CASE ~Triages!Eligible(q)
  <2>1. a.rendered = "ineligible" BY <1>1, SMT DEF Triages!Rendered
  <2> QED BY <2>1, SMT DEF Triages!ParallaxHolds
<1>2. CASE Triages!Eligible(q)
  <2>1. q.duration > 0 BY <1>0, <1>2, SMT DEF Triages!Eligible
  <2>2. PICK f \in Nat, m \in Int : f = Triages!FrameCount(q) /\ m = Triages!Measured(q)
    BY <2>1, FramesReach, SMT
  <2>3. f \in Nat \ {0} /\ f <= MostFrames /\ m >= q.duration BY <2>1, <2>2, FramesReach
  <2>4. PICK off \in Int : off = (m - q.duration) * q.rate /\ off >= 0 /\ off < Triages!Second
    <3>1. (m - q.duration) * q.rate < Triages!Second BY <2>1, <2>2, FramesReach
    <3>2. PICK d \in Nat, r \in Nat : d = q.duration /\ r = q.rate BY <1>0
    <3>3. PICK e \in Nat : e = m - d BY <2>3, <3>2
    <3>4. (m - q.duration) * q.rate = e * r BY <3>2, <3>3
    <3>5. e * r \in Nat OBVIOUS
    <3>6. e * r < 1000000
      <4>1. Triages!Second = 1000000 BY SMT DEF Triages!Second
      <4> QED BY <3>1, <3>4, <4>1, SMT
    <3> QED BY <3>4, <3>5, <3>6, SMT DEF Triages!Second
  <2>5. -(m - q.duration) * q.rate = -off BY <1>0, <2>2, <2>4, SMT
  <2>6. ~(off > Triages!Second) /\ ~(-off > Triages!Second) BY <2>4, SMT DEF Triages!Second
  <2>7. a = [about |-> "fallback", measured |-> m, frames |-> f, move |-> Triages!Move(q.id), rendered |-> "clip"]
    BY <1>2, <2>2, <2>4, <2>5, <2>6, SMT DEF Triages!Rendered
  <2> HIDE DEF a
  <2>8. a.rendered = "clip" /\ a.measured = m /\ a.frames = f /\ a.move = Triages!Move(q.id) BY <2>7
  <2>9. /\ ~(q.still.judged /\ (q.still.hard \/ q.still.codes \cap Triages!Disqualifying # {}))
        /\ "physical" \notin {q.action, q.note}
    BY <1>0, <1>2 DEF Triages!Eligible, Triages!Still, Triages!Mandatory
  <2>10. a.measured + 1 >= q.duration /\ (a.measured - q.duration) * q.rate < Triages!Second
    <3>1. m + 1 >= q.duration BY <1>0, <2>3, SMT
    <3>2. (m - q.duration) * q.rate < Triages!Second BY <2>4
    <3> QED BY <2>8, <3>1, <3>2
  <2>11. a.move.endScale <= 4 * Triages!Unit
    <3>1. PICK id \in Identity : id = q.id BY <1>0
    <3>2. Triages!Move(id).endScale <= 4 * Triages!Unit BY MoveIs, SMT DEF Triages!Unit
    <3> QED BY <2>8, <3>1, <3>2
  <2>12. ASSUME NEW k \in 0..(a.frames - 1)
         PROVE  LET v == Triages!View(a.move, k, a.frames)
                IN  v.zoom > Triages!Unit /\ v.x \in 0..Triages!Unit /\ v.y \in 0..Triages!Unit
    <3>1. k \in 0..(f - 1) BY <2>8
    <3>2. LET v == Triages!View(Triages!Move(q.id), k, f)
          IN  v.zoom > Triages!Unit /\ v.x \in 0..Triages!Unit /\ v.y \in 0..Triages!Unit
      BY <1>0, <2>3, <3>1, MoveStaysIn, Zenon
    <3> QED BY <2>8, <3>2
  <2>13. ASSUME NEW k \in 1..(a.frames - 1)
         PROVE  LET v == Triages!View(a.move, k, a.frames)
                    u == Triages!View(a.move, k - 1, a.frames)
                IN  v.zoom > u.zoom /\ v.x # u.x
    <3>1. k \in 0..(f - 1) /\ k > 0
      <4>1. k \in 1..(f - 1) BY <2>8
      <4> QED BY <4>1
    <3>2. LET v == Triages!View(Triages!Move(q.id), k, f)
              u == Triages!View(Triages!Move(q.id), k - 1, f)
          IN  v.zoom > u.zoom /\ v.x # u.x
      BY <1>0, <2>3, <3>1, MoveStaysIn, Zenon
    <3> QED BY <2>8, <3>2
  <2>14. Triages!ParallaxHolds(q, a)
    BY <2>8, <2>9, <2>10, <2>11, <2>12, <2>13, Zenon DEF Triages!ParallaxHolds
  <2> QED BY <2>14 DEF a
<1> QED BY <1>1, <1>2, SMT

-----------------------------------------------------------------------------
(* The model that makes a clip, and that repairs it (Routing).               *)

Routes == INSTANCE Routing

\* What a clip may be asked for: any length in half seconds, any money.
ClipAsked == [mode: {"economy", "balanced", "premium"}, asked: {"none", "turbo", "gen45"}, hero: BOOLEAN,
         escalated: BOOLEAN, ordinal: Nat, most: Nat, length: Nat \ {0}, fits: BOOLEAN, runway: BOOLEAN,
         enforced: BOOLEAN, remaining: Int, cap: Int, fallback: BOOLEAN]

\* The length billed is the least whole number of seconds a model makes that covers the clip.
LEMMA BilledCovers ==
  ASSUME NEW length \in Nat \ {0}, Routes!Billable(length)
  PROVE  Routes!Billed(length) \in 2..10 /\ 2 * Routes!Billed(length) >= length
<1> DEFINE C == {s \in 2..10 : s >= Routes!Needed(length)}
<1>1. Routes!Needed(length) \in Nat /\ 2 * Routes!Needed(length) >= length
  BY DEF Routes!Needed
<1>2. PICK n \in Nat : n = Routes!Needed(length) BY <1>1
<1>3. n <= 10 BY <1>2 DEF Routes!Billable, Routes!Covering, Routes!Durations
<1>4. \E s \in Routes!Covering(length) : \A t \in Routes!Covering(length) : s <= t
  <2>1. CASE n <= 2 BY <1>2, <2>1 DEF Routes!Covering, Routes!Durations
  <2>2. CASE n > 2 BY <1>2, <1>3, <2>2 DEF Routes!Covering, Routes!Durations
  <2> QED BY <2>1, <2>2
<1>5. Routes!Billed(length) \in Routes!Covering(length) BY <1>4 DEF Routes!Billed
<1>6. Routes!Billed(length) \in 2..10 /\ Routes!Billed(length) >= n
  BY <1>2, <1>5 DEF Routes!Covering, Routes!Durations
<1> QED BY <1>1, <1>2, <1>6

\* A price is an amount.
LEMMA EstimateIsMoney ==
  ASSUME NEW length \in Nat \ {0}, NEW model \in Routes!Models
  PROVE  Routes!Estimate(model, length) \in Nat
<1>1. Routes!CreditsPerSecond[model] \in Nat BY DEF Routes!CreditsPerSecond, Routes!Models
<1>2. (IF Routes!Billable(length) THEN 2 * Routes!Billed(length) ELSE length) \in Nat BY BilledCovers
<1> QED BY <1>1, <1>2 DEF Routes!Estimate

\* What a grant is worth, and the clip it was given for.
LEMMA Grants ==
  ASSUME NEW c \in ClipAsked
  PROVE  /\ Routes!Routed(c).model \in {"none", "turbo", "gen45"}
         /\ Routes!Routed(c).model # "none" =>
              Routes!Compatible(c) /\ Routes!Affordable(Routes!Routed(c).model, c)
  BY DEF ClipAsked, Routes!Routed, Routes!RouteExplicit, Routes!RoutePremium, Routes!RouteBalanced, Routes!Select, Routes!Refuse

\* The same clip with more money, or as much.
Richer(d, c) ==
  /\ d.mode = c.mode /\ d.asked = c.asked /\ d.hero = c.hero /\ d.escalated = c.escalated
  /\ d.fallback = c.fallback /\ d.ordinal = c.ordinal /\ d.most = c.most /\ d.length = c.length
  /\ d.fits = c.fits /\ d.runway = c.runway /\ d.enforced = c.enforced
  /\ d.remaining >= c.remaining /\ d.cap >= c.cap

\* More money never turns a grant into a refusal or into a lesser model.
LEMMA RicherIsNoWorse ==
  ASSUME NEW c \in ClipAsked, NEW d \in ClipAsked, Richer(d, c)
  PROVE  Routes!Worth(Routes!Routed(d).model) >= Routes!Worth(Routes!Routed(c).model)
<1>1. /\ d.mode = c.mode /\ d.asked = c.asked /\ d.hero = c.hero /\ d.escalated = c.escalated
      /\ d.fallback = c.fallback /\ d.ordinal = c.ordinal /\ d.most = c.most /\ d.length = c.length
      /\ d.fits = c.fits /\ d.runway = c.runway /\ d.enforced = c.enforced
  BY DEF ClipAsked, Richer
<1>2. /\ c.remaining \in Int /\ c.cap \in Int /\ d.remaining \in Int /\ d.cap \in Int /\ c.length \in Nat \ {0}
      /\ c.mode \in {"economy", "balanced", "premium"} /\ c.asked \in {"none", "turbo", "gen45"}
  BY DEF ClipAsked
<1>3. ASSUME NEW model \in {"turbo", "gen45"}, Routes!Affordable(model, c) PROVE Routes!Affordable(model, d)
  <2>1. PICK e \in Nat : e = Routes!Estimate(model, c.length) BY <1>2, EstimateIsMoney DEF Routes!Models
  <2> QED BY <1>1, <1>2, <1>3, <2>1 DEF Routes!Affordable, Richer
<1>4. (Routes!Compatible(d) <=> Routes!Compatible(c)) /\ (Routes!Eligible(d) <=> Routes!Eligible(c))
  BY <1>1 DEF Routes!Compatible, Routes!Eligible
<1> DEFINE old == Routes!Routed(c).model
           new == Routes!Routed(d).model
<1>5. old \in {"none", "turbo", "gen45"} /\ new \in {"none", "turbo", "gen45"} BY Grants
<1>6. (old # "none" => new # "none") /\ (old = "gen45" => new = "gen45")
  <2>1. CASE c.asked = "turbo"
    BY <1>1, <1>3, <1>4, <2>1 DEF Routes!Routed, Routes!RouteExplicit, Routes!Select, Routes!Refuse
  <2>2. CASE c.asked = "none" /\ c.mode = "economy"
    BY <1>1, <1>3, <1>4, <2>2 DEF Routes!Routed, Routes!Select, Routes!Refuse
  <2>3. CASE c.asked = "none" /\ c.mode = "premium"
    BY <1>1, <1>3, <1>4, <2>3 DEF Routes!Routed, Routes!RoutePremium, Routes!Select, Routes!Refuse
  <2>4. CASE c.asked = "none" /\ c.mode = "balanced"
    <3>1. Routes!RouteBalanced(c).model = "gen45" => Routes!RouteBalanced(d).model = "gen45"
      BY <1>1, <1>3, <1>4 DEF Routes!RouteBalanced, Routes!Select
    <3>2. Routes!RouteBalanced(c).model \in {"turbo", "gen45"} /\ Routes!RouteBalanced(d).model \in {"turbo", "gen45"}
      BY DEF Routes!RouteBalanced, Routes!Select
    <3>3. Routes!Affordable("gen45", c) => Routes!Affordable("gen45", d) BY <1>3
    <3>4. Routes!Affordable("turbo", c) => Routes!Affordable("turbo", d) BY <1>3
    <3>5. Routes!RouteBalanced(d).model = "gen45" => Routes!Affordable("gen45", d)
      BY DEF Routes!RouteBalanced, Routes!Select
    <3> QED BY <1>1, <1>4, <2>4, <3>1, <3>2, <3>3, <3>4, <3>5 DEF Routes!Routed, Routes!Refuse
  <2>5. CASE c.asked = "gen45"
    <3>1. CASE c.mode = "economy"
      BY <1>1, <2>5, <3>1 DEF Routes!Routed, Routes!RouteExplicit, Routes!Select, Routes!Refuse
    <3>2. CASE c.mode = "balanced"
      BY <1>1, <1>3, <1>4, <2>5, <3>2 DEF Routes!Routed, Routes!RouteExplicit, Routes!Select, Routes!Refuse
    <3>3. CASE c.mode = "premium"
      BY <1>1, <1>3, <1>4, <2>5, <3>3 DEF Routes!Routed, Routes!RouteExplicit, Routes!Select, Routes!Refuse
    <3> QED BY <1>2, <3>1, <3>2, <3>3
  <2> QED BY <1>2, <2>1, <2>2, <2>3, <2>4, <2>5
<1> HIDE DEF old, new
<1>7. Routes!Worth(new) >= Routes!Worth(old) BY <1>5, <1>6 DEF Routes!Worth
<1> QED BY <1>7 DEF old, new

\* For a clip of any length and any money: the quality mode is kept, what is granted is
\* long enough, accepted by the provider and paid from what is left, Turbo is refused to
\* nobody who can pay for it, and more money never buys less.  (route_model)
THEOREM ClipsAreRouted == ASSUME NEW c \in ClipAsked PROVE Routes!ClipHolds(c, Routes!Routed(c))
<1> DEFINE a == Routes!Routed(c)
<1>1. a.model = "gen45" => c.mode = "premium" \/ (c.mode = "balanced" /\ (c.hero \/ Routes!Eligible(c)))
  BY DEF ClipAsked, Routes!Routed, Routes!RouteExplicit, Routes!RoutePremium, Routes!RouteBalanced, Routes!Select, Routes!Refuse
<1>2. (a.model = "turbo" /\ c.mode = "premium") => c.asked = "turbo" \/ c.fallback
  BY DEF ClipAsked, Routes!Routed, Routes!RouteExplicit, Routes!RoutePremium, Routes!RouteBalanced, Routes!Select, Routes!Refuse
<1>3. a.model # "none" =>
        /\ 2 * Routes!Generated(c.length) >= c.length
        /\ c.runway => Routes!ValidRequest(Routes!Generated(c.length), c.fits)
        /\ c.enforced => Routes!Estimate(a.model, c.length) <= c.remaining
  <2> HIDE DEF a
  <2>1. c.length \in Nat \ {0} BY DEF ClipAsked
  <2>2. 2 * Routes!Needed(c.length) >= c.length BY <2>1 DEF Routes!Needed
  <2>3. 2 * Routes!Generated(c.length) >= c.length BY <2>1, <2>2, BilledCovers DEF Routes!Generated
  <2>4. a.model # "none" => Routes!Compatible(c) /\ Routes!Affordable(a.model, c) BY Grants DEF a
  <2>5. Routes!Compatible(c) /\ c.runway => Routes!ValidRequest(Routes!Generated(c.length), c.fits)
    BY <2>1, BilledCovers DEF Routes!Compatible, Routes!Generated, Routes!ValidRequest, Routes!Durations
  <2> QED BY <2>3, <2>4, <2>5 DEF Routes!Affordable
<1>4. (a.model = "none" /\ c.asked = "none" /\ (c.mode # "premium" \/ c.fallback)) =>
        ~Routes!Compatible(c) \/ ~Routes!Affordable("turbo", c)
  BY DEF ClipAsked, Routes!Routed, Routes!RouteExplicit, Routes!RoutePremium, Routes!RouteBalanced, Routes!Select, Routes!Refuse
<1>5. ASSUME NEW more \in 1..3
      PROVE  Routes!Worth(Routes!Routed([c EXCEPT !.remaining = @ + 40 * more, !.cap = @ + 40 * more]).model)
               >= Routes!Worth(a.model)
  <2>1. PICK n \in Nat : n = 40 * more OBVIOUS
  <2>2. c.remaining \in Int /\ c.cap \in Int BY DEF ClipAsked
  <2>3. PICK d : d = [c EXCEPT !.remaining = c.remaining + n, !.cap = c.cap + n] OBVIOUS
  <2>4. PICK left \in Int, most \in Int : left = c.remaining + n /\ most = c.cap + n BY <2>2
  <2>5. d = [c EXCEPT !.remaining = left, !.cap = most] BY <2>3, <2>4
  <2>6. d \in ClipAsked BY <2>5 DEF ClipAsked
  <2>8. d.remaining = left /\ d.cap = most BY <2>5 DEF ClipAsked
  <2>9. Richer(d, c) BY <2>2, <2>4, <2>5, <2>8 DEF ClipAsked, Richer
  <2>7. d = [c EXCEPT !.remaining = @ + 40 * more, !.cap = @ + 40 * more] BY <2>1, <2>3
  <2> HIDE DEF a
  <2> QED BY <2>6, <2>7, <2>9, RicherIsNoWorse DEF a
<1> HIDE DEF a
<1>6. Routes!ClipHolds(c, a) BY <1>1, <1>2, <1>3, <1>4, <1>5 DEF Routes!ClipHolds
<1> QED BY <1>6 DEF a

\* What a repair may be asked for: of a clip that some model makes, before its last escalation.
RepairAsked == {q \in [about: {"repair"}, mode: {"economy", "balanced", "premium"}, hero: BOOLEAN, length: Nat \ {0},
               runway: BOOLEAN, budget: BOOLEAN, used: Nat, most: Nat, remaining: Int, later: Int, cap: Int,
               fallback: BOOLEAN, spent: Nat, limits: SUBSET Nat] :
             q.runway => Routes!Billable(q.length)}

\* A repair asks for a clip that some model makes.
LEMMA RepairIsClip ==
  ASSUME NEW q \in RepairAsked, NEW money \in Int
  PROVE  /\ Routes!RepairContext(q, money) \in ClipAsked
         /\ Routes!Compatible(Routes!RepairContext(q, money))
BY DEF RepairAsked, ClipAsked, Routes!RepairContext, Routes!Compatible

\* A repair of any clip that may start is within what was left when it was planned, and
\* the model recorded at submission differs from the planned one only as the budget moved.
\* (_next_same_provider_model, _same_provider_decision)
THEOREM RepairsAreRouted == ASSUME NEW q \in RepairAsked PROVE Routes!RepairHolds(q, Routes!Chosen(q))
<1> DEFINE c == Routes!RepairContext(q, q.remaining)
           d == Routes!RepairContext(q, q.later)
           planned == Routes!NextModel(q)
           recorded == Routes!RecordedModel(q)
<1>0. q.remaining \in Int /\ q.later \in Int /\ q.about = "repair" BY DEF RepairAsked
<1>1. Routes!Chosen(q) = [may |-> Routes!MayRepair(q), planned |-> planned, recorded |-> recorded]
  BY <1>0 DEF Routes!Chosen
<1>2. planned = "gen45" => q.mode = "premium" \/ (q.mode = "balanced" /\ q.used < q.most)
  <2>1. /\ c.asked = "none" /\ c.escalated = TRUE /\ c.ordinal = q.used + 1 /\ c.most = q.most /\ c.mode = q.mode
        /\ c.mode \in {"economy", "balanced", "premium"} /\ q.used \in Nat /\ q.most \in Nat
    BY DEF RepairAsked, Routes!RepairContext
  <2>2. planned = IF Routes!Routed(c).model = "none" THEN "turbo" ELSE Routes!Routed(c).model BY DEF Routes!NextModel
  <2> HIDE DEF c, planned
  <2>3. Routes!Routed(c).model = "gen45" => c.mode = "premium" \/ (c.mode = "balanced" /\ Routes!Eligible(c))
    BY <2>1 DEF Routes!Routed, Routes!RoutePremium, Routes!RouteBalanced, Routes!Select, Routes!Refuse
  <2>4. Routes!Eligible(c) => q.used < q.most BY <2>1 DEF Routes!Eligible
  <2> QED BY <2>1, <2>2, <2>3, <2>4
<1>3. Routes!MayRepair(q) /\ q.runway /\ q.budget => Routes!Estimate(planned, q.length) <= q.remaining
  BY DEF Routes!MayRepair, Routes!RepairEstimate
<1>4. c \in ClipAsked /\ d \in ClipAsked /\ Routes!Compatible(c) /\ Routes!Compatible(d) BY <1>0, RepairIsClip
<1>5. planned = IF Routes!Routed(c).model = "none" THEN "turbo" ELSE Routes!Routed(c).model BY DEF Routes!NextModel
<1>6. planned \in {"turbo", "gen45"} BY <1>4, <1>5, Grants
<1>7. q.later <= q.remaining => Richer(c, d) BY <1>0 DEF RepairAsked, Routes!RepairContext, Richer
<1>8. q.later >= q.remaining => Richer(d, c) BY <1>0 DEF RepairAsked, Routes!RepairContext, Richer
<1>9. recorded = IF Routes!Routed(d).model # "none" THEN Routes!Routed(d).model ELSE planned
  <2> DEFINE x == [d EXCEPT !.mode = "premium", !.asked = planned, !.enforced = FALSE]
  <2>1. x \in ClipAsked BY <1>4, <1>6 DEF ClipAsked
  <2>2. /\ x.asked = planned /\ x.mode = "premium" /\ ~x.enforced
        /\ x.runway = d.runway /\ x.length = d.length /\ x.fits = d.fits
    BY <1>4 DEF ClipAsked
  <2> HIDE DEF x, d, planned
  <2>3. Routes!Compatible(x) /\ \A model : Routes!Affordable(model, x)
    BY <1>4, <2>2 DEF Routes!Compatible, Routes!Affordable
  <2>4. Routes!Routed(x).model = planned
    BY <1>6, <2>2, <2>3 DEF Routes!Routed, Routes!RouteExplicit, Routes!Select, Routes!Refuse
  <2> QED BY <2>4 DEF Routes!RecordedModel, x, d, planned
<1> HIDE DEF c, d, planned, recorded
<1>10. Routes!Worth("none") = 0 /\ Routes!Worth("turbo") = 1 /\ Routes!Worth("gen45") = 2 BY DEF Routes!Worth
<1>11. q.later <= q.remaining => Routes!Worth(recorded) <= Routes!Worth(planned)
  BY <1>4, <1>5, <1>6, <1>7, <1>9, <1>10, Grants, RicherIsNoWorse
<1>12. q.later >= q.remaining => Routes!Worth(recorded) >= Routes!Worth(planned)
  BY <1>4, <1>5, <1>6, <1>8, <1>9, <1>10, Grants, RicherIsNoWorse
<1>13. recorded \in {"turbo", "gen45"} BY <1>4, <1>6, <1>9, Grants
<1> QED BY <1>0, <1>1, <1>2, <1>3, <1>6, <1>10, <1>11, <1>12, <1>13 DEF Routes!RepairHolds
=============================================================================
