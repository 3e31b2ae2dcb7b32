-------------------------- MODULE PaidMediaProofs --------------------------
(***************************************************************************)
(* Theorems about what a project pays for, for any number of shots, frames *)
(* and workers and whatever the prices, caps and bounds.                   *)
(***************************************************************************)
EXTENDS PaidMedia, FiniteSetTheorems, SequenceTheorems, TLAPS

-----------------------------------------------------------------------------
(* Sums: adding an account adds its units, dropping it drops them. *)

LEMMA UnitsCounted ==
  ASSUME NEW k, NEW n \in Nat
  PROVE  IsFiniteSet(Ledger!Units(k, n)) /\ Cardinality(Ledger!Units(k, n)) = n
<1>1. IsFiniteSet({k}) /\ Cardinality({k}) = 1
  BY FS_Singleton
<1>2. IsFiniteSet(1..n) /\ Cardinality(1..n) = n
  BY FS_Interval
<1>3. IsFiniteSet({k} \X (1..n)) /\ Cardinality({k} \X (1..n)) = 1 * n
  <2>1. Cardinality({k} \X (1..n)) = Cardinality({k}) * Cardinality(1..n) /\ IsFiniteSet({k} \X (1..n))
    BY <1>1, <1>2, FS_Product
  <2> QED
    BY <1>1, <1>2, <2>1
<1> QED
  BY <1>3 DEF Ledger!Units

LEMMA UnitsAdded ==
  ASSUME NEW A, NEW k, NEW n \in Nat, IsFiniteSet(A), A \cap Ledger!Units(k, n) = {}
  PROVE  /\ IsFiniteSet(A \cup Ledger!Units(k, n))
         /\ Cardinality(A \cup Ledger!Units(k, n)) = Cardinality(A) + n
<1> DEFINE U == Ledger!Units(k, n)
<1>1. IsFiniteSet(U) /\ Cardinality(U) = n
  BY UnitsCounted
<1>2. Cardinality(A) \in Nat
  BY FS_CardinalityType
<1> HIDE DEF U
<1>3. IsFiniteSet(A \cup U) /\ Cardinality(A \cup U) = Cardinality(A) + Cardinality(U) - Cardinality(A \cap U)
  BY <1>1, FS_Union
<1>4. Cardinality(A \cap U) = 0
  BY FS_EmptySet DEF U
<1> QED
  BY <1>1, <1>2, <1>3, <1>4 DEF U

LEMMA UnitsDropped ==
  ASSUME NEW A, NEW k, NEW n \in Nat, IsFiniteSet(A), Ledger!Units(k, n) \subseteq A
  PROVE  /\ IsFiniteSet(A \ Ledger!Units(k, n))
         /\ Cardinality(A \ Ledger!Units(k, n)) = Cardinality(A) - n
<1> DEFINE U == Ledger!Units(k, n)
<1>1. IsFiniteSet(U) /\ Cardinality(U) = n
  BY UnitsCounted
<1>2. A \cap U = U
  OBVIOUS
<1> HIDE DEF U
<1>3. IsFiniteSet(A \ U) /\ Cardinality(A \ U) = Cardinality(A) - Cardinality(A \cap U)
  BY FS_Difference
<1> QED
  BY <1>1, <1>2, <1>3 DEF U

HeldUnits == UNION {Ledger!Units(k, books.of[k].amount) : k \in Ledger!InState("RESERVED")}

BookedUnits == UNION {Ledger!Units(k, books.of[k].booked) : k \in Key}

\* The row states the sum of the accounts, an account without a booking has none,
\* and what is counted is finite.
Sums ==
  /\ IsFiniteSet(HeldUnits) /\ IsFiniteSet(BookedUnits)
  /\ \A k \in Key : books.of[k].state \in {"none", "RESERVED"} => books.of[k].booked = 0
  /\ books.reserved = Cardinality(HeldUnits)
  /\ books.committed = narrated + Cardinality(BookedUnits)

BooksType == books \in [cap: Caps, committed: Nat, reserved: Nat, of: [Key -> Reservation]]

\* What a step may do to the books: nothing, hold an amount, settle one.
Holds(k, n) ==
  /\ books.of[k].state = "none"
  /\ books' = [books EXCEPT !.reserved = @ + n,
                            !.of[k] = [state |-> "RESERVED", amount |-> n, booked |-> 0]]

Settles(k, n) ==
  /\ Open(k) /\ books.reserved >= books.of[k].amount
  /\ books' = [books EXCEPT !.reserved = @ - books.of[k].amount,
                            !.committed = @ + n,
                            !.of[k].state = IF n > 0 THEN "COMMITTED" ELSE "RELEASED",
                            !.of[k].booked = n]

Accounts == [Key -> Reservation]

BookSet == [cap: Caps, committed: Nat, reserved: Nat, of: Accounts]

LEMMA BooksSet ==
  ASSUME BooksType
  PROVE  \A x \in Nat, y \in Nat, g \in Accounts :
           /\ [books EXCEPT !.reserved = x, !.of = g] \in BookSet
           /\ [books EXCEPT !.reserved = x, !.committed = y, !.of = g] \in BookSet
<1>1. books \in [cap: Caps, committed: Nat, reserved: Nat, of: Accounts]
  BY DEF BooksType, Accounts
<1>2. \A x \in Nat, g \in Accounts : [books EXCEPT !.reserved = x, !.of = g] \in BookSet
  BY <1>1 DEF BookSet
<1>3. \A x \in Nat, y \in Nat, g \in Accounts : [books EXCEPT !.reserved = x, !.committed = y, !.of = g] \in BookSet
  BY <1>1 DEF BookSet
<1> QED
  BY <1>2, <1>3, Zenon

LEMMA HoldsFacts ==
  ASSUME BooksType, NEW k \in Key, NEW n \in Nat, Holds(k, n)
  PROVE  /\ BooksType'
         /\ books'.of[k] = [state |-> "RESERVED", amount |-> n, booked |-> 0]
         /\ \A j \in Key : j # k => books'.of[j] = books.of[j]
         /\ books'.cap = books.cap /\ books'.committed = books.committed
         /\ books'.reserved = books.reserved + n
         /\ books'.of = [books.of EXCEPT ![k] = [state |-> "RESERVED", amount |-> n, booked |-> 0]]
<1> DEFINE g == [books.of EXCEPT ![k] = [state |-> "RESERVED", amount |-> n, booked |-> 0]]
<1>1. g \in Accounts
  BY DEF BooksType, Reservation, Accounts
<1>2. books' = [books EXCEPT !.reserved = books.reserved + n, !.of = g]
  BY DEF Holds, BooksType
<1>3. books.reserved + n \in Nat
  BY DEF BooksType
<1>4. BooksType'
  <2> HIDE DEF g
  <2>1. books' \in BookSet
    BY <1>1, <1>2, <1>3, BooksSet, Zenon
  <2> QED
    BY <2>1 DEF BooksType, BookSet, Accounts
<1>5. books'.of = g /\ books'.cap = books.cap /\ books'.committed = books.committed
        /\ books'.reserved = books.reserved + n
  BY DEF Holds, BooksType
<1> QED
  BY <1>4, <1>5 DEF BooksType

LEMMA SettlesFacts ==
  ASSUME BooksType, NEW k \in Key, NEW n \in Nat, Settles(k, n)
  PROVE  /\ BooksType'
         /\ books'.of[k] = [state |-> IF n > 0 THEN "COMMITTED" ELSE "RELEASED",
                            amount |-> books.of[k].amount, booked |-> n]
         /\ \A j \in Key : j # k => books'.of[j] = books.of[j]
         /\ books'.cap = books.cap /\ books'.committed = books.committed + n
         /\ books'.reserved = books.reserved - books.of[k].amount
         /\ books'.of = [books.of EXCEPT ![k].state = IF n > 0 THEN "COMMITTED" ELSE "RELEASED",
                                         ![k].booked = n]
<1> DEFINE g == [books.of EXCEPT ![k].state = IF n > 0 THEN "COMMITTED" ELSE "RELEASED", ![k].booked = n]
<1>1. [books.of[k] EXCEPT !.state = IF n > 0 THEN "COMMITTED" ELSE "RELEASED", !.booked = n] \in Reservation
  BY DEF BooksType, Reservation
<1>2. g \in Accounts
  BY <1>1 DEF BooksType, Accounts
<1>3. books' = [books EXCEPT !.reserved = books.reserved - books.of[k].amount,
                             !.committed = books.committed + n, !.of = g]
  BY DEF Settles, BooksType
<1>4. books.reserved - books.of[k].amount \in Nat /\ books.committed + n \in Nat
  BY DEF Settles, BooksType, Reservation
<1>5. BooksType'
  <2> HIDE DEF g
  <2>1. books' \in BookSet
    BY <1>2, <1>3, <1>4, BooksSet, Zenon
  <2> QED
    BY <2>1 DEF BooksType, BookSet, Accounts
<1>6. books'.of = g /\ books'.cap = books.cap /\ books'.committed = books.committed + n
        /\ books'.reserved = books.reserved - books.of[k].amount
  BY DEF Settles, BooksType
<1>7. g[k] = [state |-> IF n > 0 THEN "COMMITTED" ELSE "RELEASED", amount |-> books.of[k].amount, booked |-> n]
  BY DEF BooksType, Reservation
<1> QED
  BY <1>5, <1>6, <1>7 DEF BooksType

\* The sums follow each of the two.
LEMMA HoldsKeepsSums ==
  ASSUME BooksType, Sums, NEW k \in Key, NEW n \in Nat, Holds(k, n), narrated' = narrated
  PROVE  Sums'
<1>1. /\ books'.of[k] = [state |-> "RESERVED", amount |-> n, booked |-> 0]
      /\ \A j \in Key : j # k => books'.of[j] = books.of[j]
      /\ books'.committed = books.committed
      /\ books'.reserved = books.reserved + n
  BY HoldsFacts
<1>2. books.of[k].state = "none" /\ books.of[k].booked = 0
  BY DEF Holds, Sums
<1>3. HeldUnits' = HeldUnits \cup Ledger!Units(k, n)
  BY <1>1, <1>2 DEF HeldUnits, Ledger!InState, Ledger!Units
<1>4. HeldUnits \cap Ledger!Units(k, n) = {}
  BY <1>2 DEF HeldUnits, Ledger!InState, Ledger!Units
<1>5. BookedUnits' = BookedUnits
  BY <1>1, <1>2 DEF BookedUnits, Ledger!Units
<1>6. IsFiniteSet(HeldUnits') /\ Cardinality(HeldUnits') = Cardinality(HeldUnits) + n
  BY <1>3, <1>4, UnitsAdded DEF Sums
<1> QED
  BY <1>1, <1>2, <1>5, <1>6 DEF Sums

LEMMA SettlesKeepsSums ==
  ASSUME BooksType, Sums, NEW k \in Key, NEW n \in Nat, Settles(k, n), narrated \in Nat, narrated' = narrated
  PROVE  Sums'
<1>1. /\ books'.of[k] = [state |-> IF n > 0 THEN "COMMITTED" ELSE "RELEASED",
                         amount |-> books.of[k].amount, booked |-> n]
      /\ \A j \in Key : j # k => books'.of[j] = books.of[j]
      /\ books'.committed = books.committed + n
      /\ books'.reserved = books.reserved - books.of[k].amount
  BY SettlesFacts
<1>2. books.of[k].state = "RESERVED" /\ books.of[k].booked = 0 /\ books.of[k].amount \in Nat
  BY DEF Settles, Open, Sums, BooksType, Reservation
<1> DEFINE U == Ledger!Units(k, books.of[k].amount)
<1>3. HeldUnits' = HeldUnits \ U
  BY <1>1, <1>2 DEF HeldUnits, Ledger!InState, Ledger!Units
<1>4. U \subseteq HeldUnits
  BY <1>2 DEF HeldUnits, Ledger!InState
<1>5. BookedUnits' = BookedUnits \cup Ledger!Units(k, n)
  BY <1>1, <1>2 DEF BookedUnits, Ledger!Units
<1>6. BookedUnits \cap Ledger!Units(k, n) = {}
  BY <1>2 DEF BookedUnits, Ledger!Units
<1>7. IsFiniteSet(HeldUnits') /\ Cardinality(HeldUnits') = Cardinality(HeldUnits) - books.of[k].amount
  BY <1>2, <1>3, <1>4, UnitsDropped DEF Sums
<1>8. IsFiniteSet(BookedUnits') /\ Cardinality(BookedUnits') = Cardinality(BookedUnits) + n
  BY <1>5, <1>6, UnitsAdded DEF Sums
<1>9. Cardinality(BookedUnits) \in Nat
  BY FS_CardinalityType DEF Sums
<1>10. \A j \in Key : books'.of[j].state \in {"none", "RESERVED"} => books'.of[j].booked = 0
  BY <1>1 DEF Sums
<1> HIDE DEF U
<1> QED
  BY <1>1, <1>7, <1>8, <1>9, <1>10 DEF Sums

-----------------------------------------------------------------------------
(* What reserving and reconciling do to the accounts. *)

LEMMA ReserveFacts ==
  ASSUME BooksType, NEW k \in Key, NEW n \in Nat, Reserve(k, n)
  PROVE  /\ BooksType'
         /\ Holds(k, n) \/ UNCHANGED books
         /\ \A j \in Key : books'.of[j].state =
              IF j = k /\ books.of[k].state = "none" THEN "RESERVED" ELSE books.of[j].state
<1>1. CASE Known(k)
  BY <1>1 DEF Reserve, Known, BooksType
<1>2. CASE ~Known(k)
  <2>1. Holds(k, n)
    BY <1>2 DEF Reserve, Known, Holds
  <2>2. /\ BooksType'
        /\ books'.of[k] = [state |-> "RESERVED", amount |-> n, booked |-> 0]
        /\ \A j \in Key : j # k => books'.of[j] = books.of[j]
    BY <2>1, HoldsFacts
  <2> QED
    BY <1>2, <2>1, <2>2 DEF Known
<1> QED
  BY <1>1, <1>2

LEMMA ReconcileFacts ==
  ASSUME BooksType, NEW k \in Key, NEW n \in Nat, MayReconcile(k), Reconcile(k, n)
  PROVE  /\ BooksType'
         /\ Settles(k, n) \/ UNCHANGED books
         /\ \A j \in Key : books'.of[j].state =
              IF j = k /\ books.of[k].state = "RESERVED"
              THEN IF n > 0 THEN "COMMITTED" ELSE "RELEASED"
              ELSE books.of[j].state
<1>1. CASE Open(k)
  <2>1. Settles(k, n)
    BY <1>1 DEF Reconcile, MayReconcile, Settles
  <2>2. BooksType' /\ \A j \in Key : j # k => books'.of[j] = books.of[j]
    BY <2>1, SettlesFacts
  <2>3. books'.of[k].state = IF n > 0 THEN "COMMITTED" ELSE "RELEASED"
    <3>1. PICK v : v = IF n > 0 THEN "COMMITTED" ELSE "RELEASED"
      OBVIOUS
    <3>2. books'.of = [books.of EXCEPT ![k].state = v, ![k].booked = n]
      BY <2>1, <3>1 DEF Settles, BooksType
    <3>3. books'.of[k].state = v
      BY <3>2 DEF BooksType, Reservation
    <3> QED
      BY <3>1, <3>3
  <2> QED
    BY <1>1, <2>1, <2>2, <2>3 DEF Open
<1>2. CASE ~Open(k)
  <2>1. UNCHANGED books /\ books.of[k].state # "RESERVED"
    BY <1>2 DEF Reconcile, Open
  <2>2. BooksType'
    BY <2>1 DEF BooksType
  <2> QED
    BY <2>1, <2>2
<1> QED
  BY <1>1, <1>2

LEMMA Keys ==
  /\ \A s \in Shot, k \in 0..MaxTasks : <<s, k>> \in Key
  /\ \A f \in Frame : <<f, 0>> \in Key
  /\ \A s \in Shot, f \in Frame, k \in 0..MaxTasks : <<s, k>> # <<f, 0>>
BY LedgerAssumption DEF Key

-----------------------------------------------------------------------------
(* Shots. *)

\* A submission: its status, whether its task is known, the number and the price it was
\* made under, and the money for it.
Status == [s \in Shot |-> [k \in 1..MaxTasks |-> IF k <= Len(tasks[s]) THEN tasks[s][k].status ELSE "unsubmitted"]]

Seen == [s \in Shot |-> [k \in 1..MaxTasks |-> IF k <= Len(tasks[s]) THEN tasks[s][k].known ELSE FALSE]]

Number == [s \in Shot |-> [k \in 1..MaxTasks |-> IF k <= Len(tasks[s]) THEN tasks[s][k].number ELSE 0]]

Price == [s \in Shot |-> [k \in 1..MaxTasks |-> IF k <= Len(tasks[s]) THEN tasks[s][k].price ELSE 0]]

Money == [s \in Shot |-> [k \in 1..MaxTasks |-> books.of[<<s, k>>].state]]

Repeated == {"failed", "submission_failed"}

Created == {"pending", "succeeded", "failed", "cancelled"}

\* What an attempt knows of the submission it is at.
Working(w) ==
  worker[w].pc # "idle" =>
    LET s == worker[w].shot
        k == worker[w].task
    IN /\ s \in Shot /\ k \in 1..MaxTasks /\ worker[w].price \in {Gen45, Turbo}
       /\ worker[w].pc = "called" => Status[s][k] = "pre_call"
       /\ worker[w].pc \in {"polling", "won", "lost", "downloading"} => Status[s][k] \in Created
       /\ worker[w].pc = "lost" => remote[s][k] \in {"failed", "cancelled"}
       /\ worker[w].pc \in {"won", "downloading"} => remote[s][k] = "succeeded"

\* Only one attempt waits for the answer to a submission.
OneCalls ==
  \A v, w \in AnimationWorker :
    (worker[v].pc = "called" /\ worker[w].pc = "called"
       /\ worker[v].shot = worker[w].shot /\ worker[v].task = worker[w].task) => v = w

\* A task is known when it was created; nothing has happened to a submission to come.
Submission(s, k) ==
  /\ Seen[s][k] = TRUE <=> Status[s][k] \in Created
  /\ Status[s][k] \in Created => remote[s][k] \notin {"none", "sent"}
  /\ Status[s][k] = "failed" => remote[s][k] = "failed"
  /\ Status[s][k] = "unsubmitted" => remote[s][k] = "none" /\ Money[s][k] = "none"

\* A submission was made under this number.
Occurs(s, n) == \E i \in 1..MaxTasks : Number[s][i] = n

\* An earlier submission has the number of this one and another price.
Marked(s, i) ==
  /\ Number[s][i] # 0
  /\ \E h \in 1..MaxTasks : h < i /\ Number[s][h] = Number[s][i] /\ Price[s][h] # Price[s][i]

\* Numbers are given out in order.
Numbered(s, k) ==
  /\ Number[s][k] # 0 <=> Status[s][k] # "unsubmitted"
  /\ Number[s][k] \in 0..k
  /\ \A n \in 1..MaxTasks : n <= Number[s][k] => Occurs(s, n)

\* A submission follows one that did not fail only behind a marked one.
InTurn(s) ==
  \A j, k \in 1..MaxTasks : (j < k /\ Status[s][k] # "unsubmitted") =>
    Status[s][j] \in Repeated \/ \E i \in 1..MaxTasks : j <= i /\ i <= k /\ Marked(s, i)

Turns == \A s \in Shot : InTurn(s) /\ \A k \in 1..MaxTasks : Numbered(s, k)

\* Every submission failed, or is followed by a marked one.
Free(s) ==
  \A j \in 1..MaxTasks : \/ Status[s][j] \in Repeated \cup {"unsubmitted"}
                         \/ \E i \in 1..MaxTasks : j <= i /\ Marked(s, i)

\* An attempt about to submit takes the next number; when nobody has used it, nothing
\* stands in the way of the submission.
Ready(w) ==
  worker[w].pc = "submitting" =>
    \A s \in Shot, k \in 1..MaxTasks : (s = worker[w].shot /\ k = worker[w].task) =>
      /\ \A n \in 1..MaxTasks : n < k => Occurs(s, n)
      /\ Occurs(s, k) \/ Free(s)

\* Without an interruption, a submission that failed made no task, and what Runway has
\* or may have is paid for.
Accounted(s, k) ==
  /\ Status[s][k] = "submission_failed" => remote[s][k] = "none"
  /\ remote[s][k] \in {"sent", "running", "succeeded"} => Money[s][k] \in {"RESERVED", "COMMITTED"}
  /\ video[s] = k => Money[s][k] = "COMMITTED"

ShotInv ==
  /\ AnimationType
  /\ \A w \in AnimationWorker : Working(w) /\ Ready(w)
  /\ OneCalls
  /\ Turns
  /\ \A s \in Shot, k \in 1..MaxTasks : Submission(s, k) /\ (s \notin interrupted => Accounted(s, k))

LEMMA SetTaskFacts ==
  ASSUME AnimationType, NEW s \in Shot, NEW k \in 1..Len(tasks[s]), NEW v \in TaskStatus, SetTask(s, k, v)
  PROVE  /\ tasks' \in [Shot -> Seq(RunwayTask)]
         /\ \A t \in Shot : Len(tasks'[t]) = Len(tasks[t])
         /\ \A t \in Shot : \A j \in 1..Len(tasks[t]) :
              /\ tasks'[t][j].known = tasks[t][j].known
              /\ tasks'[t][j].number = tasks[t][j].number /\ tasks'[t][j].price = tasks[t][j].price
              /\ tasks'[t][j].status = IF t = s /\ j = k THEN v ELSE tasks[t][j].status
<1> DEFINE e == [tasks[s][k] EXCEPT !.status = v]
           q == [tasks[s] EXCEPT ![k] = e]
<1>1. tasks \in [Shot -> Seq(RunwayTask)] /\ tasks[s] \in Seq(RunwayTask) /\ tasks[s][k] \in RunwayTask
  BY ElementOfSeq DEF AnimationType, RunwayTask
<1>2. /\ e \in RunwayTask /\ e.status = v /\ e.known = tasks[s][k].known
      /\ e.number = tasks[s][k].number /\ e.price = tasks[s][k].price
  BY <1>1 DEF RunwayTask
<1>3. /\ q \in Seq(RunwayTask) /\ Len(q) = Len(tasks[s])
      /\ \A j \in 1..Len(tasks[s]) : q[j] = IF j = k THEN e ELSE tasks[s][j]
  <2> HIDE DEF e
  <2> QED
    BY <1>1, <1>2, ExceptSeq
<1>4. tasks' = [tasks EXCEPT ![s] = q]
  BY <1>1 DEF SetTask
<1> HIDE DEF q, e
<1> QED
  BY <1>1, <1>2, <1>3, <1>4

LEMMA AppendTaskFacts ==
  ASSUME AnimationType, NEW s \in Shot, NEW e \in RunwayTask, tasks' = [tasks EXCEPT ![s] = Append(@, e)]
  PROVE  /\ tasks' \in [Shot -> Seq(RunwayTask)]
         /\ \A t \in Shot : Len(tasks'[t]) = IF t = s THEN Len(tasks[t]) + 1 ELSE Len(tasks[t])
         /\ \A t \in Shot : \A j \in 1..Len(tasks[t]) : tasks'[t][j] = tasks[t][j]
         /\ tasks'[s][Len(tasks[s]) + 1] = e
<1>1. tasks \in [Shot -> Seq(RunwayTask)]
  BY DEF AnimationType, RunwayTask
<1> HIDE DEF RunwayTask
<1>2. /\ Append(tasks[s], e) \in Seq(RunwayTask)
      /\ Len(Append(tasks[s], e)) = Len(tasks[s]) + 1
      /\ \A i \in 1..Len(tasks[s]) : Append(tasks[s], e)[i] = tasks[s][i]
      /\ Append(tasks[s], e)[Len(tasks[s]) + 1] = e
  BY <1>1, AppendProperties
<1> QED
  BY <1>1, <1>2

\* The type, element by element.
LEMMA TypedTasks ==
  ASSUME AnimationType
  PROVE  /\ tasks \in [Shot -> Seq(RunwayTask)]
         /\ \A s \in Shot : Len(tasks[s]) \in 0..MaxTasks /\ (Len(tasks[s]) = 0 <=> tasks[s] = <<>>)
         /\ \A s \in Shot : \A k \in 1..Len(tasks[s]) :
              /\ tasks[s][k].status \in TaskStatus /\ tasks[s][k].known \in BOOLEAN
              /\ tasks[s][k].number \in 1..MaxTasks /\ tasks[s][k].price \in {Gen45, Turbo}
<1>1. tasks \in [Shot -> Seq(RunwayTask)] /\ \A s \in Shot : Len(tasks[s]) <= MaxTasks
  BY DEF AnimationType, RunwayTask
<1>2. \A s \in Shot : \A k \in 1..Len(tasks[s]) : tasks[s][k] \in RunwayTask
  BY <1>1, ElementOfSeq
<1>3. \A s \in Shot : Len(tasks[s]) \in Nat /\ (Len(tasks[s]) = 0 <=> tasks[s] = <<>>)
  BY <1>1, LenProperties, EmptySeq
<1>4. \A s \in Shot : Len(tasks[s]) \in 0..MaxTasks
  BY <1>1, <1>3, LedgerAssumption
<1>5. \A s \in Shot : \A k \in 1..Len(tasks[s]) :
        /\ tasks[s][k].status \in TaskStatus /\ tasks[s][k].known \in BOOLEAN
        /\ tasks[s][k].number \in 1..MaxTasks /\ tasks[s][k].price \in {Gen45, Turbo}
  BY <1>2 DEF RunwayTask
<1> QED
  BY <1>1, <1>3, <1>4, <1>5

LEMMA ItemSet ==
  ASSUME AnimationType, NEW s \in Shot
  PROVE  /\ \A v \in ItemStatus :
              [item EXCEPT ![s].status = v] \in [Shot -> [status: ItemStatus, price: {0, Gen45, Turbo}]]
         /\ \A p \in {0, Gen45, Turbo} :
              [item EXCEPT ![s].price = p] \in [Shot -> [status: ItemStatus, price: {0, Gen45, Turbo}]]
         /\ \A v \in ItemStatus, p \in {0, Gen45, Turbo} :
              [item EXCEPT ![s] = [status |-> v, price |-> p]]
                \in [Shot -> [status: ItemStatus, price: {0, Gen45, Turbo}]]
<1> DEFINE P == {0, Gen45, Turbo}
           V == ItemStatus
<1>1. item \in [Shot -> [status: V, price: P]]
  BY DEF AnimationType
<1> HIDE DEF P, V
<1>2. /\ \A v \in V : [item[s] EXCEPT !.status = v] \in [status: V, price: P]
      /\ \A p \in P : [item[s] EXCEPT !.price = p] \in [status: V, price: P]
      /\ \A v \in V, p \in P : [status |-> v, price |-> p] \in [status: V, price: P]
  BY <1>1
<1>3. /\ \A v \in V : [item EXCEPT ![s].status = v] \in [Shot -> [status: V, price: P]]
      /\ \A p \in P : [item EXCEPT ![s].price = p] \in [Shot -> [status: V, price: P]]
      /\ \A v \in V, p \in P : [item EXCEPT ![s] = [status |-> v, price |-> p]] \in [Shot -> [status: V, price: P]]
  BY <1>1, <1>2
<1> QED
  BY <1>3 DEF P, V

LEMMA WorkerSet ==
  ASSUME AnimationType, NEW w \in AnimationWorker
  PROVE  /\ \A x \in Worker : [worker EXCEPT ![w] = x] \in [AnimationWorker -> Worker]
         /\ Idle \in Worker
         /\ \A pc \in {"idle", "submitting", "called", "polling", "won", "lost", "downloading"} :
              [worker EXCEPT ![w].pc = pc] \in [AnimationWorker -> Worker]
<1>1. worker \in [AnimationWorker -> Worker] /\ worker[w] \in Worker
  BY DEF AnimationType
<1>2. Idle \in Worker
  BY LedgerAssumption DEF Idle, Worker
<1>3. \A pc \in {"idle", "submitting", "called", "polling", "won", "lost", "downloading"} :
        [worker[w] EXCEPT !.pc = pc] \in Worker
  BY <1>1 DEF Worker
<1> QED
  BY <1>1, <1>2, <1>3

\* The numbers of the submissions stay.
SameNumbers ==
  \A s \in Shot, k \in 1..MaxTasks : Number'[s][k] = Number[s][k] /\ Price'[s][k] = Price[s][k]

\* Then only failing more and being submitted could change whose turn it is.
LEMMA TurnsKept ==
  ASSUME Turns, SameNumbers,
         \A s \in Shot, k \in 1..MaxTasks :
           /\ Status[s][k] \in Repeated => Status'[s][k] \in Repeated
           /\ Status'[s][k] = "unsubmitted" <=> Status[s][k] = "unsubmitted"
  PROVE  /\ Turns'
         /\ \A s \in Shot : /\ \A n \in 1..MaxTasks : Occurs(s, n)' <=> Occurs(s, n)
                            /\ Free(s) => Free(s)'
<1>1. \A s \in Shot, n \in 1..MaxTasks : Occurs(s, n)' <=> Occurs(s, n)
  BY DEF SameNumbers, Occurs
<1>2. \A s \in Shot, i \in 1..MaxTasks : Marked(s, i)' <=> Marked(s, i)
  BY DEF SameNumbers, Marked
<1>3. \A s \in Shot : Free(s) => Free(s)'
  BY <1>2 DEF Free
<1>4. \A s \in Shot : InTurn(s)'
  BY <1>2 DEF Turns, InTurn
<1>5. \A s \in Shot, k \in 1..MaxTasks : Numbered(s, k)'
  BY <1>1 DEF Turns, Numbered, SameNumbers
<1> QED
  BY <1>1, <1>3, <1>4, <1>5 DEF Turns

\* Nobody starts a submission, and whoever is about to make one may as before.
LEMMA StillReady ==
  ASSUME ShotInv, SameNumbers,
         \A s \in Shot, k \in 1..MaxTasks :
           /\ Status[s][k] \in Repeated => Status'[s][k] \in Repeated
           /\ Status'[s][k] = "unsubmitted" <=> Status[s][k] = "unsubmitted",
         \A u \in AnimationWorker : worker'[u].pc = "submitting" => worker'[u] = worker[u]
  PROVE  Turns' /\ \A u \in AnimationWorker : Ready(u)'
<1>1. /\ Turns'
      /\ \A s \in Shot : /\ \A n \in 1..MaxTasks : Occurs(s, n)' <=> Occurs(s, n)
                         /\ Free(s) => Free(s)'
  BY TurnsKept DEF ShotInv
<1>2. ASSUME NEW u \in AnimationWorker
      PROVE  Ready(u)'
  <2>1. Ready(u)
    BY DEF ShotInv
  <2> QED
    BY <1>1, <2>1 DEF Ready
<1> QED
  BY <1>1, <1>2

\* How the submissions are seen after a step.
LEMMA SeenTyped ==
  ASSUME AnimationType
  PROVE  /\ Status \in [Shot -> [1..MaxTasks -> TaskStatus \cup {"unsubmitted"}]]
         /\ Seen \in [Shot -> [1..MaxTasks -> BOOLEAN]]
         /\ \A s \in Shot, k \in 1..MaxTasks : Status[s][k] = "unsubmitted" <=> k > Len(tasks[s])
         /\ \A s \in Shot, k \in 1..MaxTasks : Number[s][k] \in 0..MaxTasks
<1>1. ASSUME NEW s \in Shot, NEW k \in 1..MaxTasks
      PROVE  /\ Status[s][k] \in TaskStatus \cup {"unsubmitted"} /\ Seen[s][k] \in BOOLEAN
             /\ Status[s][k] = "unsubmitted" <=> k > Len(tasks[s])
             /\ Number[s][k] \in 0..MaxTasks
  <2>1. Len(tasks[s]) \in 0..MaxTasks /\ MaxTasks \in Nat
    BY TypedTasks, LedgerAssumption
  <2>2. CASE k <= Len(tasks[s])
    <3>1. tasks[s][k].status \in TaskStatus /\ tasks[s][k].known \in BOOLEAN /\ "unsubmitted" \notin TaskStatus
      BY <2>1, <2>2, TypedTasks DEF TaskStatus
    <3>2. Status[s][k] = tasks[s][k].status /\ Seen[s][k] = tasks[s][k].known
      BY <2>2 DEF Status, Seen
    <3>3. Number[s][k] = tasks[s][k].number /\ tasks[s][k].number \in 1..MaxTasks
      BY <2>1, <2>2, TypedTasks DEF Number
    <3> QED
      BY <2>1, <2>2, <3>1, <3>2, <3>3
  <2>3. CASE ~(k <= Len(tasks[s]))
    <3>1. Status[s][k] = "unsubmitted" /\ Seen[s][k] = FALSE
      BY <2>3 DEF Status, Seen
    <3>2. Seen[s][k] \in BOOLEAN /\ Status[s][k] \in TaskStatus \cup {"unsubmitted"}
      BY <3>1, Zenon
    <3>3. k > Len(tasks[s])
      BY <2>1, <2>3
    <3>4. Number[s][k] \in 0..MaxTasks
      BY <2>1, <2>3 DEF Number
    <3> QED
      BY <3>1, <3>2, <3>3, <3>4
  <2> QED
    BY <2>2, <2>3
<1>2. Status \in [Shot -> [1..MaxTasks -> TaskStatus \cup {"unsubmitted"}]]
  BY <1>1 DEF Status
<1>3. Seen \in [Shot -> [1..MaxTasks -> BOOLEAN]]
  BY <1>1 DEF Seen
<1> QED
  BY <1>1, <1>2, <1>3

LEMMA SameTasks ==
  ASSUME UNCHANGED tasks
  PROVE  Status' = Status /\ Seen' = Seen /\ SameNumbers
BY DEF Status, Seen, Number, Price, SameNumbers

LEMMA SameBooks ==
  ASSUME UNCHANGED books
  PROVE  Money' = Money
BY DEF Money

LEMMA TaskSet ==
  ASSUME AnimationType, NEW s \in Shot, NEW k \in 1..MaxTasks, k <= Len(tasks[s]), NEW v \in TaskStatus, SetTask(s, k, v)
  PROVE  /\ tasks' \in [Shot -> Seq(RunwayTask)] /\ \A t \in Shot : Len(tasks'[t]) <= MaxTasks
         /\ \A t \in Shot, j \in 1..MaxTasks :
              /\ Status'[t][j] = IF t = s /\ j = k THEN v ELSE Status[t][j]
              /\ Seen'[t][j] = Seen[t][j]
         /\ SameNumbers
<1>1. /\ tasks' \in [Shot -> Seq(RunwayTask)]
      /\ \A t \in Shot : Len(tasks'[t]) = Len(tasks[t])
      /\ \A t \in Shot : \A j \in 1..Len(tasks[t]) :
           /\ tasks'[t][j].known = tasks[t][j].known
           /\ tasks'[t][j].number = tasks[t][j].number /\ tasks'[t][j].price = tasks[t][j].price
           /\ tasks'[t][j].status = IF t = s /\ j = k THEN v ELSE tasks[t][j].status
  <2>1. k \in 1..Len(tasks[s])
    BY TypedTasks
  <2> QED
    BY <2>1, SetTaskFacts
<1>2. ASSUME NEW t \in Shot, NEW j \in 1..MaxTasks
      PROVE  /\ Status'[t][j] = IF t = s /\ j = k THEN v ELSE Status[t][j]
             /\ Seen'[t][j] = Seen[t][j]
             /\ Number'[t][j] = Number[t][j] /\ Price'[t][j] = Price[t][j]
  <2>1. Len(tasks[t]) \in 0..MaxTasks /\ MaxTasks \in Nat /\ Len(tasks'[t]) = Len(tasks[t])
    BY <1>1, TypedTasks, LedgerAssumption
  <2>2. CASE j <= Len(tasks[t])
    <3>1. j \in 1..Len(tasks[t])
      BY <2>1, <2>2
    <3>2. Number'[t][j] = Number[t][j] /\ Price'[t][j] = Price[t][j]
      BY <1>1, <2>1, <2>2, <3>1 DEF Number, Price
    <3> QED
      BY <1>1, <2>1, <2>2, <3>1, <3>2 DEF Status, Seen
  <2>3. CASE ~(j <= Len(tasks[t]))
    <3>1. ~(j <= Len(tasks'[t]))
      BY <2>1, <2>3
    <3>3. Number'[t][j] = Number[t][j] /\ Price'[t][j] = Price[t][j]
      BY <2>3, <3>1 DEF Number, Price
    <3>2. /\ Status[t][j] = "unsubmitted" /\ Status'[t][j] = "unsubmitted"
          /\ Seen[t][j] = FALSE /\ Seen'[t][j] = FALSE
      BY <2>3, <3>1 DEF Status, Seen
    <3> QED
      BY <2>3, <3>2, <3>3
  <2> QED
    BY <2>2, <2>3
<1>3. SameNumbers
  BY <1>2 DEF SameNumbers
<1> QED
  BY <1>1, <1>2, <1>3, TypedTasks

\* The books seen from the shots: which of their keys an action of another part
\* may touch does not matter to them.
LEMMA ShotsUntouched ==
  ASSUME ShotInv, UNCHANGED animationVars, Money' = Money
  PROVE  ShotInv'
<1>1. Status' = Status /\ Seen' = Seen /\ SameNumbers
  BY SameTasks DEF animationVars
<1>2. AnimationType'
  BY DEF ShotInv, AnimationType, animationVars
<1>3. (\A w \in AnimationWorker : Working(w)') /\ OneCalls'
  BY <1>1 DEF ShotInv, Working, OneCalls, animationVars
<1>4. Turns' /\ \A w \in AnimationWorker : Ready(w)'
  BY <1>1, StillReady DEF animationVars
<1>5. \A s \in Shot, k \in 1..MaxTasks : Submission(s, k)' /\ (s \notin interrupted' => Accounted(s, k)')
  BY <1>1 DEF ShotInv, Submission, Accounted, animationVars
<1> QED
  BY <1>2, <1>3, <1>4, <1>5 DEF ShotInv

LEMMA ShotBegin ==
  ASSUME ShotInv, NEW w \in AnimationWorker, NEW s \in Shot, Begin(w, s)
  PROVE  ShotInv'
<1> DEFINE last == Len(tasks[s])
           k == Task(s).number + 1
           rec == [pc |-> "submitting", shot |-> s, task |-> k, price |-> Route(s)]
<1>0. last \in 0..(MaxTasks - 1) /\ MaxTasks \in Nat /\ Resubmittable(Task(s).status)
  BY TypedTasks, LedgerAssumption DEF Begin, ShotInv
<1>1. \/ last = 0 /\ k = 1
      \/ /\ last \in 1..MaxTasks /\ k = Number[s][last] + 1
         /\ Status[s][last] = Task(s).status /\ Status[s][last] # "unsubmitted"
  <2>1. CASE last = 0
    BY <2>1, TypedTasks DEF Task, ShotInv
  <2>2. CASE last # 0
    <3>1. last \in 1..MaxTasks /\ last <= Len(tasks[s]) /\ Task(s) = tasks[s][last]
      BY <1>0, <2>2, TypedTasks DEF Task, Last, ShotInv
    <3>2. Number[s][last] = Task(s).number /\ Status[s][last] = Task(s).status
      BY <3>1 DEF Number, Status
    <3>3. Status[s][last] # "unsubmitted"
      BY <1>0, <3>1, SeenTyped DEF ShotInv
    <3> QED
      BY <3>1, <3>2, <3>3
  <2> QED
    BY <2>1, <2>2
<1> HIDE DEF last, k
<1>2. Route(s) \in {Gen45, Turbo} /\ k \in 1..MaxTasks
  <2>1. Route(s) \in {Gen45, Turbo}
    BY DEF Begin, Start, Route
  <2>2. last \in 1..MaxTasks => Number[s][last] \in 0..last
    BY DEF ShotInv, Turns, Numbered
  <2> QED
    BY <1>0, <1>1, <2>1, <2>2
<1>3. Status' = Status /\ Seen' = Seen /\ SameNumbers /\ Money' = Money
  BY SameTasks, SameBooks DEF Begin, ledgerVars
<1>4. rec \in Worker
  BY <1>2 DEF Worker
<1>5. worker' = [worker EXCEPT ![w] = rec] /\ \A v \in AnimationWorker : worker'[v] = IF v = w THEN rec ELSE worker[v]
  BY DEF Begin, ShotInv, AnimationType, k
<1>6. AnimationType'
  <2>1. item' \in [Shot -> [status: ItemStatus, price: {0, Gen45, Turbo}]]
    BY <1>2, ItemSet DEF ShotInv, Begin
  <2>2. worker' \in [AnimationWorker -> Worker]
    BY <1>4, <1>5, WorkerSet DEF ShotInv
  <2> QED
    BY <2>1, <2>2 DEF ShotInv, AnimationType, Begin
<1>7. \A n \in 1..MaxTasks : n < k => Occurs(s, n)
  <2>1. CASE k = 1
    BY <2>1
  <2>2. CASE last \in 1..MaxTasks /\ k = Number[s][last] + 1
    <3>1. Number[s][last] \in Nat /\ \A n \in 1..MaxTasks : n <= Number[s][last] => Occurs(s, n)
      BY <2>2 DEF ShotInv, Turns, Numbered
    <3> QED
      BY <2>2, <3>1
  <2> QED
    BY <1>1, <2>1, <2>2
<1>8. Free(s)
  <2> SUFFICES ASSUME NEW j \in 1..MaxTasks, Status[s][j] \notin Repeated \cup {"unsubmitted"}
               PROVE  \E i \in 1..MaxTasks : j <= i /\ Marked(s, i)
    BY DEF Free
  <2>1. j <= last
    BY <1>0, SeenTyped DEF ShotInv, last
  <2>2. last \in 1..MaxTasks /\ Status[s][last] = Task(s).status /\ Status[s][last] # "unsubmitted"
    BY <1>1, <2>1
  <2>3. Status[s][last] \in TaskStatus
    <3>1. Status \in [Shot -> [1..MaxTasks -> TaskStatus \cup {"unsubmitted"}]]
      BY SeenTyped DEF ShotInv
    <3> QED
      BY <2>2, <3>1
  <2>4. Status[s][last] \in Repeated
    BY <1>0, <2>2, <2>3 DEF Resubmittable, Repeated, TaskStatus
  <2>5. j < last
    BY <1>0, <2>1, <2>4
  <2> QED
    BY <2>2, <2>5 DEF ShotInv, Turns, InTurn
<1>9. /\ Turns'
      /\ \A t \in Shot : /\ \A n \in 1..MaxTasks : Occurs(t, n)' <=> Occurs(t, n)
                         /\ Free(t) => Free(t)'
  BY <1>3, TurnsKept DEF ShotInv
<1>10. ASSUME NEW v \in AnimationWorker
       PROVE  Working(v)' /\ Ready(v)'
  <2>1. Working(v)'
    BY <1>2, <1>3, <1>5 DEF ShotInv, Begin, Working
  <2>2. CASE v = w
    <3>1. Ready(w)'
      BY <1>5, <1>7, <1>8, <1>9 DEF Ready
    <3> QED
      BY <2>1, <2>2, <3>1
  <2>3. CASE v # w
    <3>1. Ready(v)
      BY DEF ShotInv
    <3> QED
      BY <1>5, <1>9, <2>1, <2>3, <3>1 DEF Ready
  <2> QED
    BY <2>2, <2>3
<1>11. OneCalls'
  BY <1>5 DEF ShotInv, OneCalls
<1>12. \A t \in Shot, j \in 1..MaxTasks : Submission(t, j)' /\ (t \notin interrupted' => Accounted(t, j)')
  BY <1>3 DEF ShotInv, Begin, Submission, Accounted
<1> QED
  BY <1>6, <1>9, <1>10, <1>11, <1>12 DEF ShotInv

LEMMA ShotResume ==
  ASSUME ShotInv, NEW w \in AnimationWorker, NEW s \in Shot, Resume(w, s)
  PROVE  ShotInv'
<1> DEFINE k == Len(tasks[s])
           rec == [pc |-> "polling", shot |-> s, task |-> k, price |-> Route(s)]
<1>1. Route(s) \in {Gen45, Turbo} /\ k \in 1..MaxTasks /\ Seen[s][k] = TRUE
  BY TypedTasks, LedgerAssumption DEF Resume, Start, Route, Resumable, Task, Last, ShotInv, Seen
<1>2. Status' = Status /\ Seen' = Seen /\ SameNumbers /\ Money' = Money
  BY SameTasks, SameBooks DEF Resume, ledgerVars
<1>3. rec \in Worker
  BY <1>1 DEF Worker
<1>4. AnimationType'
  <2>1. item' \in [Shot -> [status: ItemStatus, price: {0, Gen45, Turbo}]]
    BY <1>1, ItemSet DEF ShotInv, Resume, ItemStatus
  <2>2. worker' \in [AnimationWorker -> Worker]
    BY <1>3, WorkerSet DEF ShotInv, Resume
  <2> QED
    BY <2>1, <2>2 DEF ShotInv, AnimationType, Resume
<1>5. Status[s][k] \in Created
  BY <1>1 DEF ShotInv, Submission
<1>6. \A v \in AnimationWorker : worker'[v] = IF v = w THEN rec ELSE worker[v]
  BY DEF Resume, ShotInv, AnimationType
<1>7. \A v \in AnimationWorker : Working(v)'
  BY <1>1, <1>2, <1>5, <1>6 DEF ShotInv, Resume, Working
<1>8. OneCalls'
  BY <1>6 DEF ShotInv, OneCalls
<1>9. Turns' /\ \A v \in AnimationWorker : Ready(v)'
  BY <1>2, <1>6, StillReady
<1> QED
  BY <1>2, <1>4, <1>7, <1>8, <1>9 DEF ShotInv, Resume, Submission, Accounted

\* An attempt ends and leaves everything as it is.
LEMMA ShotLeave ==
  ASSUME ShotInv, NEW w \in AnimationWorker, Leave(w), UNCHANGED <<books, item, tasks, video, remote, interrupted>>
  PROVE  ShotInv'
<1>1. Status' = Status /\ Seen' = Seen /\ SameNumbers /\ Money' = Money
  BY SameTasks, SameBooks
<1>2. AnimationType'
  BY WorkerSet DEF Leave, ShotInv, AnimationType
<1>3. \A v \in AnimationWorker : worker'[v] = IF v = w THEN Idle ELSE worker[v]
  BY DEF Leave, ShotInv, AnimationType
<1>4. (\A v \in AnimationWorker : Working(v)') /\ OneCalls'
  BY <1>1, <1>3 DEF ShotInv, Working, OneCalls, Idle
<1>5. Turns' /\ \A v \in AnimationWorker : Ready(v)'
  BY <1>1, <1>3, StillReady DEF Idle
<1> QED
  BY <1>1, <1>2, <1>4, <1>5 DEF ShotInv, Submission, Accounted

\* Runway moves on by itself, or is told to stop.
RemoteMoves(s, k, r) ==
  /\ remote' = [remote EXCEPT ![s][k] = r]
  /\ \/ remote[s][k] = "sent" /\ r = "running"
     \/ remote[s][k] = "running" /\ r \in {"succeeded", "failed", "cancelled"}

LEMMA ShotRemote ==
  ASSUME ShotInv, NEW s \in Shot, NEW k \in 1..MaxTasks, NEW r, RemoteMoves(s, k, r),
         UNCHANGED <<books, item, tasks, video, worker, interrupted>>
  PROVE  ShotInv'
<1>1. Status' = Status /\ Seen' = Seen /\ SameNumbers /\ Money' = Money
  BY SameTasks, SameBooks
<1>2. \A t \in Shot, j \in 1..MaxTasks : remote'[t][j] = IF t = s /\ j = k THEN r ELSE remote[t][j]
  BY DEF RemoteMoves, ShotInv, AnimationType
<1>3. AnimationType'
  BY DEF RemoteMoves, ShotInv, AnimationType, RemoteStatus
<1>4. (\A v \in AnimationWorker : Working(v)') /\ OneCalls'
  BY <1>1, <1>2 DEF ShotInv, Working, OneCalls, RemoteMoves
<1>5. \A t \in Shot, j \in 1..MaxTasks : Submission(t, j)' /\ (t \notin interrupted' => Accounted(t, j)')
  BY <1>1, <1>2 DEF ShotInv, Submission, Accounted, RemoteMoves
<1>6. Turns' /\ \A v \in AnimationWorker : Ready(v)'
  BY <1>1, StillReady
<1> QED
  BY <1>3, <1>4, <1>5, <1>6 DEF ShotInv

LEMMA ShotCancelled ==
  ASSUME ShotInv, NEW w \in AnimationWorker, Cancelled(w)
  PROVE  ShotInv'
<1> DEFINE s == worker[w].shot
           k == worker[w].task
           r == IF remote[s][k] = "running" THEN "cancelled" ELSE remote[s][k]
<1>1. s \in Shot /\ k \in 1..MaxTasks
  BY DEF Cancelled, ShotInv, Working
<1>2. Status' = Status /\ Seen' = Seen /\ SameNumbers /\ Money' = Money
  BY SameTasks, SameBooks DEF Cancelled, ledgerVars
<1>3. remote' = [remote EXCEPT ![s][k] = r]
  BY DEF Cancelled
<1>4. \A t \in Shot, j \in 1..MaxTasks : remote'[t][j] = IF t = s /\ j = k THEN r ELSE remote[t][j]
  BY <1>1, <1>3 DEF ShotInv, AnimationType
<1>5. \A v \in AnimationWorker : worker'[v] = IF v = w THEN Idle ELSE worker[v]
  BY DEF Cancelled, Leave, ShotInv, AnimationType
<1>6. AnimationType'
  <2>1. r \in RemoteStatus
    <3>1. remote[s][k] \in RemoteStatus
      BY <1>1 DEF ShotInv, AnimationType
    <3> QED
      BY <3>1 DEF RemoteStatus
  <2>2. remote' \in [Shot -> [1..MaxTasks -> RemoteStatus]]
    BY <1>1, <1>3, <2>1 DEF ShotInv, AnimationType
  <2>3. worker' \in [AnimationWorker -> Worker]
    BY WorkerSet DEF Cancelled, Leave, ShotInv
  <2> QED
    BY <2>2, <2>3 DEF Cancelled, ShotInv, AnimationType
<1>7. \A t \in Shot, j \in 1..MaxTasks :
        IF remote[t][j] = "running" THEN remote'[t][j] \in {"running", "cancelled"} ELSE remote'[t][j] = remote[t][j]
  <2>1. IF remote[s][k] = "running" THEN r = "cancelled" ELSE r = remote[s][k]
    OBVIOUS
  <2> HIDE DEF r
  <2> QED
    BY <1>4, <2>1
<1> HIDE DEF s, k, r
<1>8. (\A v \in AnimationWorker : Working(v)') /\ OneCalls'
  BY <1>2, <1>5, <1>7 DEF ShotInv, Working, OneCalls, Idle
<1>9. \A t \in Shot, j \in 1..MaxTasks : Submission(t, j)' /\ (t \notin interrupted' => Accounted(t, j)')
  <2>1. UNCHANGED <<video, interrupted>>
    BY DEF Cancelled
  <2> SUFFICES ASSUME NEW t \in Shot, NEW j \in 1..MaxTasks
               PROVE  Submission(t, j)' /\ (t \notin interrupted' => Accounted(t, j)')
    OBVIOUS
  <2>2. Submission(t, j)'
    BY <1>2, <1>7 DEF ShotInv, Submission
  <2>3. t \notin interrupted' => Accounted(t, j)'
    BY <1>2, <1>7, <2>1 DEF ShotInv, Accounted
  <2> QED
    BY <2>2, <2>3
<1>10. Turns' /\ \A v \in AnimationWorker : Ready(v)'
  BY <1>2, <1>5, StillReady DEF Idle
<1> QED
  BY <1>6, <1>8, <1>9, <1>10 DEF ShotInv

LEMMA ShotDownload ==
  ASSUME ShotInv, NEW w \in AnimationWorker, Download(w)
  PROVE  ShotInv'
<1> DEFINE s == worker[w].shot
<1>1. s \in Shot /\ worker[w].pc = "won"
  BY DEF Download, ShotInv, Working
<1>2. Status' = Status /\ Seen' = Seen /\ SameNumbers /\ Money' = Money
  BY SameTasks, SameBooks DEF Download, ledgerVars
<1>3. \A v \in AnimationWorker : worker'[v] = IF v = w THEN [worker[w] EXCEPT !.pc = "downloading"] ELSE worker[v]
  BY DEF Download, Step, ShotInv, AnimationType
<1>4. AnimationType'
  <2>1. item' \in [Shot -> [status: ItemStatus, price: {0, Gen45, Turbo}]]
    BY <1>1, ItemSet DEF Download, SetItem, ShotInv, ItemStatus
  <2>2. worker' \in [AnimationWorker -> Worker]
    BY WorkerSet DEF Download, Step, ShotInv
  <2> QED
    BY <2>1, <2>2 DEF Download, ShotInv, AnimationType
<1>5. worker[w] \in Worker
  BY DEF ShotInv, AnimationType
<1>6. (\A v \in AnimationWorker : Working(v)') /\ OneCalls'
  BY <1>1, <1>2, <1>3, <1>5 DEF ShotInv, Working, OneCalls, Worker, Download
<1>7. Turns' /\ \A v \in AnimationWorker : Ready(v)'
  <2>1. \A v \in AnimationWorker : worker'[v].pc = "submitting" => worker'[v] = worker[v]
    BY <1>3, <1>5 DEF Worker
  <2> QED
    BY <1>2, <2>1, StillReady
<1> QED
  BY <1>2, <1>4, <1>6, <1>7 DEF ShotInv, Submission, Accounted, Download

\* The money of one submission, reserved or settled.
LEMMA ShotKeys ==
  ASSUME NEW s \in Shot, NEW k \in 1..MaxTasks
  PROVE  /\ <<s, k>> \in Key
         /\ \A t \in Shot, j \in 1..MaxTasks : <<t, j>> \in Key /\ (<<t, j>> = <<s, k>> <=> t = s /\ j = k)
BY Keys, LedgerAssumption

LEMMA MoneyReserved ==
  ASSUME BooksType, NEW s \in Shot, NEW k \in 1..MaxTasks, NEW n \in Nat, Reserve(<<s, k>>, n)
  PROVE  \A t \in Shot, j \in 1..MaxTasks : Money'[t][j] =
           IF t = s /\ j = k /\ Money[s][k] = "none" THEN "RESERVED" ELSE Money[t][j]
<1>1. \A j \in Key : books'.of[j].state =
        IF j = <<s, k>> /\ books.of[<<s, k>>].state = "none" THEN "RESERVED" ELSE books.of[j].state
  BY ShotKeys, ReserveFacts
<1> QED
  BY <1>1, ShotKeys DEF Money

LEMMA MoneySettled ==
  ASSUME BooksType, NEW s \in Shot, NEW k \in 1..MaxTasks, NEW n \in Nat,
         MayReconcile(<<s, k>>), Reconcile(<<s, k>>, n)
  PROVE  \A t \in Shot, j \in 1..MaxTasks : Money'[t][j] =
           IF t = s /\ j = k /\ Money[s][k] = "RESERVED"
           THEN IF n > 0 THEN "COMMITTED" ELSE "RELEASED"
           ELSE Money[t][j]
<1>1. \A j \in Key : books'.of[j].state =
        IF j = <<s, k>> /\ books.of[<<s, k>>].state = "RESERVED"
        THEN IF n > 0 THEN "COMMITTED" ELSE "RELEASED"
        ELSE books.of[j].state
  BY ShotKeys, ReconcileFacts
<1> QED
  BY <1>1, ShotKeys DEF Money

LEMMA ShotSubmit ==
  ASSUME ShotInv, BooksType, NEW w \in AnimationWorker, Submit(w)
  PROVE  ShotInv'
<1>0. PICK s, n, k, e : /\ s = worker[w].shot /\ n = worker[w].task /\ k = Len(tasks[s]) + 1
                        /\ e = [status |-> "pre_call", known |-> FALSE, number |-> n, price |-> worker[w].price]
  OBVIOUS
<1> USE <1>0
<1>1. /\ s \in Shot /\ k \in 1..MaxTasks /\ n \in 1..MaxTasks /\ MaxTasks \in Nat
      /\ worker[w].price \in Nat /\ worker[w].price \in {Gen45, Turbo}
      /\ k = Len(tasks[s]) + 1 /\ worker[w].pc = "submitting" /\ Len(tasks[s]) \in Nat
  <2>1. worker[w].pc = "submitting" /\ k <= MaxTasks
    BY DEF Submit
  <2>2. s \in Shot /\ n \in 1..MaxTasks /\ worker[w].price \in {Gen45, Turbo}
    BY <2>1 DEF ShotInv, Working
  <2>3. Len(tasks[s]) \in 0..MaxTasks
    BY <2>2, TypedTasks DEF ShotInv
  <2>4. worker[w].price \in Nat
    BY <2>2, AnimationAssumption
  <2> QED
    BY <2>1, <2>2, <2>3, <2>4, LedgerAssumption
<1>2. \A j \in 1..MaxTasks : Status[s][j] = "unsubmitted" <=> j >= k
  <2>1. \A j \in 1..MaxTasks : Status[s][j] = "unsubmitted" <=> j > Len(tasks[s])
    BY <1>1, SeenTyped DEF ShotInv
  <2> QED
    BY <1>1, <2>1
<1>3. /\ tasks' \in [Shot -> Seq(RunwayTask)]
      /\ \A t \in Shot : Len(tasks'[t]) = IF t = s THEN Len(tasks[t]) + 1 ELSE Len(tasks[t])
      /\ \A t \in Shot : \A j \in 1..Len(tasks[t]) : tasks'[t][j] = tasks[t][j]
      /\ tasks'[s][k] = e
  <2>1. tasks' = [tasks EXCEPT ![s] = Append(@, e)]
    BY DEF Submit
  <2>2. e \in RunwayTask
    BY <1>1 DEF RunwayTask, TaskStatus
  <2>3. AnimationType /\ s \in Shot /\ k = Len(tasks[s]) + 1
    BY <1>1 DEF ShotInv
  <2> HIDE <1>0
  <2> QED
    BY <2>1, <2>2, <2>3, AppendTaskFacts
<1>4. ASSUME NEW t \in Shot, NEW j \in 1..MaxTasks
      PROVE  /\ Status'[t][j] = IF t = s /\ j = k THEN "pre_call" ELSE Status[t][j]
             /\ Seen'[t][j] = Seen[t][j]
             /\ Number'[t][j] = IF t = s /\ j = k THEN n ELSE Number[t][j]
             /\ Price'[t][j] = IF t = s /\ j = k THEN worker[w].price ELSE Price[t][j]
  <2>1. Len(tasks[t]) \in 0..MaxTasks
    BY TypedTasks DEF ShotInv
  <2>2. CASE t = s /\ j = k
    <3>1. k <= Len(tasks'[s]) /\ ~(k <= Len(tasks[s]))
      BY <1>1, <1>3
    <3>2. Status'[s][k] = e.status /\ Seen'[s][k] = e.known /\ Seen[s][k] = FALSE
      BY <1>1, <1>3, <3>1 DEF Status, Seen
    <3>3. Number'[s][k] = e.number /\ Price'[s][k] = e.price
      BY <1>1, <1>3, <3>1 DEF Number, Price
    <3> QED
      BY <2>2, <3>2, <3>3
  <2>3. CASE ~(t = s /\ j = k) /\ j <= Len(tasks[t])
    <3>1. j \in 1..Len(tasks[t]) /\ j <= Len(tasks'[t])
      BY <1>3, <2>1, <2>3
    <3>2. tasks'[t][j] = tasks[t][j]
      BY <1>3, <3>1
    <3>3. Status'[t][j] = Status[t][j] /\ Seen'[t][j] = Seen[t][j]
      BY <2>3, <3>1, <3>2 DEF Status, Seen
    <3>4. Number'[t][j] = Number[t][j] /\ Price'[t][j] = Price[t][j]
      BY <2>3, <3>1, <3>2 DEF Number, Price
    <3> QED
      BY <2>3, <3>3, <3>4
  <2>4. CASE ~(t = s /\ j = k) /\ ~(j <= Len(tasks[t]))
    <3>1. ~(j <= Len(tasks'[t]))
      <4>1. CASE t = s
        BY <1>1, <1>3, <2>1, <2>4, <4>1
      <4>2. CASE t # s
        BY <1>3, <2>4, <4>2
      <4> QED
        BY <4>1, <4>2
    <3>2. Status[t][j] = "unsubmitted" /\ Status'[t][j] = "unsubmitted"
      BY <2>4, <3>1 DEF Status
    <3>3. Seen'[t][j] = Seen[t][j]
      BY <2>4, <3>1 DEF Seen
    <3>4. Number'[t][j] = Number[t][j] /\ Price'[t][j] = Price[t][j]
      BY <2>4, <3>1 DEF Number, Price
    <3> QED
      BY <2>4, <3>2, <3>3, <3>4
  <2> QED
    BY <2>2, <2>3, <2>4
<1>5. \A t \in Shot, j \in 1..MaxTasks : Money'[t][j] = IF t = s /\ j = k THEN "RESERVED" ELSE Money[t][j]
  <2>1. Reserve(<<s, k>>, worker[w].price)
    BY DEF Submit
  <2>2. Money[s][k] = "none"
    <3>1. Status[s][k] = "unsubmitted" /\ Submission(s, k)
      BY <1>1, <1>2 DEF ShotInv
    <3> QED
      BY <3>1 DEF Submission
  <2>3. s \in Shot /\ k \in 1..MaxTasks /\ worker[w].price \in Nat
    BY <1>1
  <2> QED
    BY <2>1, <2>2, <2>3, MoneyReserved
<1>6. /\ remote' = [remote EXCEPT ![s][k] = "sent"] /\ item' = [item EXCEPT ![s].status = "submitting"]
      /\ worker' = [worker EXCEPT ![w].pc = "called", ![w].task = k] /\ UNCHANGED <<video, interrupted>>
  BY DEF Submit, SetItem
<1>7. \A j \in 1..MaxTasks : (j < k /\ Number[s][j] = n) => Price[s][j] # worker[w].price
  <2> SUFFICES ASSUME NEW j \in 1..MaxTasks, j < k, Number[s][j] = n, Price[s][j] = worker[w].price
               PROVE  FALSE
    OBVIOUS
  <2>1. j \in 1..Len(tasks[s]) /\ j <= Len(tasks[s])
    BY <1>1
  <2>2. tasks[s][j].number = n /\ tasks[s][j].price = worker[w].price
    BY <1>1, <2>1 DEF Number, Price
  <2>3. tasks[s] \in Seq(RunwayTask)
    BY <1>1, TypedTasks DEF ShotInv
  <2>4. j \in DOMAIN tasks[s]
    BY <2>1, <2>3, LenProperties
  <2> QED
    BY <2>2, <2>4 DEF Submit, KeyTaken
<1>8. worker' = [worker EXCEPT ![w] = [worker[w] EXCEPT !.pc = "called", !.task = k]]
      /\ worker[w] \in Worker
  BY <1>6 DEF ShotInv, AnimationType, Worker
<1>9. PICK x \in Worker : /\ x = [worker[w] EXCEPT !.pc = "called", !.task = k]
                          /\ x.pc = "called" /\ x.shot = s /\ x.task = k /\ x.price = worker[w].price
  <2>0. PICK y, z : y = [worker[w] EXCEPT !.pc = "called"] /\ z = [y EXCEPT !.task = k]
    OBVIOUS
  <2>1. y \in Worker /\ y.pc = "called" /\ y.shot = s /\ y.price = worker[w].price
    BY <1>8, <2>0 DEF Worker
  <2>2. z \in Worker /\ z.pc = "called" /\ z.shot = s /\ z.task = k /\ z.price = worker[w].price
    <3>1. k \in 0..MaxTasks
      BY <1>1
    <3> QED
      BY <2>0, <2>1, <3>1 DEF Worker
  <2>3. z = [worker[w] EXCEPT !.pc = "called", !.task = k]
    BY <2>0
  <2> QED
    BY <2>2, <2>3
<1>10. /\ \A v \in AnimationWorker : v # w => worker'[v] = worker[v]
       /\ worker'[w] = x /\ worker' \in [AnimationWorker -> Worker]
  BY <1>8, <1>9 DEF ShotInv, AnimationType
<1>11. AnimationType'
  <2>1. item' \in [Shot -> [status: ItemStatus, price: {0, Gen45, Turbo}]]
    BY <1>1, <1>6, ItemSet DEF ShotInv, ItemStatus
  <2>2. \A t \in Shot : Len(tasks'[t]) <= MaxTasks
    BY <1>1, <1>3, TypedTasks DEF ShotInv
  <2>3. remote' \in [Shot -> [1..MaxTasks -> RemoteStatus]]
    BY <1>1, <1>6 DEF ShotInv, AnimationType, RemoteStatus
  <2> QED
    BY <1>3, <1>6, <1>10, <2>1, <2>2, <2>3 DEF ShotInv, AnimationType
<1>12. \A t \in Shot, j \in 1..MaxTasks : remote'[t][j] = IF t = s /\ j = k THEN "sent" ELSE remote[t][j]
  BY <1>1, <1>6 DEF ShotInv, AnimationType
<1>13. Ready(w)
  BY DEF ShotInv
<1>14. \A t \in Shot, j \in 1..MaxTasks : Numbered(t, j) /\ Number[t][j] \in 0..MaxTasks
  BY SeenTyped DEF ShotInv, Turns
<1>15. Number[s][k] = 0 /\ Status[s][k] = "unsubmitted" /\ Status'[s][k] = "pre_call" /\ Number'[s][k] = n
  BY <1>1, <1>2, <1>4, <1>14 DEF Numbered
<1>16. /\ \A m \in 1..MaxTasks : m < n => Occurs(s, m)
       /\ Occurs(s, n) \/ Free(s)
  BY <1>1, <1>13 DEF Ready
<1>17. ASSUME NEW t \in Shot, NEW j \in 1..MaxTasks
       PROVE  /\ j \in 1..MaxTasks => (Occurs(t, j) => Occurs(t, j)')
              /\ Marked(t, j) => Marked(t, j)'
  <2>1. Occurs(t, j) => Occurs(t, j)'
    BY <1>1, <1>4, <1>15 DEF Occurs
  <2>2. ASSUME Marked(t, j)
        PROVE  Marked(t, j)'
    <3>1. PICK h \in 1..MaxTasks : h < j /\ Number[t][h] = Number[t][j] /\ Price[t][h] # Price[t][j]
      BY <2>2 DEF Marked
    <3>2. ~(t = s /\ j = k) /\ ~(t = s /\ h = k) /\ Number[t][j] # 0
      BY <1>15, <2>2, <3>1 DEF Marked
    <3>3. /\ Number'[t][j] = Number[t][j] /\ Number'[t][h] = Number[t][h]
          /\ Price'[t][j] = Price[t][j] /\ Price'[t][h] = Price[t][h]
      BY <1>4, <3>2
    <3> QED
      BY <3>1, <3>2, <3>3 DEF Marked
  <2> QED
    BY <2>1, <2>2
<1>18. Occurs(s, n)' /\ (Occurs(s, n) => Marked(s, k)')
  <2>1. Occurs(s, n)'
    BY <1>1, <1>15 DEF Occurs
  <2>2. ASSUME Occurs(s, n)
        PROVE  Marked(s, k)'
    <3>1. PICK h \in 1..MaxTasks : Number[s][h] = n
      BY <2>2 DEF Occurs
    <3>2. Status[s][h] # "unsubmitted"
      BY <1>1, <1>14, <3>1 DEF Numbered
    <3>3. h < k /\ h # k
      BY <1>1, <1>2, <3>2
    <3>4. Number'[s][h] = n /\ Price'[s][h] = Price[s][h] /\ Price'[s][k] = worker[w].price
      BY <1>1, <1>4, <3>1, <3>3
    <3> QED
      BY <1>1, <1>7, <1>15, <3>1, <3>3, <3>4 DEF Marked
  <2> QED
    BY <2>1, <2>2
<1>19. ASSUME NEW t \in Shot, NEW j \in 1..MaxTasks
       PROVE  Numbered(t, j)'
  <2>1. CASE t = s /\ j = k
    <3>1. n <= k
      <4>1. CASE n = 1
        BY <1>1, <4>1
      <4>2. CASE n # 1
        <5>1. n - 1 \in 1..MaxTasks /\ n - 1 < n
          BY <1>1, <4>2
        <5>2. PICK i \in 1..MaxTasks : Number[s][i] = n - 1
          BY <1>16, <5>1 DEF Occurs
        <5>3. Status[s][i] # "unsubmitted" /\ n - 1 <= i
          BY <1>1, <1>14, <5>1, <5>2 DEF Numbered
        <5>4. i < k
          BY <1>1, <1>2, <5>3
        <5> QED
          BY <1>1, <5>3, <5>4
      <4> QED
        BY <4>1, <4>2
    <3>2. \A m \in 1..MaxTasks : m <= n => Occurs(s, m)'
      <4>1. ASSUME NEW m \in 1..MaxTasks, m <= n
            PROVE  Occurs(s, m)'
        <5>1. CASE m = n
          BY <1>18, <5>1
        <5>2. CASE m < n
          BY <1>1, <1>16, <1>17, <5>2
        <5> QED
          BY <1>1, <4>1, <5>1, <5>2
      <4> QED
        BY <4>1
    <3> QED
      BY <1>1, <1>15, <2>1, <3>1, <3>2 DEF Numbered
  <2>2. CASE ~(t = s /\ j = k)
    <3>1. Number'[t][j] = Number[t][j] /\ Status'[t][j] = Status[t][j]
      BY <1>4, <2>2
    <3> QED
      BY <1>14, <1>17, <3>1 DEF Numbered
  <2> QED
    BY <2>1, <2>2
<1>20. ASSUME NEW t \in Shot
       PROVE  InTurn(t)'
  <2> SUFFICES ASSUME NEW j \in 1..MaxTasks, NEW i \in 1..MaxTasks, j < i, Status'[t][i] # "unsubmitted",
                      Status'[t][j] \notin Repeated
               PROVE  \E h \in 1..MaxTasks : j <= h /\ h <= i /\ Marked(t, h)'
    BY DEF InTurn
  <2>1. CASE t = s /\ i = k
    <3>1. j # k /\ Status[s][j] # "unsubmitted" /\ Status[s][j] \notin Repeated
      BY <1>1, <1>2, <1>4, <2>1
    <3>2. CASE Occurs(s, n)
      BY <1>1, <1>18, <2>1, <3>2
    <3>3. CASE Free(s)
      <4>1. PICK h \in 1..MaxTasks : j <= h /\ Marked(s, h)
        BY <3>1, <3>3 DEF Free
      <4>2. Number[s][h] # 0 /\ Numbered(s, h)
        BY <1>1, <1>14, <4>1 DEF Marked
      <4>3. Status[s][h] # "unsubmitted"
        BY <4>2 DEF Numbered
      <4>4. h < k
        BY <1>1, <1>2, <4>3
      <4> QED
        BY <1>1, <1>17, <2>1, <4>1, <4>4
    <3> QED
      BY <1>16, <3>2, <3>3
  <2>2. CASE ~(t = s /\ i = k)
    <3>1. Status[t][i] # "unsubmitted" /\ ~(t = s /\ j = k)
      BY <1>1, <1>2, <1>4, <2>2
    <3>2. Status[t][j] \notin Repeated
      BY <1>4, <3>1
    <3>3. InTurn(t)
      BY DEF ShotInv, Turns
    <3>4. PICK h \in 1..MaxTasks : j <= h /\ h <= i /\ Marked(t, h)
      BY <3>1, <3>2, <3>3 DEF InTurn
    <3> QED
      BY <1>17, <3>4
  <2> QED
    BY <2>1, <2>2
<1>21. ASSUME NEW v \in AnimationWorker
       PROVE  Ready(v)'
  <2>1. CASE v = w
    BY <1>9, <1>10, <2>1 DEF Ready
  <2>2. CASE v # w
    <3> SUFFICES ASSUME worker[v].pc = "submitting",
                        NEW t \in Shot, NEW m \in 1..MaxTasks, t = worker[v].shot, m = worker[v].task
                 PROVE  /\ \A i \in 1..MaxTasks : i < m => Occurs(t, i)'
                        /\ Occurs(t, m)' \/ Free(t)'
      BY <1>10, <2>2 DEF Ready
    <3>1. /\ \A i \in 1..MaxTasks : i < m => Occurs(t, i)
          /\ Occurs(t, m) \/ Free(t)
      BY DEF ShotInv, Ready
    <3>2. \A i \in 1..MaxTasks : i < m => Occurs(t, i)'
      BY <1>17, <3>1
    <3>3. CASE Occurs(t, m)
      BY <1>17, <3>2, <3>3
    <3>4. CASE ~Occurs(t, m) /\ t # s
      <4>1. \A j \in 1..MaxTasks : Status'[t][j] = Status[t][j]
        BY <1>4, <3>4
      <4>2. Free(t)'
        BY <1>17, <3>1, <3>4, <4>1 DEF Free
      <4> QED
        BY <3>2, <4>2
    <3>5. CASE ~Occurs(t, m) /\ t = s
      <4>1. CASE m = n
        BY <1>18, <3>2, <3>5, <4>1
      <4>2. CASE m # n
        <5>1. n < m
          BY <1>1, <1>16, <3>5, <4>2
        <5>2. Marked(s, k)'
          BY <1>1, <1>18, <3>1, <3>5, <5>1
        <5>3. \A j \in 1..MaxTasks : j <= k \/ Status'[s][j] = "unsubmitted"
          BY <1>1, <1>2, <1>4
        <5>4. Free(s)'
          BY <1>1, <5>2, <5>3 DEF Free
        <5> QED
          BY <3>2, <3>5, <5>4
      <4> QED
        BY <4>1, <4>2
    <3> QED
      BY <3>3, <3>4, <3>5
  <2> QED
    BY <2>1, <2>2
<1>22. ASSUME NEW v \in AnimationWorker
       PROVE  Working(v)'
  <2>1. CASE v = w
    <3>1. worker'[v].pc = "called" /\ worker'[v].shot = s /\ worker'[v].task = k
      BY <1>9, <1>10, <2>1
    <3>2. worker'[v].price \in {Gen45, Turbo}
      BY <1>1, <1>9, <1>10, <2>1
    <3>3. s \in Shot /\ k \in 1..MaxTasks /\ Status'[s][k] = "pre_call"
      BY <1>1, <1>15
    <3> HIDE <1>0
    <3> QED
      BY <3>1, <3>2, <3>3 DEF Working
  <2>2. CASE v # w
    <3>1. Working(v) /\ worker'[v] = worker[v]
      BY <1>10, <2>2 DEF ShotInv
    <3>2. \A t \in Shot, j \in 1..MaxTasks :
            Status[t][j] # "unsubmitted" => Status'[t][j] = Status[t][j] /\ remote'[t][j] = remote[t][j]
      BY <1>4, <1>12, <1>15
    <3> QED
      BY <3>1, <3>2 DEF Working, Created
  <2> QED
    BY <2>1, <2>2
<1>23. OneCalls'
  <2>1. \A v \in AnimationWorker : ~(worker[v].pc = "called" /\ worker[v].shot = s /\ worker[v].task = k)
    BY <1>1, <1>15 DEF ShotInv, Working
  <2>2. worker'[w].shot = s /\ worker'[w].task = k
    BY <1>9, <1>10
  <2> QED
    BY <1>10, <2>1, <2>2 DEF ShotInv, OneCalls
<1>24. ASSUME NEW t \in Shot, NEW j \in 1..MaxTasks
       PROVE  Submission(t, j)' /\ (t \notin interrupted' => Accounted(t, j)')
  <2>1. Submission(t, j) /\ (t \notin interrupted => Accounted(t, j))
    BY DEF ShotInv
  <2>2. CASE t = s /\ j = k
    <3>1. Seen'[s][k] = Seen[s][k] /\ video' = video
      BY <1>1, <1>4, <1>6
    <3>2. Money'[s][k] = "RESERVED" /\ remote'[s][k] = "sent"
      BY <1>1, <1>5, <1>12
    <3> QED
      BY <1>6, <1>15, <2>1, <2>2, <3>1, <3>2 DEF Submission, Accounted, Created
  <2>3. CASE ~(t = s /\ j = k)
    <3>1. /\ Status'[t][j] = Status[t][j] /\ Seen'[t][j] = Seen[t][j] /\ Money'[t][j] = Money[t][j]
          /\ remote'[t][j] = remote[t][j] /\ video' = video /\ interrupted' = interrupted
      BY <1>4, <1>5, <1>6, <1>12, <2>3
    <3> QED
      BY <2>1, <3>1 DEF Submission, Accounted
  <2> QED
    BY <2>2, <2>3
<1> QED
  BY <1>11, <1>19, <1>20, <1>21, <1>22, <1>23, <1>24 DEF ShotInv, Turns

\* An attempt waits for, or has, a submission of its own.
LEMMA AtSubmission ==
  ASSUME ShotInv, NEW w \in AnimationWorker, worker[w].pc \in {"called", "polling", "won", "lost", "downloading"}
  PROVE  /\ worker[w].shot \in Shot /\ worker[w].task \in 1..MaxTasks /\ MaxTasks \in Nat
         /\ worker[w].task <= Len(tasks[worker[w].shot])
         /\ worker[w].price \in Nat \ {0} /\ worker[w] \in Worker
         /\ \A v \in AnimationWorker :
              (v # w /\ worker[v].pc = "called" /\ worker[w].pc = "called") =>
                ~(worker[v].shot = worker[w].shot /\ worker[v].task = worker[w].task)
<1>1. worker[w].shot \in Shot /\ worker[w].task \in 1..MaxTasks /\ worker[w].price \in {Gen45, Turbo}
        /\ Status[worker[w].shot][worker[w].task] # "unsubmitted"
  BY DEF ShotInv, Working, Created
<1>2. worker[w].task <= Len(tasks[worker[w].shot])
  <2>1. Len(tasks[worker[w].shot]) \in 0..MaxTasks
    BY <1>1, TypedTasks DEF ShotInv
  <2>2. ~(worker[w].task > Len(tasks[worker[w].shot]))
    BY <1>1, SeenTyped DEF ShotInv
  <2> QED
    BY <1>1, <2>1, <2>2, LedgerAssumption
<1>3. worker[w].price \in Nat \ {0}
  BY <1>1, AnimationAssumption
<1> QED
  BY <1>1, <1>2, <1>3, LedgerAssumption DEF ShotInv, AnimationType, OneCalls

LEMMA ShotAccepted ==
  ASSUME ShotInv, NEW w \in AnimationWorker, Accepted(w)
  PROVE  ShotInv'
<1> DEFINE s == worker[w].shot
           k == worker[w].task
           e == [tasks[s][k] EXCEPT !.status = "pending", !.known = TRUE]
           q == [tasks[s] EXCEPT ![k] = e]
<1>1. worker[w].pc = "called" /\ remote[s][k] \notin {"none", "sent"}
  BY DEF Accepted, Called, RemoteOf
<1>2. s \in Shot /\ k \in 1..MaxTasks /\ k \in 1..Len(tasks[s]) /\ worker[w] \in Worker
  BY <1>1, AtSubmission, TypedTasks DEF ShotInv
<1>0. tasks[s][k] \in RunwayTask
  BY <1>2, TypedTasks, ElementOfSeq DEF ShotInv
<1>3. /\ q \in Seq(RunwayTask) /\ Len(q) = Len(tasks[s])
      /\ \A j \in 1..Len(tasks[s]) : q[j] = IF j = k THEN e ELSE tasks[s][j]
  <2>1. e \in RunwayTask /\ tasks[s] \in Seq(RunwayTask)
    BY <1>0, <1>2, TypedTasks DEF RunwayTask, TaskStatus, ShotInv
  <2> HIDE DEF e
  <2> QED
    BY <1>2, <2>1, ExceptSeq
<1>4. tasks' = [tasks EXCEPT ![s] = q]
  BY DEF Accepted
<1>5. e.status = "pending" /\ e.known = TRUE /\ e.number = tasks[s][k].number /\ e.price = tasks[s][k].price
  BY <1>0 DEF RunwayTask
<1>6. /\ tasks' \in [Shot -> Seq(RunwayTask)] /\ \A t \in Shot : Len(tasks'[t]) <= MaxTasks
      /\ \A t \in Shot, j \in 1..MaxTasks :
           /\ Status'[t][j] = IF t = s /\ j = k THEN "pending" ELSE Status[t][j]
           /\ Seen'[t][j] = IF t = s /\ j = k THEN TRUE ELSE Seen[t][j]
      /\ SameNumbers
  <2> HIDE DEF q, e, s, k
  <2>1. \A t \in Shot : tasks'[t] = IF t = s THEN q ELSE tasks[t]
    BY <1>2, <1>4, TypedTasks DEF ShotInv
  <2>2. tasks' \in [Shot -> Seq(RunwayTask)]
    BY <1>2, <1>3, <1>4, TypedTasks DEF ShotInv
  <2>3. \A t \in Shot : Len(tasks'[t]) = Len(tasks[t])
    BY <1>3, <2>1
  <2>4. ASSUME NEW t \in Shot, NEW j \in 1..MaxTasks
        PROVE  /\ Status'[t][j] = IF t = s /\ j = k THEN "pending" ELSE Status[t][j]
               /\ Seen'[t][j] = IF t = s /\ j = k THEN TRUE ELSE Seen[t][j]
               /\ Number'[t][j] = Number[t][j] /\ Price'[t][j] = Price[t][j]
    <3>1. Len(tasks[t]) \in 0..MaxTasks /\ MaxTasks \in Nat
      BY TypedTasks, LedgerAssumption DEF ShotInv
    <3>2. CASE j <= Len(tasks[t])
      <4>1. j \in 1..Len(tasks[t]) /\ j <= Len(tasks'[t])
        BY <2>3, <3>1, <3>2
      <4>2. tasks'[t][j] = IF t = s /\ j = k THEN e ELSE tasks[t][j]
        BY <1>3, <2>1, <4>1
      <4>3. Status'[t][j] = tasks'[t][j].status /\ Seen'[t][j] = tasks'[t][j].known
        BY <4>1 DEF Status, Seen
      <4>4. Status[t][j] = tasks[t][j].status /\ Seen[t][j] = tasks[t][j].known
        BY <3>2 DEF Status, Seen
      <4>5. Number'[t][j] = Number[t][j] /\ Price'[t][j] = Price[t][j]
        BY <1>5, <3>2, <4>1, <4>2 DEF Number, Price
      <4> QED
        BY <1>5, <4>2, <4>3, <4>4, <4>5
    <3>3. CASE ~(j <= Len(tasks[t]))
      <4>1. ~(j <= Len(tasks'[t])) /\ ~(t = s /\ j = k)
        BY <1>2, <2>3, <3>1, <3>3
      <4>2. Number'[t][j] = Number[t][j] /\ Price'[t][j] = Price[t][j]
        BY <3>3, <4>1 DEF Number, Price
      <4> QED
        BY <3>3, <4>1, <4>2 DEF Status, Seen
    <3> QED
      BY <3>2, <3>3
  <2>5. \A t \in Shot : Len(tasks'[t]) <= MaxTasks
    BY <2>3 DEF ShotInv, AnimationType
  <2>6. SameNumbers
    BY <2>4 DEF SameNumbers
  <2> QED
    BY <2>2, <2>4, <2>5, <2>6
<1>7. Money' = Money
  BY SameBooks DEF Accepted, ledgerVars
<1>8. /\ item' = [item EXCEPT ![s].status = "polling"] /\ worker' = [worker EXCEPT ![w].pc = "polling"]
      /\ UNCHANGED <<video, remote, interrupted>>
  BY DEF Accepted, SetItem, Step
<1>9. /\ \A v \in AnimationWorker : v # w => worker'[v] = worker[v]
      /\ worker'[w].pc = "polling" /\ worker'[w].shot = s /\ worker'[w].task = k /\ worker'[w].price = worker[w].price
  BY <1>2, <1>8 DEF ShotInv, AnimationType, Worker
<1>11. AnimationType'
  <2>1. item' \in [Shot -> [status: ItemStatus, price: {0, Gen45, Turbo}]]
    BY <1>2, <1>8, ItemSet DEF ShotInv, ItemStatus
  <2>2. worker' \in [AnimationWorker -> Worker]
    BY <1>8, WorkerSet DEF ShotInv
  <2> QED
    BY <1>6, <1>8, <2>1, <2>2 DEF ShotInv, AnimationType
<1>12. Status[s][k] = "pre_call" /\ worker[w].price \in {Gen45, Turbo} /\ s = worker[w].shot /\ k = worker[w].task
  BY <1>1 DEF ShotInv, Working
<1> HIDE DEF s, k, e, q
<1>13. (\A v \in AnimationWorker : Working(v)') /\ OneCalls'
  <2>1. ASSUME NEW v \in AnimationWorker
        PROVE  Working(v)'
    <3>1. CASE v = w
      BY <1>2, <1>6, <1>9, <1>12, <3>1 DEF Working, Created
    <3>2. CASE v # w
      <4>1. worker[v].pc = "called" => ~(worker[v].shot = s /\ worker[v].task = k)
        BY <1>1, <1>12, <3>2 DEF ShotInv, OneCalls
      <4>2. Working(v) /\ worker'[v] = worker[v] /\ remote' = remote
        BY <1>8, <1>9, <3>2 DEF ShotInv
      <4>3. \A t \in Shot, j \in 1..MaxTasks :
              /\ Status[t][j] \in Created => Status'[t][j] \in Created
              /\ ~(t = s /\ j = k) => Status'[t][j] = Status[t][j]
        BY <1>6, <1>12 DEF Created
      <4> QED
        BY <4>1, <4>2, <4>3 DEF Working
    <3> QED
      BY <3>1, <3>2
  <2> QED
    BY <1>9, <2>1 DEF ShotInv, OneCalls
<1>14. Turns' /\ \A v \in AnimationWorker : Ready(v)'
  <2>1. \A t \in Shot, j \in 1..MaxTasks :
          /\ Status[t][j] \in Repeated => Status'[t][j] \in Repeated
          /\ Status'[t][j] = "unsubmitted" <=> Status[t][j] = "unsubmitted"
    BY <1>6, <1>12 DEF Repeated
  <2>2. \A v \in AnimationWorker : worker'[v].pc = "submitting" => worker'[v] = worker[v]
    BY <1>9
  <2> QED
    BY <1>6, <2>1, <2>2, StillReady
<1>15. \A t \in Shot, j \in 1..MaxTasks : Submission(t, j)' /\ (t \notin interrupted' => Accounted(t, j)')
  <2>1. ASSUME NEW t \in Shot, NEW j \in 1..MaxTasks
        PROVE  Submission(t, j)' /\ (t \notin interrupted' => Accounted(t, j)')
    <3>1. Submission(t, j) /\ (t \notin interrupted => Accounted(t, j))
      BY DEF ShotInv
    <3>2. remote'[t][j] = remote[t][j] /\ Money'[t][j] = Money[t][j] /\ video' = video /\ interrupted' = interrupted
      BY <1>7, <1>8
    <3>3. CASE t = s /\ j = k
      BY <1>1, <1>6, <3>1, <3>2, <3>3 DEF Submission, Accounted, Created
    <3>4. CASE ~(t = s /\ j = k)
      <4>1. Status'[t][j] = Status[t][j] /\ Seen'[t][j] = Seen[t][j]
        BY <1>6, <3>4
      <4> QED
        BY <3>1, <3>2, <4>1 DEF Submission, Accounted
    <3> QED
      BY <3>3, <3>4
  <2> QED
    BY <2>1
<1> QED
  BY <1>11, <1>13, <1>14, <1>15 DEF ShotInv

\* A submission moves on and the others, with the attempts at them, do not notice.
Moves(s, k, v) ==
  /\ \A t \in Shot, j \in 1..MaxTasks :
       /\ Status'[t][j] = IF t = s /\ j = k THEN v ELSE Status[t][j]
       /\ Seen'[t][j] = Seen[t][j]
       /\ ~(t = s /\ j = k) => remote'[t][j] = remote[t][j] /\ Money'[t][j] = Money[t][j]
  /\ Status[s][k] \in Created <=> v \in Created
  /\ Status[s][k] \in Repeated => v \in Repeated
  /\ Status[s][k] # "unsubmitted" /\ v # "unsubmitted"
  /\ remote[s][k] \notin {"none", "sent"} => remote'[s][k] = remote[s][k]
  /\ \A t \in Shot : video'[t] = video[t] \/ (t = s /\ video'[t] = k)
  /\ interrupted \subseteq interrupted'
  /\ SameNumbers

LEMMA OthersKeep ==
  ASSUME ShotInv, NEW s \in Shot, NEW k \in 1..MaxTasks, NEW v, Moves(s, k, v)
  PROVE  /\ \A u \in AnimationWorker :
              (worker'[u] = worker[u] /\ ~(worker[u].pc = "called" /\ worker[u].shot = s /\ worker[u].task = k)) => Working(u)'
         /\ (\A u \in AnimationWorker : worker'[u].pc = "submitting" => worker'[u] = worker[u]) =>
              Turns' /\ \A u \in AnimationWorker : Ready(u)'
         /\ \A t \in Shot, j \in 1..MaxTasks :
              ~(t = s /\ j = k) => Submission(t, j)' /\ (t \notin interrupted' => Accounted(t, j)')
<1>1. \A t \in Shot, j \in 1..MaxTasks :
        /\ Status[t][j] \in Created => Status'[t][j] \in Created /\ remote'[t][j] = remote[t][j]
        /\ Status[t][j] \in Repeated => Status'[t][j] \in Repeated
        /\ Status'[t][j] = "unsubmitted" <=> Status[t][j] = "unsubmitted"
        /\ ~(t = s /\ j = k) => Status'[t][j] = Status[t][j] /\ Seen'[t][j] = Seen[t][j]
  BY DEF Moves, ShotInv, Submission
<1>2. ASSUME NEW u \in AnimationWorker, worker'[u] = worker[u],
             ~(worker[u].pc = "called" /\ worker[u].shot = s /\ worker[u].task = k)
      PROVE  Working(u)'
  <2>1. Working(u)
    BY DEF ShotInv
  <2>2. CASE worker[u].pc = "idle"
    BY <1>2, <2>2 DEF Working
  <2>3. CASE worker[u].pc # "idle"
    <3> DEFINE t == worker[u].shot
               j == worker[u].task
    <3>1. t \in Shot /\ j \in 1..MaxTasks /\ worker[u].price \in {Gen45, Turbo}
      BY <2>1, <2>3 DEF Working
    <3>3. worker[u].pc = "called" => Status'[t][j] = "pre_call"
      BY <1>1, <1>2, <2>1, <3>1 DEF Working
    <3>4. worker[u].pc \in {"polling", "won", "lost", "downloading"} =>
             Status'[t][j] \in Created /\ remote'[t][j] = remote[t][j]
      BY <1>1, <2>1, <3>1 DEF Working
    <3> QED
      BY <1>2, <2>1, <2>3, <3>1, <3>3, <3>4 DEF Working
  <2> QED
    BY <2>2, <2>3
<1>4. (\A u \in AnimationWorker : worker'[u].pc = "submitting" => worker'[u] = worker[u]) =>
        Turns' /\ \A u \in AnimationWorker : Ready(u)'
  BY <1>1, StillReady DEF Moves
<1>5. ASSUME NEW t \in Shot, NEW j \in 1..MaxTasks, ~(t = s /\ j = k)
      PROVE  Submission(t, j)' /\ (t \notin interrupted' => Accounted(t, j)')
  <2>1. Submission(t, j) /\ (t \notin interrupted => Accounted(t, j))
    BY DEF ShotInv
  <2>2. /\ Status'[t][j] = Status[t][j] /\ Seen'[t][j] = Seen[t][j] /\ remote'[t][j] = remote[t][j]
        /\ Money'[t][j] = Money[t][j] /\ (t \notin interrupted' => t \notin interrupted)
        /\ video'[t] = j => video[t] = j
    BY <1>1, <1>5 DEF Moves
  <2> QED
    BY <2>1, <2>2 DEF Submission, Accounted
<1> QED
  BY <1>2, <1>4, <1>5

LEMMA Left ==
  ASSUME ShotInv, NEW w \in AnimationWorker, Leave(w)
  PROVE  /\ worker' \in [AnimationWorker -> Worker]
         /\ \A v \in AnimationWorker : worker'[v] = IF v = w THEN Idle ELSE worker[v]
         /\ OneCalls' /\ Working(w)' /\ worker'[w].pc # "submitting"
<1>1. worker' \in [AnimationWorker -> Worker]
  BY WorkerSet DEF Leave, ShotInv
<1>2. \A v \in AnimationWorker : worker'[v] = IF v = w THEN Idle ELSE worker[v]
  BY DEF Leave, ShotInv, AnimationType
<1> QED
  BY <1>1, <1>2 DEF ShotInv, OneCalls, Working, Idle

LEMMA ItemMoved ==
  ASSUME ShotInv, NEW s \in Shot, NEW v \in ItemStatus, SetItem(s, v)
  PROVE  /\ item' \in [Shot -> [status: ItemStatus, price: {0, Gen45, Turbo}]]
         /\ \A t \in Shot : item'[t].status = IF t = s THEN v ELSE item[t].status
<1>1. AnimationType
  BY DEF ShotInv
<1>2. item' \in [Shot -> [status: ItemStatus, price: {0, Gen45, Turbo}]]
  BY <1>1, ItemSet DEF SetItem
<1>3. item \in [Shot -> [status: ItemStatus, price: {0, Gen45, Turbo}]]
  BY <1>1 DEF AnimationType
<1>4. \A t \in Shot : item'[t] = IF t = s THEN [item[s] EXCEPT !.status = v] ELSE item[t]
  <2> HIDE DEF ItemStatus
  <2> QED
    BY <1>3 DEF SetItem
<1>5. [item[s] EXCEPT !.status = v].status = v
  BY <1>3
<1> QED
  BY <1>2, <1>4, <1>5

\* An attempt acts on its submission, and the inductive invariant is left to be
\* shown of that submission and that attempt.
LEMMA OneMoves ==
  ASSUME ShotInv, NEW w \in AnimationWorker, NEW s \in Shot, NEW k \in 1..MaxTasks, NEW v, Moves(s, k, v),
         AnimationType', OneCalls', Working(w)', worker'[w].pc # "submitting",
         \A u \in AnimationWorker : u # w => worker'[u] = worker[u],
         \A u \in AnimationWorker : u # w => ~(worker[u].pc = "called" /\ worker[u].shot = s /\ worker[u].task = k),
         Submission(s, k)', s \notin interrupted' => Accounted(s, k)'
  PROVE  ShotInv'
<1>1. /\ \A u \in AnimationWorker :
           (worker'[u] = worker[u] /\ ~(worker[u].pc = "called" /\ worker[u].shot = s /\ worker[u].task = k)) => Working(u)'
      /\ (\A u \in AnimationWorker : worker'[u].pc = "submitting" => worker'[u] = worker[u]) =>
           Turns' /\ \A u \in AnimationWorker : Ready(u)'
      /\ \A t \in Shot, j \in 1..MaxTasks :
           ~(t = s /\ j = k) => Submission(t, j)' /\ (t \notin interrupted' => Accounted(t, j)')
  BY OthersKeep
<1>2. ASSUME NEW u \in AnimationWorker
      PROVE  Working(u)'
  <2>1. CASE u = w
    BY <2>1
  <2>2. CASE u # w
    BY <1>1, <2>2
  <2> QED
    BY <2>1, <2>2
<1>3. ASSUME NEW t \in Shot, NEW j \in 1..MaxTasks
      PROVE  Submission(t, j)' /\ (t \notin interrupted' => Accounted(t, j)')
  <2>1. CASE t = s /\ j = k
    BY <2>1
  <2>2. CASE ~(t = s /\ j = k)
    BY <1>1, <2>2
  <2> QED
    BY <2>1, <2>2
<1>4. Turns' /\ \A u \in AnimationWorker : Ready(u)'
  <2>1. \A u \in AnimationWorker : worker'[u].pc = "submitting" => worker'[u] = worker[u]
    OBVIOUS
  <2> QED
    BY <1>1, <2>1
<1> QED
  BY <1>2, <1>3, <1>4 DEF ShotInv

LEMMA ShotFail ==
  ASSUME ShotInv, BooksType, NEW w \in AnimationWorker, Called(w), Fail(w),
         \/ /\ RemoteOf(w) = "sent" /\ UNCHANGED interrupted
            /\ remote' = [remote EXCEPT ![worker[w].shot][worker[w].task] = "none"]
         \/ interrupted' = interrupted \cup {worker[w].shot} /\ UNCHANGED remote
  PROVE  ShotInv'
<1> DEFINE v == "submission_failed"
<1>0. PICK s \in Shot, k \in 1..MaxTasks : s = worker[w].shot /\ k = worker[w].task
  BY AtSubmission DEF Called
<1>1. /\ k <= Len(tasks[s]) /\ worker[w].pc = "called" /\ Status[s][k] = "pre_call"
      /\ \A u \in AnimationWorker : u # w => ~(worker[u].pc = "called" /\ worker[u].shot = s /\ worker[u].task = k)
  BY <1>0, AtSubmission DEF Called, ShotInv, Working
<1>2. /\ tasks' \in [Shot -> Seq(RunwayTask)] /\ \A t \in Shot : Len(tasks'[t]) <= MaxTasks
      /\ \A t \in Shot, j \in 1..MaxTasks :
           /\ Status'[t][j] = IF t = s /\ j = k THEN v ELSE Status[t][j]
           /\ Seen'[t][j] = Seen[t][j]
      /\ SameNumbers
  <2>1. SetTask(s, k, v) /\ v \in TaskStatus
    BY <1>0 DEF Fail, TaskStatus
  <2> HIDE DEF v
  <2> QED
    BY <1>1, <2>1, TaskSet DEF ShotInv
<1>3. \A t \in Shot, j \in 1..MaxTasks :
        /\ ~(t = s /\ j = k) => Money'[t][j] = Money[t][j]
        /\ Money[t][j] = "COMMITTED" => Money'[t][j] = "COMMITTED"
  <2>1. MayReconcile(<<s, k>>) /\ Reconcile(<<s, k>>, 0)
    BY <1>0 DEF Fail, Key1
  <2> QED
    BY <1>1, <2>1, MoneySettled
<1>4. /\ worker' \in [AnimationWorker -> Worker] /\ OneCalls' /\ Working(w)' /\ worker'[w].pc # "submitting"
      /\ \A u \in AnimationWorker : u # w => worker'[u] = worker[u]
  BY Left DEF Fail
<1>5. /\ item' \in [Shot -> [status: ItemStatus, price: {0, Gen45, Turbo}]]
      /\ \A t \in Shot : item'[t].status = IF t = s THEN "failed" ELSE item[t].status
  BY <1>0, ItemMoved DEF Fail, ItemStatus
<1>6. /\ remote' \in [Shot -> [1..MaxTasks -> RemoteStatus]] /\ interrupted' \subseteq Shot
      /\ \A t \in Shot, j \in 1..MaxTasks : ~(t = s /\ j = k) => remote'[t][j] = remote[t][j]
      /\ remote[s][k] \notin {"none", "sent"} => remote'[s][k] = remote[s][k]
      /\ interrupted \subseteq interrupted'
      /\ s \in interrupted' \/ remote'[s][k] = "none"
  <2>1. remote \in [Shot -> [1..MaxTasks -> RemoteStatus]] /\ interrupted \subseteq Shot
    BY DEF ShotInv, AnimationType
  <2>2. CASE remote[s][k] = "sent" /\ interrupted' = interrupted /\ remote' = [remote EXCEPT ![s][k] = "none"]
    <3>1. \A t \in Shot, j \in 1..MaxTasks : remote'[t][j] = IF t = s /\ j = k THEN "none" ELSE remote[t][j]
      BY <2>1, <2>2
    <3>2. remote' \in [Shot -> [1..MaxTasks -> RemoteStatus]]
      BY <2>1, <2>2 DEF RemoteStatus
    <3> QED
      BY <2>1, <2>2, <3>1, <3>2
  <2>3. CASE interrupted' = interrupted \cup {s} /\ remote' = remote
    BY <2>1, <2>3
  <2> QED
    BY <1>0, <2>2, <2>3 DEF RemoteOf
<1>7. video' = video
  BY DEF Fail
<1>8. AnimationType'
  BY <1>2, <1>4, <1>5, <1>6, <1>7 DEF ShotInv, AnimationType
<1>9. Moves(s, k, v)
  BY <1>1, <1>2, <1>3, <1>6, <1>7 DEF Moves, Created, Repeated
<1>10. Submission(s, k)'
  <2>1. Submission(s, k) /\ Status[s][k] \notin Created /\ v \notin Created
    BY <1>1 DEF ShotInv, Created
  <2> QED
    BY <1>2, <2>1 DEF Submission
<1>11. s \notin interrupted' => Accounted(s, k)'
  BY <1>2, <1>3, <1>6, <1>7 DEF ShotInv, Accounted
<1> QED
  BY <1>1, <1>4, <1>8, <1>9, <1>10, <1>11, OneMoves

LEMMA ShotAmbiguous ==
  ASSUME ShotInv, NEW w \in AnimationWorker, AmbiguousSubmission(w)
  PROVE  ShotInv'
<1> DEFINE v == "ambiguous"
<1>0. PICK s \in Shot, k \in 1..MaxTasks : s = worker[w].shot /\ k = worker[w].task
  BY AtSubmission DEF AmbiguousSubmission, Called
<1>1. /\ k <= Len(tasks[s]) /\ worker[w].pc = "called" /\ Status[s][k] = "pre_call"
      /\ \A u \in AnimationWorker : u # w => ~(worker[u].pc = "called" /\ worker[u].shot = s /\ worker[u].task = k)
  BY <1>0, AtSubmission DEF AmbiguousSubmission, Called, ShotInv, Working
<1>2. /\ tasks' \in [Shot -> Seq(RunwayTask)] /\ \A t \in Shot : Len(tasks'[t]) <= MaxTasks
      /\ \A t \in Shot, j \in 1..MaxTasks :
           /\ Status'[t][j] = IF t = s /\ j = k THEN v ELSE Status[t][j]
           /\ Seen'[t][j] = Seen[t][j]
      /\ SameNumbers
  <2>1. SetTask(s, k, v) /\ v \in TaskStatus
    BY <1>0 DEF AmbiguousSubmission, TaskStatus
  <2> HIDE DEF v
  <2> QED
    BY <1>1, <2>1, TaskSet DEF ShotInv
<1>3. Money' = Money /\ UNCHANGED <<video, remote, interrupted>>
  BY SameBooks DEF AmbiguousSubmission, ledgerVars
<1>4. /\ worker' \in [AnimationWorker -> Worker] /\ OneCalls' /\ Working(w)' /\ worker'[w].pc # "submitting"
      /\ \A u \in AnimationWorker : u # w => worker'[u] = worker[u]
  BY Left DEF AmbiguousSubmission
<1>5. /\ item' \in [Shot -> [status: ItemStatus, price: {0, Gen45, Turbo}]]
      /\ \A t \in Shot : item'[t].status = IF t = s THEN v ELSE item[t].status
  BY <1>0, ItemMoved DEF AmbiguousSubmission, ItemStatus
<1>6. AnimationType'
  BY <1>2, <1>3, <1>4, <1>5 DEF ShotInv, AnimationType
<1>7. Moves(s, k, v)
  BY <1>1, <1>2, <1>3 DEF Moves, Created, Repeated
<1>8. Submission(s, k)'
  <2>1. Submission(s, k) /\ Status[s][k] \notin Created /\ v \notin Created
    BY <1>1 DEF ShotInv, Created
  <2> QED
    BY <1>2, <2>1 DEF Submission
<1>9. s \notin interrupted' => Accounted(s, k)'
  BY <1>2, <1>3 DEF ShotInv, Accounted
<1> QED
  BY <1>1, <1>4, <1>6, <1>7, <1>8, <1>9, OneMoves

LEMMA NobodyCalls ==
  ASSUME ShotInv, NEW s \in Shot, NEW k \in 1..MaxTasks, Status[s][k] # "pre_call"
  PROVE  \A u \in AnimationWorker : ~(worker[u].pc = "called" /\ worker[u].shot = s /\ worker[u].task = k)
BY DEF ShotInv, Working

LEMMA ShotPoll ==
  ASSUME ShotInv, NEW w \in AnimationWorker, Poll(w)
  PROVE  ShotInv'
<1>0. PICK s \in Shot, k \in 1..MaxTasks : s = worker[w].shot /\ k = worker[w].task
  BY AtSubmission DEF Poll
<1>1. PICK v \in Ended : v = remote[s][k]
  BY <1>0 DEF Poll, RemoteOf
<1>2. /\ k <= Len(tasks[s]) /\ worker[w].pc = "polling" /\ Status[s][k] \in Created
      /\ worker[w] \in Worker /\ worker[w].price \in {Gen45, Turbo} /\ v \in TaskStatus
      /\ v \in Created /\ (Status[s][k] \in Repeated => v \in Repeated)
  <2>1. /\ k <= Len(tasks[s]) /\ worker[w].pc = "polling" /\ Status[s][k] \in Created
        /\ worker[w] \in Worker /\ worker[w].price \in {Gen45, Turbo}
    BY <1>0, AtSubmission DEF Poll, ShotInv, Working
  <2>2. v \in TaskStatus /\ v \in Created
    BY <1>1 DEF Ended, TaskStatus, Created
  <2>3. Status[s][k] \in Repeated => v \in Repeated
    BY <1>1, <2>1 DEF ShotInv, Submission, Created, Repeated
  <2> QED
    BY <2>1, <2>2, <2>3
<1>3. /\ tasks' \in [Shot -> Seq(RunwayTask)] /\ \A t \in Shot : Len(tasks'[t]) <= MaxTasks
      /\ \A t \in Shot, j \in 1..MaxTasks :
           /\ Status'[t][j] = IF t = s /\ j = k THEN v ELSE Status[t][j]
           /\ Seen'[t][j] = Seen[t][j]
      /\ SameNumbers
  <2>1. SetTask(s, k, v)
    BY <1>0, <1>1 DEF Poll, RemoteOf
  <2> QED
    BY <1>2, <2>1, TaskSet DEF ShotInv
<1>4. Money' = Money /\ UNCHANGED <<item, video, remote, interrupted>>
  BY SameBooks DEF Poll, ledgerVars
<1>5. /\ \A u \in AnimationWorker : u # w => worker'[u] = worker[u]
      /\ worker'[w].pc = IF v = "succeeded" THEN "won" ELSE "lost"
      /\ worker'[w].shot = s /\ worker'[w].task = k /\ worker'[w].price = worker[w].price
      /\ worker' \in [AnimationWorker -> Worker]
  <2>1. Step(w, IF v = "succeeded" THEN "won" ELSE "lost")
    BY <1>0, <1>1 DEF Poll, RemoteOf
  <2>2. worker' \in [AnimationWorker -> Worker]
    BY <2>1, WorkerSet DEF Step, ShotInv
  <2> QED
    BY <1>0, <1>2, <2>1, <2>2 DEF Step, ShotInv, AnimationType, Worker
<1>6. AnimationType'
  BY <1>3, <1>4, <1>5 DEF ShotInv, AnimationType
<1>7. OneCalls'
  BY <1>5 DEF ShotInv, OneCalls
<1>8. Working(w)'
  <2>1. Status'[s][k] = v /\ remote'[s][k] = v
    BY <1>1, <1>3, <1>4
  <2>2. worker'[w].pc \in {"won", "lost"} /\ (worker'[w].pc = "won" => v = "succeeded")
           /\ (worker'[w].pc = "lost" => v \in {"failed", "cancelled"})
    BY <1>5 DEF Ended
  <2> QED
    BY <1>2, <1>5, <2>1, <2>2 DEF Working
<1>9. Moves(s, k, v)
  <2>2. Status[s][k] # "ambiguous" /\ Status[s][k] # "unsubmitted" /\ v # "unsubmitted"
    BY <1>2 DEF Created
  <2> QED
    BY <1>2, <1>3, <1>4, <2>2 DEF Moves
<1>10. Submission(s, k)'
  <2>1. Submission(s, k)
    BY DEF ShotInv
  <2> QED
    BY <1>1, <1>2, <1>3, <1>4, <2>1 DEF Submission, Created
<1>11. s \notin interrupted' => Accounted(s, k)'
  <2>1. v # "submission_failed"
    BY DEF Ended
  <2> QED
    BY <1>3, <1>4, <2>1 DEF ShotInv, Accounted
<1>12. \A u \in AnimationWorker : ~(worker[u].pc = "called" /\ worker[u].shot = s /\ worker[u].task = k)
  <2>1. Status[s][k] # "pre_call"
    BY <1>2 DEF Created
  <2> QED
    BY <2>1, NobodyCalls
<1>13. worker'[w].pc # "submitting"
  BY <1>5
<1> QED
  BY <1>5, <1>6, <1>7, <1>8, <1>9, <1>10, <1>11, <1>12, <1>13, OneMoves

LEMMA ShotLose ==
  ASSUME ShotInv, BooksType, NEW w \in AnimationWorker, Lose(w)
  PROVE  ShotInv'
<1>0. PICK s \in Shot, k \in 1..MaxTasks : s = worker[w].shot /\ k = worker[w].task
  BY AtSubmission DEF Lose
<1>1. worker[w].pc = "lost" /\ Status[s][k] \in Created /\ remote[s][k] \in {"failed", "cancelled"}
  BY <1>0 DEF Lose, ShotInv, Working
<1>2. Status' = Status /\ Seen' = Seen /\ SameNumbers /\ UNCHANGED <<tasks, video, remote, interrupted>>
  BY SameTasks DEF Lose
<1>3. \A t \in Shot, j \in 1..MaxTasks :
        /\ ~(t = s /\ j = k) => Money'[t][j] = Money[t][j]
        /\ Money[t][j] = "COMMITTED" => Money'[t][j] = "COMMITTED"
  <2>1. MayReconcile(<<s, k>>) /\ Reconcile(<<s, k>>, 0)
    BY <1>0 DEF Lose, Key1
  <2> QED
    BY <1>1, <2>1, MoneySettled
<1>4. /\ worker' \in [AnimationWorker -> Worker] /\ OneCalls' /\ Working(w)' /\ worker'[w].pc # "submitting"
      /\ \A u \in AnimationWorker : u # w => worker'[u] = worker[u]
  BY Left DEF Lose
<1>5. /\ item' \in [Shot -> [status: ItemStatus, price: {0, Gen45, Turbo}]]
      /\ \A t \in Shot : item'[t].status = IF t = s THEN "failed" ELSE item[t].status
  BY <1>0, ItemMoved DEF Lose, ItemStatus
<1>6. AnimationType'
  BY <1>2, <1>4, <1>5 DEF ShotInv, AnimationType
<1>7. Moves(s, k, Status[s][k])
  <2>2. Status[s][k] # "unsubmitted"
    BY <1>1 DEF Created
  <2> QED
    BY <1>2, <1>3, <2>2 DEF Moves
<1>8. Submission(s, k)'
  <2>1. Submission(s, k) /\ Status[s][k] # "unsubmitted"
    BY <1>1 DEF ShotInv, Created
  <2> QED
    BY <1>2, <2>1 DEF Submission
<1>9. s \notin interrupted' => Accounted(s, k)'
  BY <1>1, <1>2, <1>3 DEF ShotInv, Accounted
<1>10. \A u \in AnimationWorker : ~(worker[u].pc = "called" /\ worker[u].shot = s /\ worker[u].task = k)
  <2>1. Status[s][k] # "pre_call"
    BY <1>1 DEF Created
  <2> QED
    BY <2>1, NobodyCalls
<1> QED
  BY <1>4, <1>6, <1>7, <1>8, <1>9, <1>10, OneMoves

LEMMA ShotComplete ==
  ASSUME ShotInv, BooksType, NEW w \in AnimationWorker, Complete(w)
  PROVE  ShotInv'
<1>0. PICK s \in Shot, k \in 1..MaxTasks : s = worker[w].shot /\ k = worker[w].task
  BY AtSubmission DEF Complete
<1>1. /\ worker[w].pc = "downloading" /\ Status[s][k] \in Created /\ remote[s][k] = "succeeded"
      /\ worker[w].price \in Nat /\ worker[w].price > 0
  <2>1. worker[w].price \in Nat \ {0}
    BY AtSubmission DEF Complete
  <2> QED
    BY <1>0, <2>1 DEF Complete, ShotInv, Working
<1>2. Status' = Status /\ Seen' = Seen /\ SameNumbers /\ UNCHANGED <<tasks, remote, interrupted>>
  BY SameTasks DEF Complete
<1>3. \A t \in Shot, j \in 1..MaxTasks :
        /\ ~(t = s /\ j = k) => Money'[t][j] = Money[t][j]
        /\ (t = s /\ j = k /\ Money[s][k] \in {"RESERVED", "COMMITTED"}) => Money'[t][j] = "COMMITTED"
  <2>1. MayReconcile(<<s, k>>) /\ Reconcile(<<s, k>>, worker[w].price)
    BY <1>0 DEF Complete, Key1
  <2> QED
    BY <1>1, <2>1, MoneySettled
<1>4. /\ worker' \in [AnimationWorker -> Worker] /\ OneCalls' /\ Working(w)' /\ worker'[w].pc # "submitting"
      /\ \A u \in AnimationWorker : u # w => worker'[u] = worker[u]
  BY Left DEF Complete
<1>5. /\ item' \in [Shot -> [status: ItemStatus, price: {0, Gen45, Turbo}]]
      /\ \A t \in Shot : item'[t].status = IF t = s THEN "completed" ELSE item[t].status
  BY <1>0, ItemMoved DEF Complete, ItemStatus
<1>6. /\ video' \in [Shot -> 0..MaxTasks]
      /\ \A t \in Shot : video'[t] = IF t = s THEN k ELSE video[t]
  <2>1. k \in 0..MaxTasks /\ video' = [video EXCEPT ![s] = k]
    BY <1>0, LedgerAssumption DEF Complete
  <2> QED
    BY <2>1 DEF ShotInv, AnimationType
<1>7. AnimationType'
  BY <1>2, <1>4, <1>5, <1>6 DEF ShotInv, AnimationType
<1>8. Moves(s, k, Status[s][k])
  <2>2. Status[s][k] # "unsubmitted"
    BY <1>1 DEF Created
  <2> QED
    BY <1>2, <1>3, <1>6, <2>2 DEF Moves
<1>9. Submission(s, k)'
  <2>1. Submission(s, k) /\ Status[s][k] # "unsubmitted"
    BY <1>1 DEF ShotInv, Created
  <2> QED
    BY <1>2, <2>1 DEF Submission
<1>10. s \notin interrupted' => Accounted(s, k)'
  BY <1>1, <1>2, <1>3, <1>6 DEF ShotInv, Accounted
<1>11. \A u \in AnimationWorker : ~(worker[u].pc = "called" /\ worker[u].shot = s /\ worker[u].task = k)
  <2>1. Status[s][k] # "pre_call"
    BY <1>1 DEF Created
  <2> QED
    BY <2>1, NobodyCalls
<1> QED
  BY <1>4, <1>7, <1>8, <1>9, <1>10, <1>11, OneMoves

LEMMA ShotReconciled ==
  ASSUME ShotInv, BooksType, NEW s \in Shot, ReconcileAmbiguous(s)
  PROVE  ShotInv'
<1> DEFINE v == "submission_failed"
<1>0. PICK k \in 1..MaxTasks : k = Len(tasks[s]) /\ Status[s][k] # "unsubmitted" /\ Task(s) = tasks[s][k]
  <2>1. Len(tasks[s]) \in 1..MaxTasks /\ Task(s) = tasks[s][Len(tasks[s])]
    BY TypedTasks, LedgerAssumption DEF ReconcileAmbiguous, ShotInv, Task, Last
  <2>2. Status[s][Len(tasks[s])] # "unsubmitted"
    BY <2>1, SeenTyped DEF ShotInv
  <2> QED
    BY <2>1, <2>2
<1>1. k <= Len(tasks[s]) /\ video[s] = 0 /\ remote[s][k] \in {"none", "sent"} /\ Status[s][k] \notin Created
  <2>1. k <= Len(tasks[s]) /\ ~tasks[s][k].known /\ tasks[s][k].known \in BOOLEAN
    BY <1>0, TypedTasks, LedgerAssumption DEF ReconcileAmbiguous, ShotInv
  <2>2. Seen[s][k] = FALSE
    BY <1>0, <2>1 DEF Seen
  <2>3. Submission(s, k)
    BY DEF ShotInv
  <2> QED
    BY <1>0, <2>1, <2>2, <2>3 DEF ReconcileAmbiguous, Submission
<1>2. /\ tasks' \in [Shot -> Seq(RunwayTask)] /\ \A t \in Shot : Len(tasks'[t]) <= MaxTasks
      /\ \A t \in Shot, j \in 1..MaxTasks :
           /\ Status'[t][j] = IF t = s /\ j = k THEN v ELSE Status[t][j]
           /\ Seen'[t][j] = Seen[t][j]
      /\ SameNumbers
  <2>1. SetTask(s, k, v) /\ v \in TaskStatus
    BY <1>0 DEF ReconcileAmbiguous, TaskStatus
  <2>2. AnimationType /\ s \in Shot /\ k \in 1..MaxTasks
    BY <1>0 DEF ShotInv
  <2> HIDE DEF v
  <2> QED
    BY <1>1, <2>1, <2>2, TaskSet
<1>3. \A t \in Shot, j \in 1..MaxTasks : ~(t = s /\ j = k) => Money'[t][j] = Money[t][j]
  <2>1. MayReconcile(<<s, k>>) /\ Reconcile(<<s, k>>, 0)
    BY <1>0 DEF ReconcileAmbiguous
  <2> QED
    BY <2>1, MoneySettled
<1>4. UNCHANGED <<video, worker, interrupted>>
  BY DEF ReconcileAmbiguous
<1>5. /\ item' \in [Shot -> [status: ItemStatus, price: {0, Gen45, Turbo}]]
      /\ \A t \in Shot : item'[t].status = IF t = s THEN "failed" ELSE item[t].status
  BY ItemMoved DEF ReconcileAmbiguous, ItemStatus
<1>6. /\ remote' \in [Shot -> [1..MaxTasks -> RemoteStatus]]
      /\ \A t \in Shot, j \in 1..MaxTasks : remote'[t][j] = IF t = s /\ j = k THEN "none" ELSE remote[t][j]
  <2>1. remote' = [remote EXCEPT ![s][k] = "none"]
    BY <1>0 DEF ReconcileAmbiguous
  <2>2. remote \in [Shot -> [1..MaxTasks -> RemoteStatus]]
    BY DEF ShotInv, AnimationType
  <2>3. remote' \in [Shot -> [1..MaxTasks -> RemoteStatus]]
    BY <2>1, <2>2 DEF RemoteStatus
  <2> QED
    BY <2>1, <2>2, <2>3
<1>7. AnimationType'
  BY <1>2, <1>4, <1>5, <1>6 DEF ShotInv, AnimationType
<1>8. Moves(s, k, v)
  <2>2. v \notin Created /\ v \in Repeated /\ v # "unsubmitted" /\ Status[s][k] # "unsubmitted"
    BY <1>0 DEF Created, Repeated
  <2> QED
    BY <1>1, <1>2, <1>3, <1>4, <1>6, <2>2 DEF Moves
<1>9. Submission(s, k)'
  <2>1. Submission(s, k) /\ v \notin Created
    BY DEF ShotInv, Created
  <2> QED
    BY <1>1, <1>2, <2>1 DEF Submission
<1>10. s \notin interrupted' => Accounted(s, k)'
  <2>1. remote'[s][k] = "none" /\ video'[s] # k
    BY <1>1, <1>4, <1>6
  <2> QED
    BY <2>1 DEF Accounted
<1>11. /\ \A u \in AnimationWorker :
            (worker'[u] = worker[u] /\ ~(worker[u].pc = "called" /\ worker[u].shot = s /\ worker[u].task = k)) => Working(u)'
       /\ (\A u \in AnimationWorker : worker'[u].pc = "submitting" => worker'[u] = worker[u]) =>
            Turns' /\ \A u \in AnimationWorker : Ready(u)'
       /\ \A t \in Shot, j \in 1..MaxTasks :
            ~(t = s /\ j = k) => Submission(t, j)' /\ (t \notin interrupted' => Accounted(t, j)')
  BY <1>8, OthersKeep
<1>12. \A u \in AnimationWorker : Working(u)'
  <2>1. \A u \in AnimationWorker : ~(worker[u].pc = "called" /\ worker[u].shot = s /\ worker[u].task = k)
    BY <1>0 DEF ReconcileAmbiguous, Called, Key1
  <2> QED
    BY <1>4, <1>11, <2>1
<1>13. OneCalls'
  BY <1>4 DEF ShotInv, OneCalls
<1>14. ASSUME NEW t \in Shot, NEW j \in 1..MaxTasks
       PROVE  Submission(t, j)' /\ (t \notin interrupted' => Accounted(t, j)')
  <2>1. CASE t = s /\ j = k
    BY <1>9, <1>10, <2>1
  <2>2. CASE ~(t = s /\ j = k)
    BY <1>11, <2>2
  <2> QED
    BY <2>1, <2>2
<1>15. Turns' /\ \A u \in AnimationWorker : Ready(u)'
  BY <1>4, <1>11
<1> QED
  BY <1>7, <1>15, <1>12, <1>13, <1>14 DEF ShotInv

-----------------------------------------------------------------------------
(* What each part does to the books. *)

\* Nothing, or an amount that fits is held, or one that was held is settled.
Trades(K) ==
  \/ UNCHANGED books
  \/ \E k \in K : \/ \E n \in Prices : Holds(k, n) /\ Covers(n) /\ Unlocked
                 \/ \E n \in Prices \cup {0} : Settles(k, n) /\ Unlocked

LEMMA PricesAreNatural == Prices \subseteq Nat
BY AnimationAssumption, ImageAssumption, PaidAssumption DEF Prices

LEMMA TradeFacts ==
  ASSUME BooksType, NEW K \in SUBSET Key, Trades(K)
  PROVE  /\ BooksType'
         /\ \A j \in Key : j \notin K => books'.of[j] = books.of[j]
         /\ ~Unlocked => books' = books
<1>1. CASE UNCHANGED books
  BY <1>1 DEF BooksType
<1>2. ASSUME NEW k \in K, NEW n \in Prices, Holds(k, n), Unlocked
      PROVE  BooksType' /\ \A j \in Key : j \notin K => books'.of[j] = books.of[j]
  <2>1. k \in Key /\ n \in Nat
    BY PricesAreNatural
  <2>2. BooksType' /\ \A j \in Key : j # k => books'.of[j] = books.of[j]
    BY <1>2, <2>1, HoldsFacts
  <2> QED
    BY <2>2
<1>3. ASSUME NEW k \in K, NEW n \in Prices \cup {0}, Settles(k, n), Unlocked
      PROVE  BooksType' /\ \A j \in Key : j \notin K => books'.of[j] = books.of[j]
  <2>1. k \in Key /\ n \in Nat
    BY PricesAreNatural
  <2>2. BooksType' /\ \A j \in Key : j # k => books'.of[j] = books.of[j]
    BY <1>3, <2>1, SettlesFacts
  <2> QED
    BY <2>2
<1> QED
  BY <1>1, <1>2, <1>3 DEF Trades

LEMMA ReserveTrades ==
  ASSUME BooksType, NEW K \in SUBSET Key, NEW k \in K, NEW n \in Prices, MayReserve(k, n), Reserve(k, n)
  PROVE  Trades(K)
<1>1. CASE Known(k)
  BY <1>1 DEF Reserve, Trades
<1>2. CASE ~Known(k)
  <2>1. Covers(n) /\ Unlocked
    BY <1>2 DEF MayReserve
  <2>2. Holds(k, n)
    BY <1>2 DEF Reserve, Known, Holds
  <2> QED
    BY <2>1, <2>2 DEF Trades
<1> QED
  BY <1>1, <1>2

LEMMA ReconcileTrades ==
  ASSUME BooksType, NEW K \in SUBSET Key, NEW k \in K, NEW n \in Prices \cup {0}, MayReconcile(k), Reconcile(k, n)
  PROVE  Trades(K)
<1>1. CASE Open(k)
  <2>1. Settles(k, n) /\ Unlocked
    BY <1>1 DEF Reconcile, MayReconcile, Settles
  <2> QED
    BY <2>1 DEF Trades
<1>2. CASE ~Open(k)
  BY <1>2 DEF Reconcile, Trades
<1> QED
  BY <1>1, <1>2

ShotKey == Shot \X (1..MaxTasks)

FrameKey == Frame \X {0}

RepairKey == Shot \X {0}

LEMMA ThreeKeys ==
  /\ ShotKey \in SUBSET Key /\ FrameKey \in SUBSET Key /\ RepairKey \in SUBSET Key
  /\ ShotKey \cap FrameKey = {} /\ ShotKey \cap RepairKey = {} /\ FrameKey \cap RepairKey = {}
BY LedgerAssumption DEF ShotKey, FrameKey, RepairKey, Key

\* An action of the animation keeps what is known of the shots, trades under their
\* keys and leaves the lock alone.
LEMMA ShotStep ==
  ASSUME ShotInv, BooksType, AnimationNext
  PROVE  /\ ShotInv' /\ Trades(ShotKey) /\ narrator' = narrator
         /\ UNCHANGED faults \/ Fault
<1> DEFINE Goal == /\ ShotInv' /\ Trades(ShotKey) /\ narrator' = narrator
                   /\ UNCHANGED faults \/ Fault
<1> USE DEF ledgerVars
<1>1. ASSUME NEW w \in AnimationWorker, NEW s \in Shot, Begin(w, s)
      PROVE  Goal
  <2>1. ShotInv'
    BY <1>1, ShotBegin
  <2> QED
    BY <1>1, <2>1 DEF Begin, Start, Trades
<1>2. ASSUME NEW w \in AnimationWorker, NEW s \in Shot, Resume(w, s)
      PROVE  Goal
  <2>1. ShotInv'
    BY <1>2, ShotResume
  <2> QED
    BY <1>2, <2>1 DEF Resume, Start, Trades
<1>3. ASSUME NEW w \in AnimationWorker, Submit(w)
      PROVE  Goal
  <2>1. ShotInv'
    BY <1>3, ShotSubmit
  <2>2. PICK k : /\ k = Len(tasks[worker[w].shot]) + 1 /\ k <= MaxTasks
                 /\ MayReserve(<<worker[w].shot, k>>, worker[w].price)
                 /\ Reserve(<<worker[w].shot, k>>, worker[w].price)
    BY <1>3 DEF Submit
  <2>3. worker[w].shot \in Shot /\ worker[w].price \in Prices
    BY <1>3 DEF Submit, ShotInv, Working, Prices
  <2>4. <<worker[w].shot, k>> \in ShotKey
    <3>1. Len(tasks[worker[w].shot]) \in 0..MaxTasks
      BY <2>3, TypedTasks DEF ShotInv
    <3> QED
      BY <2>2, <2>3, <3>1, LedgerAssumption DEF ShotKey
  <2>5. Trades(ShotKey)
    BY <2>2, <2>3, <2>4, ReserveTrades, ThreeKeys
  <2> QED
    BY <1>3, <2>1, <2>5 DEF Submit
<1>4. ASSUME NEW w \in AnimationWorker,
             SubmitRefused(w) \/ WindowExpired(w) \/ CompleteRefused(w) \/ Abandon(w)
      PROVE  Goal
  <2>1. Leave(w) /\ UNCHANGED <<books, item, tasks, video, remote, interrupted>>
    BY <1>4 DEF SubmitRefused, WindowExpired, CompleteRefused, Abandon
  <2>2. ShotInv'
    BY <2>1, ShotLeave
  <2> QED
    BY <1>4, <2>2 DEF SubmitRefused, WindowExpired, CompleteRefused, Abandon, Trades
<1>5. ASSUME NEW w \in AnimationWorker, Accepted(w)
      PROVE  Goal
  <2>1. ShotInv'
    BY <1>5, ShotAccepted
  <2> QED
    BY <1>5, <2>1 DEF Accepted, Trades
<1>6. ASSUME NEW w \in AnimationWorker, NotCreated(w) \/ Interrupted(w)
      PROVE  Goal
  <2>1. Called(w) /\ Fail(w)
    BY <1>6 DEF NotCreated, Interrupted
  <2>2. ShotInv'
    BY <1>6, <2>1, ShotFail DEF NotCreated, Interrupted
  <2>3. Key1(w) \in ShotKey
    BY <2>1, AtSubmission DEF Called, Key1, ShotKey
  <2>4. Trades(ShotKey)
    BY <2>1, <2>3, ReconcileTrades, ThreeKeys DEF Fail
  <2> QED
    BY <1>6, <2>1, <2>2, <2>4 DEF NotCreated, Interrupted, Fail
<1>7. ASSUME NEW w \in AnimationWorker, AmbiguousSubmission(w)
      PROVE  Goal
  <2>1. ShotInv'
    BY <1>7, ShotAmbiguous
  <2> QED
    BY <1>7, <2>1 DEF AmbiguousSubmission, Trades
<1>8. ASSUME NEW w \in AnimationWorker, Poll(w)
      PROVE  Goal
  <2>1. ShotInv'
    BY <1>8, ShotPoll
  <2> QED
    BY <1>8, <2>1 DEF Poll, Trades
<1>9. ASSUME NEW w \in AnimationWorker, Cancelled(w)
      PROVE  Goal
  <2>1. ShotInv'
    BY <1>9, ShotCancelled
  <2> QED
    BY <1>9, <2>1 DEF Cancelled, Trades
<1>10. ASSUME NEW w \in AnimationWorker, Lose(w)
       PROVE  Goal
  <2>1. ShotInv'
    BY <1>10, ShotLose
  <2>2. Key1(w) \in ShotKey
    BY <1>10, AtSubmission DEF Lose, Key1, ShotKey
  <2>3. Trades(ShotKey)
    BY <1>10, <2>2, ReconcileTrades, ThreeKeys DEF Lose
  <2> QED
    BY <1>10, <2>1, <2>3 DEF Lose
<1>11. ASSUME NEW w \in AnimationWorker, Download(w)
       PROVE  Goal
  <2>1. ShotInv'
    BY <1>11, ShotDownload
  <2> QED
    BY <1>11, <2>1 DEF Download, Trades
<1>12. ASSUME NEW w \in AnimationWorker, Complete(w)
       PROVE  Goal
  <2>1. ShotInv'
    BY <1>12, ShotComplete
  <2>2. Key1(w) \in ShotKey /\ worker[w].price \in Prices
    BY <1>12 DEF Complete, ShotInv, Working, Key1, ShotKey, Prices
  <2>3. Trades(ShotKey)
    BY <1>12, <2>2, ReconcileTrades, ThreeKeys DEF Complete
  <2> QED
    BY <1>12, <2>1, <2>3 DEF Complete
<1>13. ASSUME NEW s \in Shot, ReconcileAmbiguous(s)
       PROVE  Goal
  <2>1. ShotInv'
    BY <1>13, ShotReconciled
  <2>2. PICK k : /\ k = Len(tasks[s]) /\ MayReconcile(<<s, k>>) /\ Reconcile(<<s, k>>, 0)
                 /\ tasks[s] # <<>>
    BY <1>13 DEF ReconcileAmbiguous
  <2>3. k \in 1..MaxTasks
    BY <2>2, TypedTasks, LedgerAssumption DEF ShotInv
  <2>4. <<s, k>> \in ShotKey
    BY <2>3 DEF ShotKey
  <2>5. Trades(ShotKey)
    BY <2>2, <2>4, ReconcileTrades, ThreeKeys
  <2> QED
    BY <1>13, <2>1, <2>5 DEF ReconcileAmbiguous
<1>14. ASSUME NEW s \in Shot, NEW k \in 1..MaxTasks, CreateRemote(s, k)
       PROVE  Goal
  <2>1. RemoteMoves(s, k, "running") /\ UNCHANGED <<books, item, tasks, video, worker, interrupted>>
    BY <1>14 DEF CreateRemote, RemoteMoves
  <2>2. ShotInv'
    BY <2>1, ShotRemote
  <2> QED
    BY <1>14, <2>2 DEF CreateRemote, Trades
<1>15. ASSUME NEW s \in Shot, NEW k \in 1..MaxTasks, EndRemote(s, k)
       PROVE  Goal
  <2>1. PICK r \in {"succeeded", "failed"} : remote' = [remote EXCEPT ![s][k] = r]
    BY <1>15 DEF EndRemote
  <2>2. RemoteMoves(s, k, r) /\ UNCHANGED <<books, item, tasks, video, worker, interrupted>>
    BY <1>15, <2>1 DEF EndRemote, RemoteMoves
  <2>3. ShotInv'
    BY <2>2, ShotRemote
  <2> QED
    BY <1>15, <2>3 DEF EndRemote, Trades
<1> HIDE DEF Goal
<1>16. Goal
  BY <1>1, <1>2, <1>3, <1>4, <1>5, <1>6, <1>7, <1>8, <1>9, <1>10, <1>11, <1>12, <1>13, <1>14, <1>15
     DEF AnimationNext, Attempt, Advance
<1> QED
  BY <1>16 DEF Goal

-----------------------------------------------------------------------------
(* Keyframes. *)

\* The money of each frame.
Bill == [f \in Frame |-> books.of[<<f, 0>>].state]

Callers(f) == {v \in ImageWorker : drawer[v].frame = f /\ drawer[v].pc = "calling"}

\* Every image beyond the first was let through by a fault; a call under way may
\* make one more, and one that may still be made has been counted.
Counted(f) ==
  paid[f] + Cardinality(Callers(f)) <= faults + (IF Callable(frame[f]) /\ Callers(f) = {} THEN 0 ELSE 1)

\* A frame none of whose calls broke has one attempt at a time, and its money stays
\* until the image is paid for.
Drawn(f) ==
  /\ \A u, v \in ImageWorker : (drawer[u].frame = f /\ drawer[v].frame = f /\ drawer[u].pc # "idle" /\ drawer[v].pc # "idle") => u = v
  /\ Bill[f] # "RELEASED"
  /\ Callable(frame[f]) => paid[f] = 0
  /\ \A v \in ImageWorker : drawer[v].frame = f =>
       /\ drawer[v].pc = "calling" => Callable(frame[f]) /\ Bill[f] # "none"
       /\ drawer[v].pc \in {"received", "booked"} => ~Callable(frame[f])
  /\ paid[f] \in {0, 1} /\ (paid[f] = 1 => Bill[f] # "none")

ImageInv ==
  /\ ImageType
  /\ faults \in 0..MaxFaults
  /\ \A v \in ImageWorker : drawer[v].pc # "idle" => drawer[v].frame \in Frame
  /\ \A f \in Frame : Counted(f) /\ (f \notin broken => Drawn(f))

DrawerPc == {"idle", "calling", "received", "booked"}

LEMMA DrawerSet ==
  ASSUME ImageType, NEW v \in ImageWorker
  PROVE  /\ \A pc \in DrawerPc, f \in Frame \cup {0} :
              [drawer EXCEPT ![v] = [pc |-> pc, frame |-> f]] \in [ImageWorker -> [pc: DrawerPc, frame: Frame \cup {0}]]
         /\ \A pc \in DrawerPc :
              [drawer EXCEPT ![v].pc = pc] \in [ImageWorker -> [pc: DrawerPc, frame: Frame \cup {0}]]
<1> DEFINE P == DrawerPc
           F == Frame \cup {0}
<1>1. drawer \in [ImageWorker -> [pc: P, frame: F]]
  BY DEF ImageType, DrawerPc
<1> HIDE DEF P, F
<1>2. /\ \A pc \in P, f \in F : [pc |-> pc, frame |-> f] \in [pc: P, frame: F]
      /\ \A pc \in P : [drawer[v] EXCEPT !.pc = pc] \in [pc: P, frame: F]
  BY <1>1
<1>3. /\ \A pc \in P, f \in F : [drawer EXCEPT ![v] = [pc |-> pc, frame |-> f]] \in [ImageWorker -> [pc: P, frame: F]]
      /\ \A pc \in P : [drawer EXCEPT ![v].pc = pc] \in [ImageWorker -> [pc: P, frame: F]]
  BY <1>1, <1>2
<1> QED
  BY <1>3 DEF P, F

LEMMA CallersFinite ==
  ASSUME NEW f
  PROVE  /\ IsFiniteSet(Callers(f)) /\ Cardinality(Callers(f)) \in Nat
         /\ Callers(f) = {} <=> Cardinality(Callers(f)) = 0
<1>1. Callers(f) \subseteq ImageWorker
  BY DEF Callers
<1>2. IsFiniteSet(Callers(f))
  BY <1>1, ImageAssumption, FS_Subset
<1> QED
  BY <1>2, FS_CardinalityType, FS_EmptySet

\* What a drawer does to the callers of a frame.
LEMMA CallersMove ==
  ASSUME ImageType, NEW v \in ImageWorker, NEW f,
         \A u \in ImageWorker : u # v => drawer'[u] = drawer[u]
  PROVE  LET was == drawer[v].frame = f /\ drawer[v].pc = "calling"
             is == drawer'[v].frame = f /\ drawer'[v].pc = "calling"
         IN /\ (was <=> is) => Callers(f)' = Callers(f)
            /\ (~was /\ is) => /\ Cardinality(Callers(f)') = Cardinality(Callers(f)) + 1
                              /\ Callers(f)' # {}
            /\ (was /\ ~is) => Cardinality(Callers(f)') = Cardinality(Callers(f)) - 1 /\ Callers(f) # {}
<1> DEFINE was == drawer[v].frame = f /\ drawer[v].pc = "calling"
           is == drawer'[v].frame = f /\ drawer'[v].pc = "calling"
<1>1. CASE was <=> is
  BY <1>1 DEF Callers
<1>2. CASE ~was /\ is
  <2>1. Callers(f)' = Callers(f) \cup {v} /\ v \notin Callers(f)
    BY <1>2 DEF Callers
  <2>2. IsFiniteSet(Callers(f)) /\ Cardinality(Callers(f)) \in Nat
    BY CallersFinite
  <2>3. Cardinality(Callers(f) \cup {v}) = Cardinality(Callers(f)) + 1
    BY <2>1, <2>2, FS_AddElement
  <2> QED
    BY <1>2, <2>1, <2>3
<1>3. CASE was /\ ~is
  <2>1. Callers(f)' = Callers(f) \ {v} /\ v \in Callers(f)
    BY <1>3 DEF Callers
  <2>2. Cardinality(Callers(f) \ {v}) = Cardinality(Callers(f)) - 1
    BY <2>1, CallersFinite, FS_RemoveElement
  <2>3. Cardinality(Callers(f)') = Cardinality(Callers(f)) - 1 /\ Callers(f) # {}
    BY <2>1, <2>2
  <2> QED
    BY <1>3, <2>3
<1> QED
  BY <1>1, <1>2, <1>3

\* A step of drawer v at frame f: from one state to the next, with what it does to
\* the frame, its bill and what was paid.  The other frames do not notice.
DrawerMoves(v, f) ==
  /\ \A u \in ImageWorker : u # v => drawer'[u] = drawer[u]
  /\ drawer[v].pc # "idle" => drawer[v].frame = f
  /\ drawer'[v].pc # "idle" => drawer'[v].frame = f
  /\ \A g \in Frame : g # f =>
       frame'[g] = frame[g] /\ Bill'[g] = Bill[g] /\ paid'[g] = paid[g] /\ (g \notin broken' => g \notin broken)
  /\ f \notin broken' => f \notin broken
  /\ faults' \in Nat /\ faults' >= faults

LEMMA OtherFramesKeep ==
  ASSUME ImageInv, NEW v \in ImageWorker, NEW f \in Frame, DrawerMoves(v, f)
  PROVE  \A g \in Frame : g # f => Counted(g)' /\ (g \notin broken' => Drawn(g)')
<1> SUFFICES ASSUME NEW g \in Frame, g # f
             PROVE  Counted(g)' /\ (g \notin broken' => Drawn(g)')
  OBVIOUS
<1>1. Counted(g) /\ (g \notin broken => Drawn(g)) /\ paid[g] \in Nat /\ faults \in Nat /\ ImageType
  BY LedgerAssumption DEF ImageInv, ImageType, MaxImages
<1>2. frame'[g] = frame[g] /\ Bill'[g] = Bill[g] /\ paid'[g] = paid[g] /\ (g \notin broken' => g \notin broken)
  BY DEF DrawerMoves
<1>3. drawer[v].frame = g => drawer[v].pc = "idle"
  BY DEF DrawerMoves
<1>4. drawer'[v].frame = g => drawer'[v].pc = "idle"
  BY DEF DrawerMoves
<1>5. Callers(g)' = Callers(g)
  BY <1>3, <1>4 DEF Callers, DrawerMoves
<1>6. Counted(g)'
  <2>1. Cardinality(Callers(g)) \in Nat /\ faults' \in Nat /\ faults' >= faults
    BY CallersFinite DEF DrawerMoves
  <2> QED
    BY <1>1, <1>2, <1>5, <2>1 DEF Counted
<1>7. g \notin broken' => Drawn(g)'
  BY <1>1, <1>2, <1>3, <1>4 DEF Drawn, DrawerMoves
<1> QED
  BY <1>6, <1>7

LEMMA FrameKeys ==
  ASSUME NEW f \in Frame
  PROVE  <<f, 0>> \in FrameKey /\ \A g \in Frame : <<g, 0>> \in Key /\ (<<g, 0>> = <<f, 0>> <=> g = f)
<1>1. <<f, 0>> \in FrameKey /\ FrameKey \subseteq Key
  BY DEF Key, FrameKey
<1>2. \A g \in Frame : <<g, 0>> \in FrameKey
  BY DEF FrameKey
<1> QED
  BY <1>1, <1>2

LEMMA BillReserved ==
  ASSUME BooksType, NEW f \in Frame, NEW n \in Nat, Reserve(<<f, 0>>, n)
  PROVE  \A g \in Frame : Bill'[g] = IF g = f /\ Bill[f] = "none" THEN "RESERVED" ELSE Bill[g]
<1>1. \A j \in Key : books'.of[j].state =
        IF j = <<f, 0>> /\ books.of[<<f, 0>>].state = "none" THEN "RESERVED" ELSE books.of[j].state
  BY FrameKeys, ReserveFacts
<1> QED
  BY <1>1, FrameKeys, Zenon DEF Bill

LEMMA BillSettled ==
  ASSUME BooksType, NEW f \in Frame, NEW n \in Nat, MayReconcile(<<f, 0>>), Reconcile(<<f, 0>>, n)
  PROVE  \A g \in Frame : Bill'[g] = IF g = f /\ Bill[f] = "RESERVED"
                                    THEN IF n > 0 THEN "COMMITTED" ELSE "RELEASED"
                                    ELSE Bill[g]
<1>1. \A j \in Key : books'.of[j].state =
        IF j = <<f, 0>> /\ books.of[<<f, 0>>].state = "RESERVED"
        THEN IF n > 0 THEN "COMMITTED" ELSE "RELEASED"
        ELSE books.of[j].state
  BY FrameKeys, ReconcileFacts
<1> QED
  BY <1>1, FrameKeys, Zenon DEF Bill

LEMMA ImageCall ==
  ASSUME ImageInv, BooksType, NEW v \in ImageWorker, NEW f \in Frame, Call(v, f)
  PROVE  ImageInv'
<1>1. /\ drawer[v].pc = "idle" /\ Callable(frame[f])
      /\ frame' = [frame EXCEPT ![f] = "checkpointed"] /\ paid' = paid
      /\ drawer' = [drawer EXCEPT ![v] = [pc |-> "calling", frame |-> f]]
      /\ MayReserve(<<f, 0>>, ImagePrice) /\ Reserve(<<f, 0>>, ImagePrice)
  BY DEF Call
<1>2. /\ ImageType /\ faults \in 0..MaxFaults /\ MaxFaults \in Nat
      /\ drawer \in [ImageWorker -> [pc: DrawerPc, frame: Frame \cup {0}]]
      /\ Counted(f) /\ (f \notin broken => Drawn(f)) /\ paid[f] \in Nat
  BY LedgerAssumption DEF ImageInv, ImageType, DrawerPc, MaxImages
<1>3. /\ drawer' \in [ImageWorker -> [pc: DrawerPc, frame: Frame \cup {0}]]
      /\ \A u \in ImageWorker : u # v => drawer'[u] = drawer[u]
      /\ drawer'[v].pc = "calling" /\ drawer'[v].frame = f
  BY <1>1, <1>2, DrawerSet DEF DrawerPc
<1>4. \/ (\A u \in ImageWorker : drawer[u].frame # f) /\ faults' = faults /\ broken' = broken
      \/ faults < MaxFaults /\ faults' = faults + 1 /\ broken' = broken \cup {f}
  BY DEF Call, Fault
<1>5. \A g \in Frame : frame'[g] = IF g = f THEN "checkpointed" ELSE frame[g]
  BY <1>1 DEF ImageInv, ImageType
<1>6. \A g \in Frame : Bill'[g] = IF g = f /\ Bill[f] = "none" THEN "RESERVED" ELSE Bill[g]
  BY <1>1, ImageAssumption, BillReserved
<1>7. DrawerMoves(v, f)
  BY <1>1, <1>2, <1>3, <1>4, <1>5, <1>6 DEF DrawerMoves
<1>8. Counted(f)'
  <2>1. Cardinality(Callers(f)') = Cardinality(Callers(f)) + 1 /\ Callers(f)' # {}
    BY <1>1, <1>2, <1>3, CallersMove
  <2>2. Cardinality(Callers(f)) \in Nat /\ (Callers(f) = {} <=> Cardinality(Callers(f)) = 0)
    BY CallersFinite
  <2>3. paid[f] + Cardinality(Callers(f)') <= faults' + 1
    <3>1. CASE (\A u \in ImageWorker : drawer[u].frame # f) /\ faults' = faults
      <4>1. Callers(f) = {}
        BY <3>1 DEF Callers
      <4> QED
        BY <1>1, <1>2, <2>1, <2>2, <3>1, <4>1 DEF Counted
    <3>2. CASE faults' = faults + 1
      BY <1>1, <1>2, <2>1, <2>2, <3>2 DEF Counted
    <3> QED
      BY <1>4, <3>1, <3>2
  <2> QED
    BY <1>1, <2>1, <2>3 DEF Counted
<1>9. f \notin broken' => Drawn(f)'
  <2>1. SUFFICES ASSUME f \notin broken'
                 PROVE  Drawn(f)'
    OBVIOUS
  <2>2. (\A u \in ImageWorker : drawer[u].frame # f) /\ broken' = broken /\ Drawn(f)
    BY <1>2, <1>4, <2>1
  <2>3. \A u \in ImageWorker : drawer'[u].frame = f => u = v
    BY <1>3, <2>2
  <2>4. frame'[f] = "checkpointed" /\ Callable(frame'[f]) /\ paid'[f] = paid[f] /\ paid[f] = 0
    BY <1>1, <1>5, <2>2 DEF Callable, Drawn
  <2>5. Bill'[f] # "RELEASED" /\ Bill'[f] # "none"
    BY <1>6, <2>2 DEF Drawn
  <2> QED
    BY <1>3, <2>3, <2>4, <2>5 DEF Drawn
<1>10. \A g \in Frame : Counted(g)' /\ (g \notin broken' => Drawn(g)')
  <2>1. \A g \in Frame : g # f => Counted(g)' /\ (g \notin broken' => Drawn(g)')
    BY <1>7, OtherFramesKeep
  <2> QED
    BY <1>8, <1>9, <2>1
<1>11. faults' \in 0..MaxFaults
  BY <1>2, <1>4
<1>12. ImageType'
  BY <1>1, <1>2, <1>3, <1>4 DEF ImageType, FrameStatus, DrawerPc
<1>13. \A u \in ImageWorker : drawer'[u].pc # "idle" => drawer'[u].frame \in Frame
  BY <1>3 DEF ImageInv
<1> QED
  BY <1>10, <1>11, <1>12, <1>13 DEF ImageInv

\* A drawer that has a frame acts on it: how the type and the count follow.
LEMMA ImageMoves ==
  ASSUME ImageInv, NEW v \in ImageWorker, NEW f \in Frame, DrawerMoves(v, f),
         drawer[v].pc # "idle",
         drawer' \in [ImageWorker -> [pc: DrawerPc, frame: Frame \cup {0}]],
         drawer'[v].pc # "calling",
         frame' \in [Frame -> FrameStatus], broken' \subseteq Frame,
         paid' = [paid EXCEPT ![f] = paid'[f]],
         faults' \in 0..MaxFaults,
         paid'[f] \in Nat,
         Callable(frame'[f]) => Callable(frame[f]),
         \/ faults' = faults + 1 /\ paid'[f] <= paid[f] + (IF drawer[v].pc = "calling" THEN 1 ELSE 0)
         \/ faults' = faults /\ ~Callable(frame'[f]) /\ paid'[f] <= paid[f] + (IF drawer[v].pc = "calling" THEN 1 ELSE 0)
         \/ faults' = faults /\ drawer[v].pc # "calling" /\ frame'[f] = frame[f] /\ paid'[f] = paid[f],
         f \notin broken' => Drawn(f)'
  PROVE  ImageInv'
<1>1. /\ ImageType /\ faults \in 0..MaxFaults /\ MaxFaults \in Nat
      /\ Counted(f) /\ paid[f] \in Nat
  BY LedgerAssumption DEF ImageInv, ImageType, MaxImages
<1>2. /\ \A u \in ImageWorker : u # v => drawer'[u] = drawer[u]
      /\ drawer[v].frame = f
  BY DEF DrawerMoves
<1>3. Cardinality(Callers(f)) \in Nat /\ Cardinality(Callers(f)') \in Nat
        /\ (Callers(f) = {} <=> Cardinality(Callers(f)) = 0)
  <2>1. Callers(f)' \subseteq ImageWorker
    BY DEF Callers
  <2>2. IsFiniteSet(Callers(f)')
    BY <2>1, ImageAssumption, FS_Subset
  <2> QED
    BY <2>2, CallersFinite, FS_CardinalityType
<1>4. Counted(f)'
  <2>1. CASE drawer[v].pc = "calling"
    <3>1. Cardinality(Callers(f)') = Cardinality(Callers(f)) - 1 /\ Callers(f) # {}
      BY <1>1, <1>2, <2>1, CallersMove
    <3>2. paid'[f] + Cardinality(Callers(f)') <= faults + 1
      BY <1>1, <1>3, <2>1, <3>1 DEF Counted
    <3> QED
      BY <1>1, <1>3, <2>1, <3>2 DEF Counted
  <2>2. CASE drawer[v].pc # "calling"
    <3>1. Callers(f)' = Callers(f)
      BY <1>1, <1>2, <2>2, CallersMove
    <3>2. paid'[f] <= paid[f]
      BY <1>1, <2>2
    <3>3. paid'[f] + Cardinality(Callers(f)') <= faults + 1
      BY <1>1, <1>3, <3>1, <3>2 DEF Counted
    <3>4. CASE faults' = faults + 1
      BY <1>1, <1>3, <3>3, <3>4 DEF Counted
    <3>5. CASE faults' = faults /\ ~Callable(frame'[f])
      BY <1>1, <1>3, <3>3, <3>5 DEF Counted
    <3>6. CASE faults' = faults /\ frame'[f] = frame[f] /\ paid'[f] = paid[f]
      BY <1>1, <3>1, <3>6 DEF Counted
    <3> QED
      BY <2>2, <3>4, <3>5, <3>6
  <2> QED
    BY <2>1, <2>2
<1>5. \A g \in Frame : Counted(g)' /\ (g \notin broken' => Drawn(g)')
  <2>1. \A g \in Frame : g # f => Counted(g)' /\ (g \notin broken' => Drawn(g)')
    BY OtherFramesKeep
  <2> QED
    BY <1>4, <2>1
<1>6. paid' \in [Frame -> 0..MaxImages]
  <2>1. paid'[f] \in 0..MaxImages
    BY <1>1, <1>3, <1>4 DEF Counted, MaxImages
  <2> QED
    BY <1>1, <2>1 DEF ImageType
<1>7. ImageType'
  BY <1>6 DEF ImageType, DrawerPc
<1>8. \A u \in ImageWorker : drawer'[u].pc # "idle" => drawer'[u].frame \in Frame
  BY <1>2 DEF ImageInv, DrawerMoves
<1> QED
  BY <1>5, <1>7, <1>8 DEF ImageInv

LEMMA AtFrame ==
  ASSUME ImageInv, NEW v \in ImageWorker, drawer[v].pc # "idle"
  PROVE  /\ drawer[v].frame \in Frame /\ drawer[v].pc \in DrawerPc /\ paid[drawer[v].frame] \in Nat
         /\ drawer \in [ImageWorker -> [pc: DrawerPc, frame: Frame \cup {0}]]
         /\ faults \in 0..MaxFaults /\ MaxFaults \in Nat
         /\ drawer[v].frame \notin broken => Drawn(drawer[v].frame)
BY LedgerAssumption DEF ImageInv, ImageType, DrawerPc, MaxImages

\* Leaving a frame, or going on with it.
LEMMA Dropped ==
  ASSUME ImageInv, NEW v \in ImageWorker, Drop(v)
  PROVE  /\ drawer' \in [ImageWorker -> [pc: DrawerPc, frame: Frame \cup {0}]]
         /\ \A u \in ImageWorker : u # v => drawer'[u] = drawer[u]
         /\ drawer'[v].pc = "idle"
<1>1. drawer \in [ImageWorker -> [pc: DrawerPc, frame: Frame \cup {0}]] /\ ImageType
  BY DEF ImageInv, ImageType, DrawerPc
<1> QED
  BY <1>1, DrawerSet DEF Drop, DrawerPc

LEMMA Drew ==
  ASSUME ImageInv, NEW v \in ImageWorker, NEW pc \in DrawerPc, Draw(v, pc)
  PROVE  /\ drawer' \in [ImageWorker -> [pc: DrawerPc, frame: Frame \cup {0}]]
         /\ \A u \in ImageWorker : u # v => drawer'[u] = drawer[u]
         /\ drawer'[v].pc = pc /\ drawer'[v].frame = drawer[v].frame
<1>1. drawer \in [ImageWorker -> [pc: DrawerPc, frame: Frame \cup {0}]] /\ ImageType
  BY DEF ImageInv, ImageType, DrawerPc
<1> HIDE DEF DrawerPc
<1> QED
  BY <1>1, DrawerSet DEF Draw

LEMMA SameBill ==
  ASSUME UNCHANGED books
  PROVE  Bill' = Bill
BY DEF Bill

LEMMA ImageReceive ==
  ASSUME ImageInv, NEW v \in ImageWorker, Receive(v)
  PROVE  ImageInv'
<1>0. PICK f \in Frame : f = drawer[v].frame
  BY AtFrame DEF Receive
<1>1. /\ drawer[v].pc = "calling" /\ faults' = faults /\ broken' = broken /\ Bill' = Bill
      /\ faults \in 0..MaxFaults /\ paid[f] \in Nat /\ MaxFaults \in Nat /\ (f \notin broken => Drawn(f))
  BY <1>0, AtFrame, SameBill DEF Receive, ledgerVars
<1>2. /\ drawer' \in [ImageWorker -> [pc: DrawerPc, frame: Frame \cup {0}]]
      /\ \A u \in ImageWorker : u # v => drawer'[u] = drawer[u]
      /\ drawer'[v].pc = "received" /\ drawer'[v].frame = f
  BY <1>0, Drew DEF Receive, DrawerPc
<1>3. /\ frame' \in [Frame -> FrameStatus] /\ frame'[f] = "received"
      /\ \A g \in Frame : g # f => frame'[g] = frame[g] /\ paid'[g] = paid[g]
      /\ paid'[f] = paid[f] + 1 /\ paid' = [paid EXCEPT ![f] = paid'[f]]
      /\ broken' \subseteq Frame
  BY <1>0, <1>1 DEF Receive, ImageInv, ImageType, FrameStatus
<1>4. DrawerMoves(v, f)
  BY <1>0, <1>1, <1>2, <1>3 DEF DrawerMoves
<1>5. ~Callable(frame'[f])
  BY <1>3 DEF Callable
<1>6. f \notin broken' => Drawn(f)'
  <2>1. SUFFICES ASSUME Drawn(f)
                 PROVE  Drawn(f)'
    BY <1>1
  <2>2. paid[f] = 0 /\ Bill[f] # "none"
    BY <1>0, <1>1, <2>1 DEF Drawn
  <2>3. \A u \in ImageWorker : (u # v /\ drawer[u].frame = f) => drawer[u].pc = "idle"
    BY <1>0, <1>1, <2>1 DEF Drawn
  <2>4. \A u \in ImageWorker : (u # v /\ drawer'[u].frame = f) => drawer'[u].pc = "idle"
    BY <1>2, <2>3
  <2> QED
    BY <1>1, <1>2, <1>3, <1>5, <2>1, <2>2, <2>4 DEF Drawn
<1> QED
  BY <1>1, <1>2, <1>3, <1>4, <1>5, <1>6, ImageMoves

LEMMA ImageBook ==
  ASSUME ImageInv, BooksType, NEW v \in ImageWorker, Book(v)
  PROVE  ImageInv'
<1>0. PICK f \in Frame : f = drawer[v].frame
  BY AtFrame DEF Book
<1>1. /\ drawer[v].pc = "received" /\ faults' = faults /\ broken' = broken /\ frame' = frame /\ paid' = paid
      /\ faults \in 0..MaxFaults /\ paid[f] \in Nat /\ MaxFaults \in Nat /\ (f \notin broken => Drawn(f))
  BY <1>0, AtFrame DEF Book
<1>2. /\ drawer' \in [ImageWorker -> [pc: DrawerPc, frame: Frame \cup {0}]]
      /\ \A u \in ImageWorker : u # v => drawer'[u] = drawer[u]
      /\ drawer'[v].pc = "booked" /\ drawer'[v].frame = f
  BY <1>0, Drew DEF Book, DrawerPc
<1>3. \A g \in Frame : Bill'[g] = IF g = f /\ Bill[f] = "RESERVED" THEN "COMMITTED" ELSE Bill[g]
  <2>1. ImagePrice \in Nat /\ ImagePrice > 0
    BY ImageAssumption
  <2> QED
    BY <1>0, <2>1, BillSettled DEF Book
<1>4. DrawerMoves(v, f)
  BY <1>0, <1>1, <1>2, <1>3 DEF DrawerMoves
<1>5. frame' \in [Frame -> FrameStatus] /\ broken' \subseteq Frame /\ paid' = [paid EXCEPT ![f] = paid'[f]]
  BY <1>1 DEF ImageInv, ImageType
<1>6. f \notin broken' => Drawn(f)'
  <2>1. SUFFICES ASSUME Drawn(f)
                 PROVE  Drawn(f)'
    BY <1>1
  <2>2. ~Callable(frame[f])
    BY <1>0, <1>1, <2>1 DEF Drawn
  <2>3. \A u \in ImageWorker : (u # v /\ drawer[u].frame = f) => drawer[u].pc = "idle"
    BY <1>0, <1>1, <2>1 DEF Drawn
  <2>4. \A u \in ImageWorker : (u # v /\ drawer'[u].frame = f) => drawer'[u].pc = "idle"
    BY <1>2, <2>3
  <2> QED
    BY <1>1, <1>2, <1>3, <2>1, <2>2, <2>4 DEF Drawn
<1> QED
  BY <1>1, <1>2, <1>4, <1>5, <1>6, ImageMoves

\* The attempt ends: its image is stored, or the frame is left with what is known of it.
LEMMA ImageStore ==
  ASSUME ImageInv, NEW v \in ImageWorker, Store(v)
  PROVE  ImageInv'
<1>0. PICK f \in Frame : f = drawer[v].frame
  BY AtFrame DEF Store
<1>1. /\ drawer[v].pc = "booked" /\ faults' = faults /\ broken' = broken /\ paid' = paid /\ Bill' = Bill
      /\ faults \in 0..MaxFaults /\ paid[f] \in Nat /\ MaxFaults \in Nat /\ (f \notin broken => Drawn(f))
  BY <1>0, AtFrame, SameBill DEF Store, ledgerVars
<1>2. /\ drawer' \in [ImageWorker -> [pc: DrawerPc, frame: Frame \cup {0}]]
      /\ \A u \in ImageWorker : u # v => drawer'[u] = drawer[u]
      /\ drawer'[v].pc = "idle"
  BY Dropped DEF Store
<1>3. /\ frame' \in [Frame -> FrameStatus] /\ frame'[f] = "completed"
      /\ \A g \in Frame : g # f => frame'[g] = frame[g]
      /\ paid' = [paid EXCEPT ![f] = paid'[f]] /\ broken' \subseteq Frame
  BY <1>0, <1>1 DEF Store, ImageInv, ImageType, FrameStatus
<1>4. DrawerMoves(v, f)
  BY <1>0, <1>1, <1>2, <1>3 DEF DrawerMoves
<1>5. ~Callable(frame'[f])
  BY <1>3 DEF Callable
<1>6. f \notin broken' => Drawn(f)'
  <2>1. SUFFICES ASSUME Drawn(f)
                 PROVE  Drawn(f)'
    BY <1>1
  <2>3. \A u \in ImageWorker : (u # v /\ drawer[u].frame = f) => drawer[u].pc = "idle"
    BY <1>0, <1>1, <2>1 DEF Drawn
  <2>4. \A u \in ImageWorker : drawer'[u].frame = f => drawer'[u].pc = "idle"
    BY <1>2, <2>3
  <2> QED
    BY <1>1, <1>3, <1>5, <2>1, <2>4 DEF Drawn
<1> QED
  BY <1>1, <1>2, <1>3, <1>4, <1>5, <1>6, ImageMoves

LEMMA ImageUnknown ==
  ASSUME ImageInv, NEW v \in ImageWorker, OutcomeUnknown(v)
  PROVE  ImageInv'
<1>0. PICK f \in Frame : f = drawer[v].frame
  BY AtFrame DEF OutcomeUnknown
<1>1. /\ drawer[v].pc = "calling" /\ faults' = faults + 1 /\ broken' = broken /\ Bill' = Bill
      /\ faults' \in 0..MaxFaults /\ faults \in Nat /\ paid[f] \in Nat /\ (f \notin broken => Drawn(f))
  BY <1>0, AtFrame, SameBill DEF OutcomeUnknown, ledgerVars, Fault
<1>2. /\ drawer' \in [ImageWorker -> [pc: DrawerPc, frame: Frame \cup {0}]]
      /\ \A u \in ImageWorker : u # v => drawer'[u] = drawer[u]
      /\ drawer'[v].pc = "idle"
  BY Dropped DEF OutcomeUnknown
<1>3. PICK made \in {0, 1} : paid' = [paid EXCEPT ![f] = @ + made]
  BY <1>0 DEF OutcomeUnknown
<1>4. /\ frame' \in [Frame -> FrameStatus] /\ frame'[f] = "unknown"
      /\ \A g \in Frame : g # f => frame'[g] = frame[g] /\ paid'[g] = paid[g]
      /\ paid'[f] = paid[f] + made /\ paid' = [paid EXCEPT ![f] = paid'[f]] /\ broken' \subseteq Frame
  BY <1>0, <1>1, <1>3 DEF OutcomeUnknown, ImageInv, ImageType, FrameStatus
<1>5. DrawerMoves(v, f)
  BY <1>0, <1>1, <1>2, <1>4 DEF DrawerMoves
<1>6. ~Callable(frame'[f])
  BY <1>4 DEF Callable
<1>7. f \notin broken' => Drawn(f)'
  <2>1. SUFFICES ASSUME Drawn(f)
                 PROVE  Drawn(f)'
    BY <1>1
  <2>2. paid[f] = 0 /\ Bill[f] # "none" /\ Bill[f] # "RELEASED"
    BY <1>0, <1>1, <2>1 DEF Drawn
  <2>3. \A u \in ImageWorker : (u # v /\ drawer[u].frame = f) => drawer[u].pc = "idle"
    BY <1>0, <1>1, <2>1 DEF Drawn
  <2>4. \A u \in ImageWorker : drawer'[u].frame = f => drawer'[u].pc = "idle"
    BY <1>2, <2>3
  <2>5. paid'[f] \in {0, 1}
    BY <1>3, <1>4, <2>2
  <2> QED
    BY <1>1, <1>6, <2>2, <2>4, <2>5 DEF Drawn
<1>8. paid'[f] <= paid[f] + 1 /\ paid'[f] \in Nat
  BY <1>1, <1>3, <1>4
<1> QED
  BY <1>1, <1>2, <1>4, <1>5, <1>6, <1>7, <1>8, ImageMoves

\* A call that fails, or whose worker dies, breaks the frame.
LEMMA ImageFails ==
  ASSUME ImageInv, BooksType, NEW v \in ImageWorker, CallFails(v)
  PROVE  ImageInv'
<1>0. PICK f \in Frame : f = drawer[v].frame
  BY AtFrame DEF CallFails
<1>1. /\ drawer[v].pc = "calling" /\ faults' = faults + 1 /\ broken' = broken \cup {f} /\ frame' = frame
      /\ faults' \in 0..MaxFaults /\ faults \in Nat /\ paid[f] \in Nat
  BY <1>0, AtFrame DEF CallFails, Fault
<1>2. /\ drawer' \in [ImageWorker -> [pc: DrawerPc, frame: Frame \cup {0}]]
      /\ \A u \in ImageWorker : u # v => drawer'[u] = drawer[u]
      /\ drawer'[v].pc = "idle"
  BY Dropped DEF CallFails
<1>3. PICK made \in {0, 1} : paid' = [paid EXCEPT ![f] = @ + made]
  BY <1>0 DEF CallFails
<1>4. /\ frame' \in [Frame -> FrameStatus]
      /\ \A g \in Frame : g # f => paid'[g] = paid[g]
      /\ paid'[f] = paid[f] + made /\ paid' = [paid EXCEPT ![f] = paid'[f]] /\ broken' \subseteq Frame
  BY <1>0, <1>1, <1>3 DEF ImageInv, ImageType
<1>5. \A g \in Frame : g # f => Bill'[g] = Bill[g]
  BY <1>0, BillSettled DEF CallFails
<1>6. DrawerMoves(v, f)
  BY <1>0, <1>1, <1>2, <1>4, <1>5 DEF DrawerMoves
<1>7. paid'[f] <= paid[f] + 1 /\ paid'[f] \in Nat
  BY <1>1, <1>3, <1>4
<1> QED
  BY <1>1, <1>2, <1>4, <1>6, <1>7, ImageMoves

LEMMA ImageAbandoned ==
  ASSUME ImageInv, NEW v \in ImageWorker, AbandonImage(v)
  PROVE  ImageInv'
<1>0. PICK f \in Frame : f = drawer[v].frame
  BY AtFrame DEF AbandonImage
<1>1. /\ drawer[v].pc # "idle" /\ faults' = faults + 1 /\ frame' = frame /\ Bill' = Bill
      /\ broken' = IF drawer[v].pc = "calling" THEN broken \cup {f} ELSE broken
      /\ faults' \in 0..MaxFaults /\ faults \in Nat /\ paid[f] \in Nat /\ (f \notin broken => Drawn(f))
  BY <1>0, AtFrame, SameBill DEF AbandonImage, Fault, ledgerVars
<1>2. /\ drawer' \in [ImageWorker -> [pc: DrawerPc, frame: Frame \cup {0}]]
      /\ \A u \in ImageWorker : u # v => drawer'[u] = drawer[u]
      /\ drawer'[v].pc = "idle"
  BY Dropped DEF AbandonImage
<1>3. PICK made \in (IF drawer[v].pc = "calling" THEN {0, 1} ELSE {0}) : paid' = [paid EXCEPT ![f] = @ + made]
  BY <1>0 DEF AbandonImage
<1>4. /\ frame' \in [Frame -> FrameStatus]
      /\ \A g \in Frame : g # f => paid'[g] = paid[g]
      /\ paid'[f] = paid[f] + made /\ paid' = [paid EXCEPT ![f] = paid'[f]] /\ broken' \subseteq Frame
  BY <1>0, <1>1, <1>3 DEF ImageInv, ImageType
<1>5. DrawerMoves(v, f)
  BY <1>0, <1>1, <1>2, <1>4 DEF DrawerMoves
<1>6. f \notin broken' => Drawn(f)'
  <2>1. SUFFICES ASSUME Drawn(f), drawer[v].pc # "calling"
                 PROVE  Drawn(f)'
    BY <1>1
  <2>2. paid'[f] = paid[f]
    BY <1>1, <1>3, <1>4, <2>1
  <2>3. \A u \in ImageWorker : (u # v /\ drawer[u].frame = f) => drawer[u].pc = "idle"
    BY <1>0, <1>1, <2>1 DEF Drawn
  <2>4. \A u \in ImageWorker : drawer'[u].frame = f => drawer'[u].pc = "idle"
    BY <1>2, <2>3
  <2> QED
    BY <1>1, <2>1, <2>2, <2>4 DEF Drawn
<1>7. paid'[f] <= paid[f] + (IF drawer[v].pc = "calling" THEN 1 ELSE 0) /\ paid'[f] \in Nat
  BY <1>1, <1>3, <1>4
<1> QED
  BY <1>1, <1>2, <1>4, <1>5, <1>6, <1>7, ImageMoves

LEMMA ImageUntouched ==
  ASSUME ImageInv, UNCHANGED imageVars, Bill' = Bill, UNCHANGED faults \/ Fault
  PROVE  ImageInv'
<1>1. faults \in 0..MaxFaults /\ MaxFaults \in Nat /\ faults' \in 0..MaxFaults /\ faults' >= faults
  BY LedgerAssumption DEF ImageInv, Fault
<1>2. ASSUME NEW f \in Frame
      PROVE  Counted(f)' /\ (f \notin broken' => Drawn(f)')
  <2>1. Counted(f) /\ (f \notin broken => Drawn(f)) /\ paid[f] \in Nat
    BY <1>1 DEF ImageInv, ImageType, MaxImages
  <2>2. Callers(f)' = Callers(f) /\ Cardinality(Callers(f)) \in Nat
    BY CallersFinite DEF Callers, imageVars
  <2>3. Counted(f)'
    BY <1>1, <2>1, <2>2 DEF Counted, imageVars
  <2> QED
    BY <2>1, <2>3 DEF Drawn, imageVars
<1> QED
  BY <1>1, <1>2 DEF ImageInv, ImageType, imageVars

LEMMA ImageStep ==
  ASSUME ImageInv, BooksType, ImageNext
  PROVE  ImageInv' /\ Trades(FrameKey) /\ narrator' = narrator
<1> DEFINE Goal == ImageInv' /\ Trades(FrameKey) /\ narrator' = narrator
<1> USE DEF ledgerVars
<1>1. ASSUME NEW v \in ImageWorker, NEW f \in Frame, Call(v, f)
      PROVE  Goal
  <2>1. ImageInv'
    BY <1>1, ImageCall
  <2>2. <<f, 0>> \in FrameKey /\ ImagePrice \in Prices
    BY FrameKeys DEF Prices
  <2>3. Trades(FrameKey)
    BY <1>1, <2>2, ReserveTrades, ThreeKeys DEF Call
  <2> QED
    BY <1>1, <2>1, <2>3 DEF Call
<1>2. ASSUME NEW v \in ImageWorker, Receive(v)
      PROVE  Goal
  <2>1. ImageInv'
    BY <1>2, ImageReceive
  <2> QED
    BY <1>2, <2>1 DEF Receive, Trades
<1>3. ASSUME NEW v \in ImageWorker, Book(v)
      PROVE  Goal
  <2>1. ImageInv'
    BY <1>3, ImageBook
  <2>2. <<drawer[v].frame, 0>> \in FrameKey /\ ImagePrice \in Prices
    BY <1>3, AtFrame, FrameKeys DEF Book, Prices
  <2>3. Trades(FrameKey)
    BY <1>3, <2>2, ReconcileTrades, ThreeKeys DEF Book
  <2> QED
    BY <1>3, <2>1, <2>3 DEF Book
<1>4. ASSUME NEW v \in ImageWorker, Store(v)
      PROVE  Goal
  <2>1. ImageInv'
    BY <1>4, ImageStore
  <2> QED
    BY <1>4, <2>1 DEF Store, Trades
<1>5. ASSUME NEW v \in ImageWorker, OutcomeUnknown(v)
      PROVE  Goal
  <2>1. ImageInv'
    BY <1>5, ImageUnknown
  <2> QED
    BY <1>5, <2>1 DEF OutcomeUnknown, Trades
<1>6. ASSUME NEW v \in ImageWorker, CallFails(v)
      PROVE  Goal
  <2>1. ImageInv'
    BY <1>6, ImageFails
  <2>2. <<drawer[v].frame, 0>> \in FrameKey
    BY <1>6, AtFrame, FrameKeys DEF CallFails
  <2>3. Trades(FrameKey)
    BY <1>6, <2>2, ReconcileTrades, ThreeKeys DEF CallFails
  <2> QED
    BY <1>6, <2>1, <2>3 DEF CallFails
<1>7. ASSUME NEW v \in ImageWorker, AbandonImage(v)
      PROVE  Goal
  <2>1. ImageInv'
    BY <1>7, ImageAbandoned
  <2> QED
    BY <1>7, <2>1 DEF AbandonImage, Trades
<1> HIDE DEF Goal
<1>8. Goal
  BY <1>1, <1>2, <1>3, <1>4, <1>5, <1>6, <1>7 DEF ImageNext
<1> QED
  BY <1>8 DEF Goal

-----------------------------------------------------------------------------
(* Everything together. *)

Mending == [s \in Shot |-> books.of[<<s, 0>>].state]

\* Narration holds the lock over an amount that fits, and a repair that read the row
\* has not reserved yet.
OtherInv ==
  /\ narrator \in {"idle", "calling"} /\ (narrator = "calling" => Covers(NarrationPrice))
  /\ segments \in 0..MaxSegments /\ narrated \in Nat /\ mender \in Mender
  /\ owner \in Caps \cup {-1} /\ capChanges \in 0..MaxCapChanges
  /\ mender.pc # "idle" => mender.shot \in Shot
  /\ mender.pc = "read" => Mending[mender.shot] = "none"

Inv == BooksType /\ ShotInv /\ ImageInv /\ OtherInv

LEMMA Apart ==
  ASSUME NEW K \in SUBSET Key, \A j \in Key : j \notin K => books'.of[j] = books.of[j]
  PROVE  /\ K \cap ShotKey = {} => Money' = Money
         /\ K \cap FrameKey = {} => Bill' = Bill
         /\ K \cap RepairKey = {} => Mending' = Mending
<1>1. /\ \A s \in Shot, k \in 1..MaxTasks : <<s, k>> \in ShotKey
      /\ \A f \in Frame : <<f, 0>> \in FrameKey
      /\ \A s \in Shot : <<s, 0>> \in RepairKey
  BY DEF ShotKey, FrameKey, RepairKey
<1>2. K \cap ShotKey = {} => Money' = Money
  <2>1. CASE K \cap ShotKey = {}
    <3>1. \A s \in Shot, k \in 1..MaxTasks : books'.of[<<s, k>>] = books.of[<<s, k>>]
      <4>1. \A j \in ShotKey : j \in Key /\ j \notin K
        BY <2>1, ThreeKeys
      <4>2. \A j \in ShotKey : books'.of[j] = books.of[j]
        BY <4>1
      <4> QED
        BY <1>1, <4>2, Zenon
    <3> QED
      BY <3>1 DEF Money
  <2> QED
    BY <2>1
<1>3. K \cap FrameKey = {} => Bill' = Bill
  <2>1. CASE K \cap FrameKey = {}
    <3>1. \A f \in Frame : books'.of[<<f, 0>>] = books.of[<<f, 0>>]
      <4>1. \A j \in FrameKey : j \in Key /\ j \notin K
        BY <2>1, ThreeKeys
      <4>2. \A j \in FrameKey : books'.of[j] = books.of[j]
        BY <4>1
      <4> QED
        BY <1>1, <4>2, Zenon
    <3> QED
      BY <3>1 DEF Bill
  <2> QED
    BY <2>1
<1>4. K \cap RepairKey = {} => Mending' = Mending
  <2>1. CASE K \cap RepairKey = {}
    <3>1. \A s \in Shot : books'.of[<<s, 0>>] = books.of[<<s, 0>>]
      <4>1. \A j \in RepairKey : j \in Key /\ j \notin K
        BY <2>1, ThreeKeys
      <4>2. \A j \in RepairKey : books'.of[j] = books.of[j]
        BY <4>1
      <4> QED
        BY <1>1, <4>2, Zenon
    <3> QED
      BY <3>1 DEF Mending
  <2> QED
    BY <2>1
<1> QED
  BY <1>2, <1>3, <1>4

LEMMA InitInv ==
  ASSUME Init
  PROVE  Inv /\ Sums
<1> USE LedgerAssumption, AnimationAssumption, ImageAssumption, PaidAssumption
<1>1. /\ BooksType
      /\ \A k \in Key : books.of[k] = Unreserved
      /\ books.reserved = 0 /\ books.committed = 0 /\ narrated = 0
  BY DEF Init, NewBudget, BooksType, Reservation, Unreserved
<1>2. ShotInv
  <2>1. /\ item \in [Shot -> [status: ItemStatus, price: {0, Gen45, Turbo}]]
        /\ \A s \in Shot : item[s].status = "queued" /\ tasks[s] = <<>> /\ video[s] = 0
        /\ \A s \in Shot, k \in 1..MaxTasks : remote[s][k] = "none"
        /\ \A w \in AnimationWorker : worker[w].pc = "idle"
    BY DEF Init, AnimationInit, ItemStatus, Idle
  <2>2. tasks \in [Shot -> Seq(RunwayTask)] /\ \A s \in Shot : Len(tasks[s]) = 0
    BY EmptySeq DEF Init, AnimationInit
  <2>3. AnimationType
    <3>1. video \in [Shot -> 0..MaxTasks] /\ interrupted \subseteq Shot
      BY DEF Init, AnimationInit
    <3>2. remote \in [Shot -> [1..MaxTasks -> RemoteStatus]]
      BY DEF Init, AnimationInit, RemoteStatus
    <3>3. worker \in [AnimationWorker -> Worker]
      BY DEF Init, AnimationInit, Idle, Worker
    <3> QED
      BY <2>1, <2>2, <3>1, <3>2, <3>3 DEF AnimationType, RunwayTask
  <2>4. \A s \in Shot, k \in 1..MaxTasks : Status[s][k] = "unsubmitted" /\ Seen[s][k] = FALSE /\ Money[s][k] = "none"
    <3>1. \A s \in Shot, k \in 1..MaxTasks : ~(k <= Len(tasks[s])) /\ <<s, k>> \in Key
      BY <2>2 DEF Key
    <3>2. \A s \in Shot, k \in 1..MaxTasks : Status[s][k] = "unsubmitted" /\ Seen[s][k] = FALSE
      BY <3>1 DEF Status, Seen
    <3>3. \A s \in Shot, k \in 1..MaxTasks : Money[s][k] = "none"
      <4>1. \A k \in Key : books.of[k].state = "none"
        BY <1>1 DEF Unreserved
      <4>2. \A s \in Shot, k \in 1..MaxTasks : books.of[<<s, k>>].state = "none"
        BY <3>1, <4>1, Zenon
      <4> QED
        BY <4>2, Zenon DEF Money
    <3> QED
      BY <3>2, <3>3
  <2>5. \A w \in AnimationWorker : Working(w) /\ Ready(w)
    BY <2>1 DEF Working, Ready
  <2>6. OneCalls
    BY <2>1 DEF OneCalls
  <2>7. Turns
    <3>1. \A s \in Shot, k \in 1..MaxTasks : Number[s][k] = 0
      BY <2>2 DEF Number
    <3>2. \A s \in Shot, k \in 1..MaxTasks : Numbered(s, k)
      BY <2>4, <3>1 DEF Numbered
    <3> QED
      BY <2>4, <3>2 DEF Turns, InTurn
  <2>8. \A s \in Shot, k \in 1..MaxTasks : Submission(s, k) /\ Accounted(s, k)
    BY <2>1, <2>4 DEF Submission, Accounted, Created
  <2> QED
    BY <2>3, <2>5, <2>6, <2>7, <2>8 DEF ShotInv
<1>3. ImageInv
  <2>1. /\ ImageType /\ faults = 0 /\ broken = {}
        /\ \A v \in ImageWorker : drawer[v].pc = "idle"
        /\ \A f \in Frame : frame[f] = "compiled" /\ paid[f] = 0
    BY DEF Init, ImageInit, ImageType, FrameStatus, MaxImages
  <2>2. \A f \in Frame : Bill[f] = "none"
    <3>1. \A k \in Key : books.of[k].state = "none"
      BY <1>1 DEF Unreserved
    <3>2. \A f \in Frame : books.of[<<f, 0>>].state = "none"
      BY <3>1, FrameKeys, Zenon
    <3> QED
      BY <3>2, Zenon DEF Bill
  <2>3. \A f \in Frame : Callers(f) = {} /\ Callable(frame[f])
    BY <2>1 DEF Callers, Callable
  <2>4. \A f \in Frame : Counted(f)
    <3>1. \A f \in Frame : Cardinality(Callers(f)) = 0
      BY <2>3, FS_EmptySet
    <3> QED
      BY <2>1, <2>3, <3>1 DEF Counted
  <2>5. \A f \in Frame : Drawn(f)
    BY <2>1, <2>2 DEF Drawn
  <2> QED
    BY <2>1, <2>4, <2>5 DEF ImageInv
<1>4. OtherInv
  <2>1. mender \in Mender /\ mender.pc = "idle"
    BY DEF Init, Rested, Mender
  <2> QED
    BY <2>1 DEF Init, OtherInv
<1>5. Sums
  <2>1. HeldUnits = {}
    BY <1>1 DEF HeldUnits, Ledger!InState, Unreserved
  <2>2. BookedUnits = {}
    BY <1>1 DEF BookedUnits, Ledger!Units, Unreserved
  <2>3. \A k \in Key : books.of[k].booked = 0
    BY <1>1 DEF Unreserved
  <2> QED
    BY <1>1, <2>1, <2>2, <2>3, FS_EmptySet DEF Sums
<1> QED
  BY <1>1, <1>2, <1>3, <1>4, <1>5 DEF Inv

\* A part that trades under its own keys while the others stand still.
LEMMA OtherUntouched ==
  ASSUME BooksType, OtherInv, UNCHANGED otherVars, NEW K \in SUBSET Key, Trades(K), K \cap RepairKey = {},
         narrator' = narrator
  PROVE  OtherInv'
<1>1. (\A j \in Key : j \notin K => books'.of[j] = books.of[j]) /\ (~Unlocked => books' = books)
  BY TradeFacts
<1>2. Mending' = Mending
  BY <1>1, Apart
<1>3. narrator = "calling" => books' = books
  BY <1>1 DEF Unlocked
<1>4. narrator' = "calling" => Covers(NarrationPrice)'
  BY <1>3 DEF OtherInv, Covers, Remaining, Spent
<1> QED
  BY <1>2, <1>4 DEF OtherInv, otherVars

\* The shots and the frames take no part: their money and all else of them stays.
LEMMA MediaUntouched ==
  ASSUME ShotInv, ImageInv, UNCHANGED <<faults, animationVars, imageVars>>, Money' = Money, Bill' = Bill
  PROVE  ShotInv' /\ ImageInv'
BY ShotsUntouched, ImageUntouched

\* A reservation of the repair, whatever it believes of the row.
LEMMA RepairFacts ==
  ASSUME BooksType, OtherInv, RepairReserves
  PROVE  /\ BooksType' /\ mender.shot \in Shot /\ RepairPrice \in Nat
         /\ \A j \in Key : j \notin RepairKey => books'.of[j] = books.of[j]
         /\ books.of[<<mender.shot, 0>>].state = "none"
         /\ Overtaking = FALSE => Holds(<<mender.shot, 0>>, RepairPrice) /\ Covers(RepairPrice)
<1>1. PICK s \in Shot : s = mender.shot
  BY DEF OtherInv, RepairReserves, AtReservation
<1>2. <<s, 0>> \in Key /\ <<s, 0>> \in RepairKey
  BY LedgerAssumption DEF Key, RepairKey
<1> DEFINE g == [books.of EXCEPT ![<<s, 0>>] = [state |-> "RESERVED", amount |-> RepairPrice, booked |-> 0]]
           x == RowHeld.reserved + RepairPrice
<1>3. g \in Accounts
  BY PaidAssumption DEF BooksType, Reservation, Accounts
<1>4. x \in Nat
  <2>1. mender \in Mender
    BY DEF OtherInv
  <2>2. mender.row.reserved \in Nat
    BY <2>1 DEF Mender
  <2>3. Row.reserved \in Nat
    BY DEF Row, BooksType
  <2> QED
    BY <2>2, <2>3, PaidAssumption DEF RowHeld
<1>5. books' = [books EXCEPT !.reserved = x, !.of = g]
  BY <1>1 DEF RepairReserves, BooksType
<1>6. books'.of = g
  BY <1>5 DEF BooksType
<1>7. BooksType'
  <2> HIDE DEF g, x
  <2>1. books' \in BookSet
    BY <1>3, <1>4, <1>5, BooksSet, Zenon
  <2> QED
    BY <2>1 DEF BooksType, BookSet, Accounts
<1>8. \A j \in Key : j \notin RepairKey => books'.of[j] = books.of[j]
  BY <1>2, <1>6 DEF BooksType
<1>9. books.of[<<s, 0>>].state = "none"
  BY <1>1 DEF OtherInv, RepairReserves, AtReservation, Mending
<1>10. Overtaking = FALSE => Holds(<<s, 0>>, RepairPrice) /\ Covers(RepairPrice)
  <2>1. SUFFICES ASSUME Overtaking = FALSE
                 PROVE  Holds(<<s, 0>>, RepairPrice) /\ Covers(RepairPrice)
    OBVIOUS
  <2>2. RowHeld.reserved = books.reserved /\ RowHeld.committed = books.committed /\ RowHeld.cap = books.cap
    BY <2>1 DEF RowHeld, Row
  <2>3. Holds(<<s, 0>>, RepairPrice)
    BY <1>1, <1>9, <2>2 DEF RepairReserves, Holds
  <2>4. books.cap \in Nat /\ books.committed \in Nat /\ books.reserved \in Nat
    BY LedgerAssumption DEF BooksType
  <2>5. Covers(RepairPrice)
    BY <2>2, <2>4, PaidAssumption DEF RepairReserves, RepairFits, Covers, Remaining, Spent
  <2> QED
    BY <2>3, <2>5
<1> QED
  BY <1>1, <1>7, <1>8, <1>9, <1>10, PaidAssumption

LEMMA RowTyped ==
  ASSUME BooksType
  PROVE  Row \in [cap: Nat, reserved: Nat, committed: Nat] /\ Rested.row \in [cap: Nat, reserved: Nat, committed: Nat]
BY LedgerAssumption DEF BooksType, Row, Rested

LEMMA NextInv ==
  ASSUME Inv, [Next]_vars
  PROVE  Inv'
<1> USE DEF Inv
<1> USE LedgerAssumption, PaidAssumption
<1>1. CASE AnimationNext /\ UNCHANGED <<imageVars, otherVars>>
  <2>1. ShotInv' /\ Trades(ShotKey) /\ narrator' = narrator /\ (UNCHANGED faults \/ Fault)
    BY <1>1, ShotStep
  <2>2. BooksType' /\ Bill' = Bill
    BY <2>1, ThreeKeys, TradeFacts, Apart
  <2>3. ImageInv'
    BY <1>1, <2>1, <2>2, ImageUntouched
  <2>4. OtherInv'
    BY <1>1, <2>1, ThreeKeys, OtherUntouched
  <2> QED
    BY <2>1, <2>2, <2>3, <2>4
<1>2. CASE ImageNext /\ UNCHANGED <<animationVars, otherVars>>
  <2>1. ImageInv' /\ Trades(FrameKey) /\ narrator' = narrator
    BY <1>2, ImageStep
  <2>2. BooksType' /\ Money' = Money
    BY <2>1, ThreeKeys, TradeFacts, Apart
  <2>3. ShotInv'
    BY <1>2, <2>2, ShotsUntouched
  <2>4. OtherInv'
    BY <1>2, <2>1, ThreeKeys, OtherUntouched
  <2> QED
    BY <2>1, <2>2, <2>3, <2>4
<1>3. CASE Narrate
  <2>1. BooksType' /\ Money' = Money /\ Bill' = Bill /\ Mending' = Mending
    BY <1>3 DEF Narrate, BooksType, Money, Bill, Mending
  <2>2. ShotInv' /\ ImageInv'
    BY <1>3, <2>1, MediaUntouched DEF Narrate
  <2>3. segments' \in 0..MaxSegments
    BY <1>3 DEF Narrate, OtherInv
  <2>4. OtherInv'
    BY <1>3, <2>1, <2>3 DEF Narrate, OtherInv, Covers, Remaining, Spent
  <2> QED
    BY <2>1, <2>2, <2>4
<1>4. CASE Narrated
  <2>1. PICK beyond \in 0..Overrun : /\ books' = [books EXCEPT !.committed = @ + NarrationPrice + beyond]
                                      /\ narrated' = narrated + NarrationPrice + beyond
    BY <1>4 DEF Narrated
  <2>2. books.committed + NarrationPrice + beyond \in Nat /\ narrated' \in Nat
    BY <2>1 DEF BooksType, OtherInv
  <2>3. BooksType' /\ books'.of = books.of
    BY <2>1, <2>2 DEF BooksType
  <2>4. Money' = Money /\ Bill' = Bill /\ Mending' = Mending
    BY <2>3 DEF Money, Bill, Mending
  <2>5. ShotInv' /\ ImageInv'
    BY <1>4, <2>4, MediaUntouched DEF Narrated
  <2>6. OtherInv'
    BY <1>4, <2>2, <2>4 DEF Narrated, OtherInv
  <2> QED
    BY <2>3, <2>5, <2>6
<1>5. CASE NarrationFails
  <2>1. BooksType' /\ Money' = Money /\ Bill' = Bill /\ Mending' = Mending
    BY <1>5 DEF NarrationFails, BooksType, Money, Bill, Mending
  <2>2. ShotInv' /\ ImageInv'
    BY <1>5, <2>1, MediaUntouched DEF NarrationFails
  <2>3. OtherInv'
    BY <1>5, <2>1 DEF NarrationFails, OtherInv, otherVars
  <2> QED
    BY <2>1, <2>2, <2>3
<1>6. ASSUME NEW s \in Shot, RepairReads(s)
      PROVE  Inv'
  <2>1. BooksType' /\ Money' = Money /\ Bill' = Bill /\ Mending' = Mending
    BY <1>6 DEF RepairReads, ledgerVars, BooksType, Money, Bill, Mending
  <2>2. ShotInv' /\ ImageInv'
    BY <1>6, <2>1, MediaUntouched DEF RepairReads
  <2>3. mender' \in Mender /\ mender'.shot = s /\ mender'.pc = "read"
    BY <1>6, RowTyped DEF RepairReads, Mender
  <2>4. Mending[s] = "none"
    BY <1>6 DEF RepairReads, Known, Mending
  <2>5. OtherInv'
    BY <1>6, <2>1, <2>3, <2>4 DEF RepairReads, OtherInv, ledgerVars, Covers, Remaining, Spent
  <2> QED
    BY <2>1, <2>2, <2>5
<1>7. CASE RepairReserves
  <2>1. BooksType' /\ mender.shot \in Shot /\ \A j \in Key : j \notin RepairKey => books'.of[j] = books.of[j]
    BY <1>7, RepairFacts
  <2>2. Money' = Money /\ Bill' = Bill
    BY <2>1, Apart, ThreeKeys
  <2>3. ShotInv' /\ ImageInv'
    BY <1>7, <2>2, MediaUntouched DEF RepairReserves
  <2>4. mender' \in Mender /\ mender'.shot \in Shot /\ mender'.pc = "paying"
    BY <1>7, <2>1 DEF RepairReserves, Rested, Mender
  <2>5. narrator' = "idle"
    BY <1>7 DEF RepairReserves, AtReservation, Unlocked
  <2>6. OtherInv'
    BY <1>7, <2>4, <2>5 DEF RepairReserves, OtherInv
  <2> QED
    BY <2>1, <2>3, <2>6
<1>8. CASE RepairDenied
  <2>1. BooksType' /\ Money' = Money /\ Bill' = Bill
    BY <1>8 DEF RepairDenied, ledgerVars, BooksType, Money, Bill
  <2>2. ShotInv' /\ ImageInv'
    BY <1>8, <2>1, MediaUntouched DEF RepairDenied
  <2>3. mender' \in Mender /\ mender'.pc = "idle"
    BY <1>8, RowTyped DEF RepairDenied, Rested, Mender
  <2>4. OtherInv'
    BY <1>8, <2>3 DEF RepairDenied, OtherInv, ledgerVars, Covers, Remaining, Spent
  <2> QED
    BY <2>1, <2>2, <2>4
<1>9. CASE RepairSettles
  <2>1. PICK actual \in {0, RepairPrice} : Reconcile(<<mender.shot, 0>>, actual)
    BY <1>9 DEF RepairSettles
  <2>2. <<mender.shot, 0>> \in RepairKey /\ actual \in Prices \cup {0}
    BY <1>9, <2>1 DEF RepairSettles, OtherInv, RepairKey, Prices
  <2>3. Trades(RepairKey)
    BY <1>9, <2>1, <2>2, ReconcileTrades, ThreeKeys DEF RepairSettles
  <2>4. BooksType' /\ Money' = Money /\ Bill' = Bill /\ (~Unlocked => books' = books)
    BY <2>3, ThreeKeys, TradeFacts, Apart
  <2>5. ShotInv' /\ ImageInv'
    BY <1>9, <2>4, MediaUntouched DEF RepairSettles
  <2>6. mender' \in Mender /\ mender'.pc = "idle"
    BY <1>9, RowTyped DEF RepairSettles, Rested, Mender
  <2>7. OtherInv'
    BY <1>9, <2>4, <2>6 DEF RepairSettles, OtherInv, Covers, Remaining, Spent, Unlocked
  <2> QED
    BY <2>4, <2>5, <2>7
<1>10. CASE AskCap
  <2>1. BooksType' /\ Money' = Money /\ Bill' = Bill /\ Mending' = Mending
    BY <1>10 DEF AskCap, ledgerVars, BooksType, Money, Bill, Mending
  <2>2. ShotInv' /\ ImageInv'
    BY <1>10, <2>1, MediaUntouched DEF AskCap
  <2>3. owner' \in Caps /\ capChanges' \in 0..MaxCapChanges
    BY <1>10 DEF AskCap, OtherInv
  <2>4. OtherInv'
    BY <1>10, <2>1, <2>3 DEF AskCap, OtherInv, ledgerVars, Covers, Remaining, Spent
  <2> QED
    BY <2>1, <2>2, <2>4
<1>11. CASE SetCap
  <2>1. owner \in Caps /\ books' = [books EXCEPT !.cap = owner] /\ narrator' = "idle"
    BY <1>11 DEF SetCap, OtherInv, Unlocked
  <2>2. BooksType' /\ books'.of = books.of
    BY <2>1 DEF BooksType
  <2>3. Money' = Money /\ Bill' = Bill /\ Mending' = Mending
    BY <2>2 DEF Money, Bill, Mending
  <2>4. ShotInv' /\ ImageInv'
    BY <1>11, <2>3, MediaUntouched DEF SetCap
  <2>5. OtherInv'
    BY <1>11, <2>1, <2>3 DEF SetCap, OtherInv
  <2> QED
    BY <2>2, <2>4, <2>5
<1>12. CASE UNCHANGED vars
  <2>1. BooksType' /\ Money' = Money /\ Bill' = Bill /\ Mending' = Mending
    BY <1>12 DEF vars, ledgerVars, BooksType, Money, Bill, Mending
  <2>2. ShotInv' /\ ImageInv'
    BY <1>12, <2>1, MediaUntouched DEF vars
  <2>3. OtherInv'
    BY <1>12, <2>1 DEF vars, otherVars, OtherInv, ledgerVars, Covers, Remaining, Spent
  <2> QED
    BY <2>1, <2>2, <2>3
<1> QED
  BY <1>1, <1>2, <1>3, <1>4, <1>5, <1>6, <1>7, <1>8, <1>9, <1>10, <1>11, <1>12 DEF Next

\* What is known of the shots, the frames and the books holds at every moment,
\* whether or not the read of a repair is overtaken.
THEOREM Invariance == Spec => []Inv
<1>1. Init => Inv
  BY InitInv
<1>2. Inv /\ [Next]_vars => Inv'
  BY NextInv
<1> QED
  BY <1>1, <1>2, PTL DEF Spec

\* Every variable keeps its type: a budget row that never states less than nothing, a
\* submission for every task, an image bill bounded by the faults there were.
THEOREM TypeCorrect == Spec => []TypeOK
<1>1. Inv => TypeOK
  BY DEF Inv, BooksType, ShotInv, ImageInv, OtherInv, TypeOK
<1> QED
  BY <1>1, Invariance, PTL

\* Two tasks at work are apart.
LEMMA AliveApart ==
  ASSUME ShotInv, NEW s \in Shot, s \notin interrupted, NEW j \in Alive(s), NEW k \in Alive(s), j < k
  PROVE  \E i \in j..k : RoutedApart(s, i)
<1>1. /\ j \in 1..MaxTasks /\ k \in 1..MaxTasks /\ MaxTasks \in Nat
      /\ remote[s][j] \in {"running", "succeeded"} /\ remote[s][k] \in {"running", "succeeded"}
  BY LedgerAssumption DEF Alive
<1>2. Status[s][k] # "unsubmitted" /\ Status[s][j] \notin Repeated
  BY <1>1 DEF ShotInv, Submission, Accounted, Repeated
<1>3. PICK i \in 1..MaxTasks : j <= i /\ i <= k /\ Marked(s, i)
  BY <1>1, <1>2 DEF ShotInv, Turns, InTurn
<1>4. PICK h \in 1..MaxTasks : h < i /\ Number[s][h] = Number[s][i] /\ Price[s][h] # Price[s][i] /\ Number[s][i] # 0
  BY <1>3 DEF Marked
<1>5. i <= Len(tasks[s]) /\ h <= Len(tasks[s])
  BY <1>4 DEF Number
<1>6. tasks[s][h].number = tasks[s][i].number /\ tasks[s][h].price # tasks[s][i].price
  BY <1>4, <1>5 DEF Number, Price
<1>7. h \in 1..(i - 1) /\ i \in j..k
  BY <1>1, <1>3, <1>4
<1> QED
  BY <1>6, <1>7 DEF RoutedApart

\* Whatever crashes, is retried, answered late or reconciled, and however the attempts of
\* a shot or a frame overlap: Runway works on a second task of a shot only behind a
\* submission routed apart from an earlier one of its number, the money of every task
\* is held or booked, and an image is paid for once -- unless a call was cut off.
THEOREM PaidForOnce == Spec => []PaidOnce
<1>1. Inv => PaidOnce
  <2> SUFFICES ASSUME Inv
               PROVE  PaidOnce
    OBVIOUS
  <2> USE DEF Inv
  <2>1. ASSUME NEW s \in Shot, s \notin interrupted
        PROVE  /\ \A j, k \in Alive(s) : j < k => \E i \in j..k : RoutedApart(s, i)
               /\ \A k \in Alive(s) : books.of[<<s, k>>].state \in {"RESERVED", "COMMITTED"}
               /\ video[s] # 0 => books.of[<<s, video[s]>>].state = "COMMITTED"
    <3>1. \A k \in 1..MaxTasks : Accounted(s, k) /\ Money[s][k] = books.of[<<s, k>>].state
      BY <2>1 DEF ShotInv, Money
    <3>2. \A k \in Alive(s) : k \in 1..MaxTasks /\ remote[s][k] \in {"running", "succeeded"}
      BY DEF Alive
    <3>3. \A k \in Alive(s) : Money[s][k] \in {"RESERVED", "COMMITTED"}
      BY <3>1, <3>2 DEF Accounted
    <3>4. video[s] # 0 => video[s] \in 1..MaxTasks
      BY LedgerAssumption DEF ShotInv, AnimationType
    <3>5. video[s] # 0 => Money[s][video[s]] = "COMMITTED"
      BY <3>1, <3>4 DEF Accounted
    <3> QED
      BY <2>1, <3>1, <3>2, <3>3, <3>4, <3>5, AliveApart
  <2>2. ASSUME NEW f \in Frame, f \notin broken
        PROVE  paid[f] <= 1 /\ (paid[f] = 1 => books.of[<<f, 0>>].state \in {"RESERVED", "COMMITTED"})
    <3>1. Drawn(f)
      BY <2>2 DEF ImageInv
    <3>2. books.of[<<f, 0>>].state \in {"none", "RESERVED", "COMMITTED", "RELEASED"}
      BY FrameKeys DEF BooksType, Reservation
    <3>3. Bill[f] = books.of[<<f, 0>>].state
      BY DEF Bill
    <3> QED
      BY <3>1, <3>2, <3>3 DEF Drawn
  <2> QED
    BY <2>1, <2>2 DEF PaidOnce
<1> QED
  BY <1>1, Invariance, PTL

-----------------------------------------------------------------------------
(* The refinement: a step of a part is a step of the abstract budget.  A repair *)
(* whose read is overtaken writes the row from what it read, and then the row   *)
(* does not state the sum any more: the theorem is about a repair that is not.  *)

LEMMA SumsAreLedgers ==
  ASSUME Sums
  PROVE  Ledger!Held = books.reserved /\ Ledger!Booked = books.committed
<1>1. Ledger!Held = Cardinality(HeldUnits)
  BY Zenon DEF HeldUnits, Ledger!Held, Ledger!Cardinality, Cardinality
<1>2. Ledger!Booked = narrated + Cardinality(BookedUnits)
  BY Zenon DEF BookedUnits, Ledger!Booked, Ledger!Cardinality, Cardinality
<1> QED
  BY <1>1, <1>2 DEF Sums

LEMMA CoveredFits ==
  ASSUME BooksType, Sums, NEW n \in Nat, Covers(n)
  PROVE  Ledger!Fits(n)
<1>1. books.cap \in Nat /\ books.committed \in Nat /\ books.reserved \in Nat
  BY LedgerAssumption DEF BooksType
<1> QED
  BY <1>1, SumsAreLedgers DEF Covers, Remaining, Spent, Ledger!Fits

\* Where no reading of the row is involved, the sums only depend on the accounts.
LEMMA SameAccounts ==
  ASSUME Sums, books'.of = books.of, books'.reserved = books.reserved,
         books'.committed - narrated' = books.committed - narrated,
         books.committed \in Nat, narrated \in Nat, books'.committed \in Nat, narrated' \in Nat
  PROVE  Sums'
<1>1. HeldUnits' = HeldUnits /\ BookedUnits' = BookedUnits
  BY DEF HeldUnits, BookedUnits, Ledger!InState
<1>2. Cardinality(BookedUnits) \in Nat
  BY FS_CardinalityType DEF Sums
<1> QED
  BY <1>1, <1>2 DEF Sums

LEMMA TradeImplements ==
  ASSUME BooksType, Sums, NEW K \in SUBSET Key, Trades(K), narrated \in Nat, narrated' = narrated
  PROVE  Sums' /\ [Ledger!Step]_<<books.cap, books.reserved, books.committed, books.of, narrated>>
<1> DEFINE Goal == Sums' /\ [Ledger!Step]_<<books.cap, books.reserved, books.committed, books.of, narrated>>
<1>1. CASE UNCHANGED books
  <2>1. Sums'
    BY <1>1, SameAccounts DEF BooksType
  <2> QED
    BY <1>1, <2>1
<1>2. ASSUME NEW k \in K, NEW n \in Prices, Holds(k, n), Covers(n)
      PROVE  Goal
  <2>1. k \in Key /\ n \in Nat /\ n \in Prices \cup {NarrationPrice}
    BY PricesAreNatural
  <2>2. Sums'
    BY <1>2, <2>1, HoldsKeepsSums
  <2>3. Ledger!Fits(n)
    BY <1>2, <2>1, CoveredFits
  <2>4. /\ books.of[k].state = "none" /\ books'.cap = books.cap
        /\ books'.of = [books.of EXCEPT ![k] = [state |-> "RESERVED", amount |-> n, booked |-> 0]]
    <3>1. books.of[k].state = "none"
      BY <1>2 DEF Holds
    <3>2. /\ books'.cap = books.cap
          /\ books'.of = [books.of EXCEPT ![k] = [state |-> "RESERVED", amount |-> n, booked |-> 0]]
      BY <1>2, <2>1, HoldsFacts
    <3> QED
      BY <3>1, <3>2
  <2>5. Ledger!Hold(k)
    BY <2>1, <2>3, <2>4 DEF Ledger!Hold
  <2> QED
    BY <2>1, <2>2, <2>5 DEF Ledger!Step
<1>3. ASSUME NEW k \in K, NEW n \in Prices \cup {0}, Settles(k, n)
      PROVE  Goal
  <2>1. k \in Key /\ n \in Nat /\ n \in (Prices \cup {NarrationPrice}) \cup {0}
    BY PricesAreNatural
  <2>2. Sums'
    BY <1>3, <2>1, SettlesKeepsSums
  <2>3. /\ books.of[k].state = "RESERVED" /\ books'.cap = books.cap
        /\ books'.of = [books.of EXCEPT ![k].state = IF n > 0 THEN "COMMITTED" ELSE "RELEASED",
                                        ![k].booked = n]
    <3>1. books.of[k].state = "RESERVED"
      BY <1>3 DEF Settles, Open
    <3>2. /\ books'.cap = books.cap
          /\ books'.of = [books.of EXCEPT ![k].state = IF n > 0 THEN "COMMITTED" ELSE "RELEASED",
                                          ![k].booked = n]
      BY <1>3, <2>1 DEF Settles, BooksType
    <3> QED
      BY <3>1, <3>2
  <2>4. Ledger!Settle(k)
    BY <2>1, <2>3 DEF Ledger!Settle
  <2> QED
    BY <2>1, <2>2, <2>4 DEF Ledger!Step
<1> HIDE DEF Goal
<1>4. Goal
  BY <1>1, <1>2, <1>3 DEF Trades, Goal
<1> QED
  BY <1>4 DEF Goal

LEMMA StepImplements ==
  ASSUME Overtaking = FALSE, Inv, Sums, [Next]_vars
  PROVE  Sums' /\ [Ledger!Step]_<<books.cap, books.reserved, books.committed, books.of, narrated>>
<1> USE DEF Inv
<1> DEFINE Goal == Sums' /\ [Ledger!Step]_<<books.cap, books.reserved, books.committed, books.of, narrated>>
<1>0. narrated \in Nat /\ books.cap \in Nat /\ books.committed \in Nat /\ books.reserved \in Nat
  BY LedgerAssumption DEF OtherInv, BooksType
<1>1. ASSUME UNCHANGED books, narrated' = narrated
      PROVE  Goal
  <2>1. Trades(Key)
    BY <1>1 DEF Trades
  <2> QED
    BY <1>0, <1>1, <2>1, TradeImplements
<1>2. CASE AnimationNext /\ UNCHANGED <<imageVars, otherVars>>
  <2>1. Trades(ShotKey) /\ narrated' = narrated
    BY <1>2, ShotStep DEF otherVars
  <2> QED
    BY <1>0, <2>1, ThreeKeys, TradeImplements
<1>3. CASE ImageNext /\ UNCHANGED <<animationVars, otherVars>>
  <2>1. Trades(FrameKey) /\ narrated' = narrated
    BY <1>3, ImageStep DEF otherVars
  <2> QED
    BY <1>0, <2>1, ThreeKeys, TradeImplements
<1>4. CASE Narrated
  <2>1. PICK beyond \in 0..Overrun : /\ books' = [books EXCEPT !.committed = @ + NarrationPrice + beyond]
                                      /\ narrated' = narrated + NarrationPrice + beyond
    BY <1>4 DEF Narrated
  <2>2. /\ books'.of = books.of /\ books'.reserved = books.reserved /\ books'.cap = books.cap
        /\ books'.committed = books.committed + NarrationPrice + beyond
    BY <2>1 DEF BooksType
  <2>3. Sums'
    <3>1. /\ books'.committed \in Nat /\ narrated' \in Nat
          /\ books'.committed - narrated' = books.committed - narrated
      BY <1>0, <2>1, <2>2, PaidAssumption
    <3> QED
      BY <1>0, <2>2, <3>1, SameAccounts
  <2>4. Covers(NarrationPrice)
    BY <1>4 DEF Narrated, Unlocked, OtherInv
  <2>5. Ledger!Fits(NarrationPrice)
    BY <2>4, CoveredFits, PaidAssumption
  <2>6. Ledger!Spend
    BY <2>1, <2>2, <2>5 DEF Ledger!Spend
  <2> QED
    BY <2>3, <2>6 DEF Ledger!Step
<1>5. CASE RepairReserves
  <2>1. /\ Holds(<<mender.shot, 0>>, RepairPrice) /\ Covers(RepairPrice) /\ Unlocked
        /\ mender.shot \in Shot /\ narrated' = narrated
    BY <1>5, RepairFacts DEF RepairReserves, AtReservation
  <2>2. <<mender.shot, 0>> \in RepairKey /\ RepairPrice \in Prices
    BY <2>1 DEF RepairKey, Prices
  <2>3. Trades(RepairKey)
    BY <2>1, <2>2 DEF Trades
  <2> QED
    BY <1>0, <2>1, <2>3, ThreeKeys, TradeImplements
<1>6. CASE RepairSettles
  <2>1. PICK actual \in {0, RepairPrice} : Reconcile(<<mender.shot, 0>>, actual)
    BY <1>6 DEF RepairSettles
  <2>2. <<mender.shot, 0>> \in RepairKey /\ actual \in Prices \cup {0}
    BY <1>6, <2>1 DEF RepairSettles, OtherInv, RepairKey, Prices
  <2>3. Trades(RepairKey)
    BY <1>6, <2>1, <2>2, ReconcileTrades, ThreeKeys DEF RepairSettles
  <2>4. narrated' = narrated
    BY <1>6 DEF RepairSettles
  <2> QED
    BY <1>0, <2>3, <2>4, ThreeKeys, TradeImplements
<1>7. CASE SetCap
  <2>1. owner \in Caps /\ books' = [books EXCEPT !.cap = owner] /\ narrated' = narrated
    BY <1>7 DEF SetCap, OtherInv
  <2>2. /\ books'.of = books.of /\ books'.reserved = books.reserved /\ books'.cap = owner
        /\ books'.committed = books.committed
    BY <2>1 DEF BooksType
  <2>3. Sums'
    BY <1>0, <2>1, <2>2, SameAccounts
  <2>4. Ledger!SetCap
    BY <2>1, <2>2 DEF Ledger!SetCap
  <2> QED
    BY <2>3, <2>4 DEF Ledger!Step
<1>8. CASE UNCHANGED vars
  BY <1>1, <1>8 DEF vars, ledgerVars, otherVars
<1>9. ASSUME Narrate \/ NarrationFails \/ (\E s \in Shot : RepairReads(s)) \/ RepairDenied \/ AskCap
      PROVE  Goal
  <2>1. UNCHANGED books /\ narrated' = narrated
    BY <1>9 DEF Narrate, NarrationFails, RepairReads, RepairDenied, AskCap, ledgerVars, otherVars
  <2> QED
    BY <1>1, <2>1
<1> HIDE DEF Goal
<1>10. Goal
  BY <1>2, <1>3, <1>4, <1>5, <1>6, <1>7, <1>8, <1>9 DEF Next, Goal
<1> QED
  BY <1>10 DEF Goal

\* Money is held, settled and spent only as the abstract budget allows, and the row
\* states the sum of its accounts after every step, whatever the stages do at once.
THEOREM BudgetImplemented ==
  ASSUME Overtaking = FALSE
  PROVE  Spec => ImplementsBudget
<1> DEFINE view == <<books.cap, books.reserved, books.committed, books.of, narrated>>
<1>1. Init => Ledger!Init /\ Inv /\ Sums
  <2> SUFFICES ASSUME Init
               PROVE  Ledger!Init /\ Inv /\ Sums
    OBVIOUS
  <2>1. Inv /\ Sums
    BY InitInv
  <2>2. books.cap \in Caps /\ books.of = [k \in Key |-> Unreserved] /\ narrated = 0
    BY PaidAssumption DEF Init, NewBudget
  <2>3. Ledger!Balanced
    BY <2>1, SumsAreLedgers DEF Ledger!Balanced
  <2> QED
    BY <2>1, <2>2, <2>3 DEF Ledger!Init, Ledger!Account0, Unreserved
<1>2. Inv /\ Sums /\ [Next]_vars => Inv' /\ Sums' /\ [Ledger!Next]_view
  <2> SUFFICES ASSUME Inv, Sums, [Next]_vars
               PROVE  Inv' /\ Sums' /\ [Ledger!Next]_view
    OBVIOUS
  <2>1. Inv' /\ Sums' /\ [Ledger!Step]_view
    BY NextInv, StepImplements
  <2>2. Ledger!Balanced'
    <3>1. Ledger!Held' = Cardinality(HeldUnits)'
      BY Zenon DEF HeldUnits, Ledger!Held, Ledger!Cardinality, Cardinality
    <3>2. Ledger!Booked' = narrated' + Cardinality(BookedUnits)'
      BY Zenon DEF BookedUnits, Ledger!Booked, Ledger!Cardinality, Cardinality
    <3> QED
      BY <2>1, <3>1, <3>2 DEF Sums, Ledger!Balanced
  <2> QED
    BY <2>1, <2>2 DEF Ledger!Next
<1> QED
  BY <1>1, <1>2, PTL DEF Spec, ImplementsBudget, Ledger!Spec, Ledger!budgetVars

=============================================================================
