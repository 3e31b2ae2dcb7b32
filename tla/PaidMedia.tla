------------------------------ MODULE PaidMedia ------------------------------
(***************************************************************************)
(* Everything of a project that is paid for under its one budget: shots,   *)
(* keyframes, narration, the repair of a clip, and the owner who moves the *)
(* cap.                                                                    *)
(***************************************************************************)
EXTENDS Animation, ImageGeneration

CONSTANTS
  FirstCap,         \* the hard cap the project is created with
  NarrationPrice,   \* the estimate for a segment
  Overrun,          \* what the measured duration may cost beyond it
  RepairPrice,      \* the estimate for a repair
  MaxSegments,      \* bound: narration calls
  MaxCapChanges,    \* bound
  Overtaking        \* bound: whether a repair's read of the budget may be overtaken

ASSUME PaidAssumption ==
  /\ FirstCap \in Caps
  /\ NarrationPrice \in Nat /\ Overrun \in Nat /\ RepairPrice \in Nat
  /\ MaxSegments \in Nat /\ MaxCapChanges \in Nat /\ Overtaking \in BOOLEAN

VARIABLES
  segments,   \* narration calls so far
  narrated,   \* what they were booked at
  owner,      \* the cap an owner's request is about to write, -1 if none
  mender,     \* the repair under way, with what it read of the budget
  capChanges

otherVars == <<segments, narrated, mender, owner, capChanges>>
vars == <<ledgerVars, faults, animationVars, imageVars, otherVars>>

-----------------------------------------------------------------------------

\* Reserved, called and reconciled in one transaction, with the budget locked
\* all along.
Narrate ==
  /\ Unlocked
  /\ segments < MaxSegments
  /\ Covers(NarrationPrice)
  /\ narrator' = "calling"
  /\ segments' = segments + 1
  /\ UNCHANGED <<books, faults, animationVars, imageVars, narrated, mender, owner, capChanges>>

Narrated ==
  /\ ~Unlocked
  /\ \E beyond \in 0..Overrun :
       /\ books' = [books EXCEPT !.committed = @ + NarrationPrice + beyond]
       /\ narrated' = narrated + NarrationPrice + beyond
  /\ narrator' = "idle"
  /\ UNCHANGED <<faults, animationVars, imageVars, segments, mender, owner, capChanges>>

\* The call fails or its worker dies: the transaction leaves nothing.
NarrationFails ==
  /\ ~Unlocked
  /\ narrator' = "idle"
  /\ UNCHANGED <<books, faults, animationVars, imageVars, otherVars>>

-----------------------------------------------------------------------------

Row == [cap |-> books.cap, reserved |-> books.reserved, committed |-> books.committed]

Rested == [pc |-> "idle", shot |-> 0, row |-> [cap |-> 0, reserved |-> 0, committed |-> 0]]

Mender == [pc: {"idle", "read", "paying"}, shot: Shot \cup {0},
           row: [cap: Nat, reserved: Nat, committed: Nat]]

\* A clip that failed its quality check is repaired.  The repair first reads the
\* whole budget row, to see whether there is one.
RepairReads(s) ==
  /\ mender.pc = "idle"
  /\ video[s] # 0 /\ ~Known(<<s, 0>>)
  /\ mender' = [pc |-> "read", shot |-> s, row |-> IF Overtaking THEN Row ELSE Rested.row]
  /\ UNCHANGED <<ledgerVars, faults, animationVars, imageVars, segments, narrated, owner, capChanges>>

\* Then it reserves.  The locked read answers with the object the session still
\* holds, so the row is checked and written as it was first read, which without
\* Overtaking is as it is.
RowHeld == IF Overtaking THEN mender.row ELSE Row

RepairFits == RowHeld.committed + RowHeld.reserved + RepairPrice <= RowHeld.cap

AtReservation == mender.pc = "read" /\ Unlocked

RepairReserves ==
  /\ AtReservation
  /\ RepairFits
  /\ books' = [books EXCEPT
                 !.reserved = RowHeld.reserved + RepairPrice,
                 !.of[<<mender.shot, 0>>] = [state |-> "RESERVED", amount |-> RepairPrice, booked |-> 0]]
  /\ mender' = [Rested EXCEPT !.pc = "paying", !.shot = mender.shot]
  /\ UNCHANGED <<narrator, faults, animationVars, imageVars, segments, narrated, owner, capChanges>>

RepairDenied ==
  /\ AtReservation
  /\ ~RepairFits
  /\ mender' = Rested
  /\ UNCHANGED <<ledgerVars, faults, animationVars, imageVars, segments, narrated, owner, capChanges>>

\* It made a clip, or it did not.
RepairSettles ==
  /\ mender.pc = "paying"
  /\ MayReconcile(<<mender.shot, 0>>)
  /\ \E actual \in {0, RepairPrice} : Reconcile(<<mender.shot, 0>>, actual)
  /\ mender' = Rested
  /\ UNCHANGED <<narrator, faults, animationVars, imageVars, segments, narrated, owner, capChanges>>

-----------------------------------------------------------------------------

\* A cap below what is spent or reserved is refused ...
Allowed(cap) == cap >= Spent

AskCap ==
  /\ owner = -1
  /\ capChanges < MaxCapChanges
  /\ \E cap \in Caps \ {books.cap} : Allowed(cap) /\ owner' = cap
  /\ capChanges' = capChanges + 1
  /\ UNCHANGED <<ledgerVars, faults, animationVars, imageVars, segments, narrated, mender>>

\* ... as of the read; the row was not locked by it.
SetCap ==
  /\ owner # -1
  /\ Unlocked
  /\ books' = [books EXCEPT !.cap = owner]
  /\ owner' = -1
  /\ UNCHANGED <<narrator, faults, animationVars, imageVars, segments, narrated, mender, capChanges>>

-----------------------------------------------------------------------------

Init ==
  /\ books = NewBudget(FirstCap)
  /\ narrator = "idle" /\ faults = 0
  /\ AnimationInit /\ ImageInit
  /\ segments = 0 /\ narrated = 0 /\ mender = Rested
  /\ owner = -1 /\ capChanges = 0

Next ==
  \/ AnimationNext /\ UNCHANGED <<imageVars, otherVars>>
  \/ ImageNext /\ UNCHANGED <<animationVars, otherVars>>
  \/ Narrate \/ Narrated \/ NarrationFails
  \/ \E s \in Shot : RepairReads(s)
  \/ RepairReserves \/ RepairDenied \/ RepairSettles
  \/ AskCap \/ SetCap

Spec == Init /\ [][Next]_vars

FairSpec == Spec /\ AnimationFairness /\ WF_vars(Narrated)

-----------------------------------------------------------------------------
(* Properties. *)

TypeOK ==
  /\ books \in [cap: Caps, committed: Nat, reserved: Nat, of: [Key -> Reservation]]
  /\ narrator \in {"idle", "calling"} /\ faults \in 0..MaxFaults
  /\ AnimationType /\ ImageType
  /\ segments \in 0..MaxSegments /\ narrated \in Nat /\ mender \in Mender
  /\ owner \in Caps \cup {-1} /\ capChanges \in 0..MaxCapChanges

Alive(s) == {k \in 1..MaxTasks : remote[s][k] \in {"running", "succeeded"}}

\* A submission made under the number of another one, for another model: the attempts
\* that made the two overlapped, and the budget moved between their routings.
RoutedApart(s, k) ==
  \E j \in 1..(k - 1) : /\ tasks[s][j].number = tasks[s][k].number
                        /\ tasks[s][j].price # tasks[s][k].price

\* Unless a submit was cut off before its answer, Runway works on two tasks of a
\* shot only if attempts overlapped and were routed to different models: the earlier
\* task, the later or one between is such a submission.  The money for every task
\* Runway has is reserved or booked, at every moment of any sequence of retries,
\* crashes and reconciliations, and booked once the shot has its video.  An image is
\* paid for once, unless a call of it was cut off.
PaidOnce ==
  /\ \A s \in Shot \ interrupted :
       /\ \A j, k \in Alive(s) : j < k => \E i \in j..k : RoutedApart(s, i)
       /\ \A k \in Alive(s) : books.of[<<s, k>>].state \in {"RESERVED", "COMMITTED"}
       /\ video[s] # 0 => books.of[<<s, video[s]>>].state = "COMMITTED"
  /\ \A f \in Frame \ broken :
       /\ paid[f] <= 1
       /\ paid[f] = 1 => books.of[<<f, 0>>].state \in {"RESERVED", "COMMITTED"}

Prices == {Gen45, Turbo, ImagePrice, RepairPrice}

Ledger == INSTANCE Budget WITH
  Account <- Key, Amounts <- Prices \cup {NarrationPrice},
  cap <- books.cap, reserved <- books.reserved, committed <- books.committed,
  accounts <- books.of, unreserved <- narrated

\* However many stages reserve and settle at once, whatever dies or is retried, and
\* while the owner moves the cap, money is held, settled and spent only as the
\* abstract budget allows, and the row states the sum of its reservations and of
\* the ledger after every step.
ImplementsBudget == Ledger!Spec

\* What is reserved and booked together stays under the hard cap.
WithinCap == Ledger!Held + Ledger!Booked <= books.cap

Succeeded(s) == Task(s).known /\ remote[s][Len(tasks[s])] = "succeeded"

\* A remote task that was accepted and succeeded gets its shot a video, as long as
\* the budget covers the price of that task once more and no attempt routed apart put
\* another submission in its place.
PaidTaskKept ==
  \A s \in Shot : Succeeded(s) ~>
    (video[s] # 0 \/ Remaining < Turbo \/ \E k \in DOMAIN tasks[s] : RoutedApart(s, k))

=============================================================================
