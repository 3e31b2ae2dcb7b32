----------------------------- MODULE CostLedger -----------------------------
(***************************************************************************)
(* The budget of a project and the reservations taken out of it before     *)
(* paid calls (CostRepository).  A reservation has an idempotency key, and *)
(* so has its reconciliation, which writes one ledger entry: `booked' is   *)
(* the amount of that entry.                                               *)
(*                                                                         *)
(* Reserving and reconciling lock the budget row until the transaction     *)
(* ends.  Animation and image generation commit at once, so each is a step;*)
(* narration calls its provider inside the transaction, and `narrator'     *)
(* says that it holds the lock.                                            *)
(***************************************************************************)
EXTENDS Integers, FiniteSets

CONSTANTS
  Shot, Frame,      \* shots to animate, keyframes to draw
  MaxTasks,         \* bound: submissions of a shot
  Caps,             \* hard caps an owner may set
  MaxFaults         \* bound: crashes, errors, interruptions, overlapping attempts

ASSUME LedgerAssumption ==
  /\ Caps # {} /\ Caps \subseteq Nat
  /\ MaxTasks \in Nat \ {0} /\ MaxFaults \in Nat
  /\ Shot \cap Frame = {}

VARIABLES
  books,      \* the budget row and the reservations
  narrator,   \* whether a narration call holds the budget's lock
  faults

\* A submission of a shot has its own key, and so has its repair, numbered 0; a
\* frame has one for all its calls.
Key == (Shot \X (0..MaxTasks)) \cup (Frame \X {0})

Reservation == [state: {"none", "RESERVED", "COMMITTED", "RELEASED"}, amount: Nat, booked: Nat]

Unreserved == [state |-> "none", amount |-> 0, booked |-> 0]

Books == [cap: Nat, committed: Nat, reserved: Nat, of: [Key -> Reservation]]

NewBudget(cap) ==
  [cap |-> cap, committed |-> 0, reserved |-> 0, of |-> [k \in Key |-> Unreserved]]

Spent == books.committed + books.reserved

Remaining == books.cap - Spent

Covers(amount) == amount <= Remaining

Unlocked == narrator = "idle"

\* The existing reservation is answered whatever became of it; only a new one
\* needs the lock and the headroom.
Known(k) == books.of[k].state # "none"

MayReserve(k, amount) == Known(k) \/ (Unlocked /\ Covers(amount))

Denied(k, amount) == ~Known(k) /\ Unlocked /\ ~Covers(amount)

Reserve(k, amount) ==
  books' = IF Known(k) THEN books
           ELSE [books EXCEPT !.reserved = @ + amount,
                              !.of[k] = [state |-> "RESERVED", amount |-> amount, booked |-> 0]]

\* A key reconciled before is answered from its ledger entry.
Open(k) == books.of[k].state = "RESERVED"

\* The row may not state less than nothing.
MayReconcile(k) == Open(k) => Unlocked /\ books.reserved >= books.of[k].amount

\* Mutant: the reservation is charged but stays open.
ReconcileWithoutRelease(k, actual) ==
  IF Open(k)
  THEN books' = [books EXCEPT !.committed = @ + actual,
                            !.of[k].state = IF actual > 0 THEN "COMMITTED" ELSE "RELEASED",
                            !.of[k].booked = actual]
  ELSE UNCHANGED books

Reconcile(k, actual) ==
  IF Open(k)
  THEN books' = [books EXCEPT !.reserved = @ - books.of[k].amount,
                            !.committed = @ + actual,
                            !.of[k].state = IF actual > 0 THEN "COMMITTED" ELSE "RELEASED",
                            !.of[k].booked = actual]
  ELSE UNCHANGED books

ledgerVars == <<books, narrator>>

Fault == faults < MaxFaults /\ faults' = faults + 1

=============================================================================
