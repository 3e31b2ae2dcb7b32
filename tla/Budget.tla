------------------------------- MODULE Budget -------------------------------
(***************************************************************************)
(* What the stages of a project may rely on about its money, whatever they *)
(* buy and however they interleave: a call is paid for out of an amount    *)
(* held in advance, held only while it fits under the cap that stands at   *)
(* that moment; an amount is settled once; and after every step the budget *)
(* row states what the accounts add up to.                                 *)
(***************************************************************************)
EXTENDS Integers, FiniteSets

CONSTANTS
  Account,     \* reservation keys
  Caps,        \* caps an owner may set
  Amounts,     \* prices
  Overrun      \* what a call may cost beyond its estimate when nothing is held

VARIABLES
  cap, reserved, committed,   \* the row
  accounts,                   \* the reservations with their ledger entries
  unreserved                  \* booked in the transaction that held it

budgetVars == <<cap, reserved, committed, accounts, unreserved>>

Account0 == [state |-> "none", amount |-> 0, booked |-> 0]

InState(state) == {k \in Account : accounts[k].state = state}

\* A sum counts units of money, each one the nth of its account.
Units(k, amount) == {k} \X (1..amount)

Held == Cardinality(UNION {Units(k, accounts[k].amount) : k \in InState("RESERVED")})

Booked == unreserved + Cardinality(UNION {Units(k, accounts[k].booked) : k \in Account})

\* The row is the sum of what it stands for.
Balanced == reserved = Held /\ committed = Booked

Fits(amount) == Held + Booked + amount <= cap

Hold(k) ==
  /\ accounts[k].state = "none"
  /\ \E amount \in Amounts :
       /\ Fits(amount)
       /\ accounts' = [accounts EXCEPT ![k] = [state |-> "RESERVED", amount |-> amount, booked |-> 0]]
  /\ UNCHANGED <<cap, unreserved>>

Settle(k) ==
  /\ accounts[k].state = "RESERVED"
  /\ \E actual \in Amounts \cup {0} :
       accounts' = [accounts EXCEPT ![k].state = IF actual > 0 THEN "COMMITTED" ELSE "RELEASED",
                                    ![k].booked = actual]
  /\ UNCHANGED <<cap, unreserved>>

Spend ==
  /\ \E estimate \in Amounts, beyond \in 0..Overrun :
       Fits(estimate) /\ unreserved' = unreserved + estimate + beyond
  /\ UNCHANGED <<cap, accounts>>

SetCap == cap' \in Caps /\ UNCHANGED <<accounts, unreserved>>

Init ==
  /\ cap \in Caps
  /\ accounts = [k \in Account |-> Account0]
  /\ unreserved = 0
  /\ Balanced

Step == (\E k \in Account : Hold(k) \/ Settle(k)) \/ Spend \/ SetCap

Next == Step /\ Balanced'

Spec == Init /\ [][Next]_budgetVars

=============================================================================
