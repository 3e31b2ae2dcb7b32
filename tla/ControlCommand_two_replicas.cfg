SPECIFICATION Spec
CONSTANTS
  None = None
  Replica = {r1, r2}
  Command = {c1}
  Kind <- References
  MaxAttempts = 2
  MaxDeferrals = 1
  MaxRequests = 1
  MaxCrashes = 0
SYMMETRY ReplicaSymmetry
INVARIANTS
  TypeOK
  DispatchedNamesWorkflow
  BudgetsBounded
PROPERTIES
  FinishedStays
