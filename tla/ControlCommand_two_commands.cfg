SPECIFICATION Spec
CONSTANTS
  None = None
  Replica = {r1}
  Command = {c1, c2}
  Kind <- MixedKinds
  MaxAttempts = 1
  MaxDeferrals = 0
  MaxRequests = 2
  MaxCrashes = 0
INVARIANTS
  StatusIsEarned
PROPERTIES
  FailedNeedsRetry
  CancelledAfterTold
