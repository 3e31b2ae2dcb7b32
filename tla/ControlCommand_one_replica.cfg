SPECIFICATION FairSpec
CONSTANTS
  None = None
  Replica = {r1}
  Command = {c1}
  Kind <- References
  MaxAttempts = 2
  MaxDeferrals = 1
  MaxRequests = 1
  MaxCrashes = 1
PROPERTIES
  CancellationHonoured
  CommandMoves
