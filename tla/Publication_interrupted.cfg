SPECIFICATION FairSpec
CONSTANTS
  None = None
  Worker = {w1}
  Chunks = 2
  MaxSessions = 4
  MaxRounds = 2
  MaxTries = 2
  MaxRequests = 1
  MaxFaults = 2
  MaxOverlaps = 1
INVARIANTS
  AtMostOneVideo
  ServerConfirmed
  PublicIsDecided
PROPERTIES
  VideoIsKept
  PublicationSettles
CHECK_DEADLOCK FALSE
