SPECIFICATION FairSpec
CONSTANTS
  Worker = {w1, w2}
  Answer = {"PASS", "FAIL"}
  Policy <- Policies
  MaxClips = 3
  MaxFaults = 1
  MaxOwner = 1
  MaxWindows = 1
INVARIANTS
  EndsOnItsClip
  PaidAsAgreed
PROPERTIES
  RepairConcludes
CHECK_DEADLOCK FALSE
