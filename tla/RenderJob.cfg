SPECIFICATION FairSpec
CONSTANTS
  None = None
  Executor = {poller, first}
  Poller = {poller}
  WorkerOf <- OwnWorkerId
  Inputs = {i1, i2}
  MaxAttempts = 2
  MaxJobs = 2
  MaxChanges = 1
  MaxFaults = 1
INVARIANTS
  RenderIsTrue
PROPERTIES
  LeaseExcludes
  HeadSettles
CHECK_DEADLOCK FALSE
