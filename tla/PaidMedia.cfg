SPECIFICATION FairSpec
CONSTANTS
  Shot = {shot}
  Frame = {frame1}
  Hero = {shot}
  AnimationWorker = {w1, w2}
  ImageWorker = {v1}
  MaxTasks = 2
  Caps = {3, 5}
  FirstCap = 3
  Gen45 = 2
  Turbo = 1
  ImagePrice = 1
  NarrationPrice = 1
  Overrun = 1
  RepairPrice = 1
  Overtaking = FALSE
  MaxSegments = 1
  MaxCapChanges = 1
  MaxFaults = 1
INVARIANTS
  PaidOnce
PROPERTIES
  ImplementsBudget
  PaidTaskKept
CHECK_DEADLOCK FALSE
