SPECIFICATION Spec
CONSTANTS
  Shot = {shot}
  Frame = {frame1}
  Hero = {}
  AnimationWorker = {w1}
  ImageWorker = {v1}
  MaxTasks = 1
  Caps = {3}
  FirstCap = 3
  Gen45 = 2
  Turbo = 1
  ImagePrice = 1
  NarrationPrice = 1
  Overrun = 0
  RepairPrice = 1
  Overtaking = TRUE
  MaxSegments = 1
  MaxCapChanges = 0
  MaxFaults = 0
INVARIANTS
  WithinCap
CHECK_DEADLOCK FALSE
