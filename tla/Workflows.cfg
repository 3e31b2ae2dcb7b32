SPECIFICATION FairSpec
CONSTANTS
  Owned = {s1, s2, s3}
  Replacement = {r}
  Concurrency = 2
  MaxFaults = 2
  MaxSignals = 1
  Command = {c1, c2}
  EntryOf <- EntryAtReferences
  MaxExec = 2
  MaxCancels = 1
  MaxCrashes = 1
INVARIANTS
  TypeOK
  LockedIsEarned
  SettledRunIsOver
  CompletedPassedQA
PROPERTIES
  WorkflowsSettle
CHECK_DEADLOCK FALSE
