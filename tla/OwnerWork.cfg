CONSTANTS
  Parts = {p1, p2}
  Requests = {r1, r2}
  Finalizers = {f1, f2}
  Slots = 2
  MaxRetries = 2
  MaxMishaps = 2
  Entities = {hero, hall}
  Characters = {hero}
  Shots = {s1}
  DependsOn <- ShowsBoth
  MaxIdentity = 2
  Changing = {hall}
  MaxDecisions = 3
  MaxStarts = 2
  MaxDeaths = 1
  Consents = {k1, k2}
  Callbacks = {b1, b2}
  Minters = {m1, m2}
  Disconnects = {d1, d2}
  MaxKey = 2
  Writers = {w1, w2}
  MaxEvents = 4
  SequenceAttempts = 2
  BatchLimit = 2
  SSEAttempts = 2
  Polls = {q1, q2}
  MaxBreaks = 3
SPECIFICATION Spec
INVARIANTS
  UploadIsTrue
  CredentialKept
  NothingSkipped
PROPERTIES
  ReferencesBound
  OwnerIsServed
CHECK_DEADLOCK FALSE
