CONSTANTS
  MaxSameProvider = 2
  MaxAlternate = 1
  DimensionRepairs = 2
  ResultRepairs = 3
  ResultWarnings = 2
  GateTolerances <- SomeTolerances
  GateFindings <- SomeFindings
  GateSeconds <- SomeSeconds
  MinShot = 2
  MaxShot = 4
  SnapWindow = 1
  SolverPasses = 8
  Narrations <- SomeNarrations
  DirectionQuestions <- SomeDirections
  Successors <- SomeSuccessors
  AssemblyQuestions <- SomeAssemblies
  CaptionQuestions <- SomeCaptions
  DeliveryQuestions <- SomeDeliveries
  ScriptQuestions <- SomeScripts
  RoutingQuestions <- SomeRoutings
  DashboardQuestions <- SomeDashboards
  DeletionQuestions <- SomeDeletions
  SamplingQuestions <- SomeSamplings
  ParallaxQuestions <- SomeParallaxes
  CoverageSamples = 5
  ActionSamples = 3
  FinalFrameBackoff = 2
  MinimumSamples = 3
  MinBeats = 4
  MaxBeats = 5
  LongSegment = 40
  PublishingQuestions <- SomePublishing
SPECIFICATION Spec
INVARIANTS QualityOk MadeOk DeliveredOk ProjectOk
CHECK_DEADLOCK FALSE
