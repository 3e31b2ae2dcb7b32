SPECIFICATION Spec
CONSTANTS
  MaxTries = 2
  MaxKeys = 2
  Lines = 2
  MaxTakes = 2
  Parts = 2
  MaxRepairs = 1
  Handoff = {"rain", "dusk"}
  Opening = "opening"
  Local = {"embedded"}
  Found = {"online"}
  Chunks = 2
  Scenes = {"s1", "s2"}
  Concurrency = 2
  MaxAsks = 2
  MaxPasses = 2
  MaxOpinions = 3
  MaxInputs = 2
  RenderOf <- OneRender
  MaxVerdicts = 3
INVARIANTS SelectedIsWhole
PROPERTIES StoredIsNotRepaid StageEnds
CHECK_DEADLOCK FALSE
