SPECIFICATION FairSpec
CONSTANTS
  Names = {c1, c2}
  MaxCalls = 3
  Interrupts = TRUE
  PythonCallback = FALSE
INVARIANTS
  StatesTrue
  RenderedAsRequested
PROPERTIES
  DueFramesRequested
  CallsReturn
  StopEnds
CHECK_DEADLOCK FALSE
