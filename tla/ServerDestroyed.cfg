SPECIFICATION FairSpec
CONSTANTS
  Names = {}
  MaxCalls = 0
  Interrupts = FALSE
  PythonCallback = TRUE
PROPERTY ShutsDown
CHECK_DEADLOCK FALSE
