CONSTANTS
  Peers = {p1}
  Natives = {n1}
  ResetSteps = 2
  MaxCalls = 3
SPECIFICATION Spec
INVARIANTS ExecutorServes NobodyStuck
PROPERTY MessagesInOrder
CHECK_DEADLOCK FALSE
