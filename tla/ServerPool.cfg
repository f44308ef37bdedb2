SPECIFICATION FairSpec
CONSTANTS
  NumServers = 2
  Callers = {c1, c2}
  Requests <- MCRequests
  MaxCalls = 2
INVARIANTS
  NothingDropped
  ProgramOrder
  ResultsInRequestOrder
  ServersOutliveWorkers
PROPERTIES
  CallsEnd
  CloseReturns
