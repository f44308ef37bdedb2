CONSTANTS
  Producers = {p1, p2}
  Consumers = {c1, c2}
  Slices = {s1, s2}
  NoSlice = NoSlice
  NumEnvs = 1
  BulkLengths = {1, 2}
  MaxAlloc = 4
SPECIFICATION FairSpec
INVARIANTS TokenAccounting NoOverwrite ReadsPublished
PROPERTIES ImplementsFifo Drains
CHECK_DEADLOCK FALSE
