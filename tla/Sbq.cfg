CONSTANTS
  Workers = {w1, w2}
  Creators = {k1}
  Envs = {e1, e2, e3}
  NoRow = NoRow
  Batch = 2
  StockSize = 2
  MaxBlocks = 7
SPECIFICATION FairSpec
INVARIANTS StorageSafe BatchComplete
PROPERTIES WaitReturns DestructorDrains
CHECK_DEADLOCK FALSE
