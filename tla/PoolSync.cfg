CONSTANTS
  Workers = {w1, w2}
  Creators = {k1}
  Envs = {e1, e2}
  NoRow = NoRow
  Batch = 2
  StockSize = 1
  MaxBlocks = 3
  MaxRequests = 3
  MaxIds = 2
SPECIFICATION Spec
SYMMETRY Symmetry
INVARIANTS StorageSafe OneWorkerPerEnv RowsInRequestOrder NothingStranded
PROPERTY ImplementsEnvPool
CHECK_DEADLOCK FALSE
