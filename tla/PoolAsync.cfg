CONSTANTS
  Workers = {w1, w2}
  Creators = {k1}
  Envs = {e1, e2, e3}
  NoRow = NoRow
  Batch = 2
  StockSize = 1
  MaxBlocks = 2
  MaxRequests = 2
  MaxIds = 2
SPECIFICATION Spec
SYMMETRY Symmetry
PROPERTY ImplementsEnvPool
CHECK_DEADLOCK FALSE
