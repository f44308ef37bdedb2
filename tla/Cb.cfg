CONSTANTS
  Putters = {p1}
  Getters = {g1}
  Size = 2
  Values = {v1, v2}
  Empty = Empty
  MaxPuts = 6
SPECIFICATION Spec
SYMMETRY Symmetry
INVARIANT GetsInOrder
CHECK_DEADLOCK FALSE
