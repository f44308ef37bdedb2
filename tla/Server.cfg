SPECIFICATION Spec
CONSTANTS
  Models = {m1, m2}
  Scenery = {ground}
  Stranger = ghost
  Poses = {p1, p2}
  Masses = {heavy}
  None = None
  MaxEntities = 7
  MaxSystems = 2
INVARIANTS
  HandlesLive
  OneEntityPerModel
  ResetComplete
  RespawnComplete
  StateCurrent
CHECK_DEADLOCK FALSE
