SPECIFICATION Spec
CONSTANTS
  Kinds = {"formation"}
  Formation = 2
  MaxSteps = 2
  PhysicsSteps = 1
  Draws <- MCDraws
  Cadence <- MCCadence
  ActionHistory = 2
  StateHistory = 2
  MaxActions = 5
  NoRow = NoRow
  NoState = NoState
INVARIANT NothingAccumulates
CHECK_DEADLOCK FALSE
