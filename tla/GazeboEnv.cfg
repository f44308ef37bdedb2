SPECIFICATION Spec
CONSTANTS
  Kinds = {"hover", "tracking", "payload", "pendulum", "formation"}
  Formation = 2
  MaxSteps = 3
  PhysicsSteps = 2
  Draws <- MCDraws
  Cadence <- MCCadence
  ActionHistory = 2
  StateHistory = 2
  MaxActions = 7
  NoRow = NoRow
  NoState = NoState
INVARIANTS
  DoneReported
  ObservesTheWorld
  RewardSpansTheAction
  DynamicsInForce
  HistoryOfEpisode
CHECK_DEADLOCK FALSE
