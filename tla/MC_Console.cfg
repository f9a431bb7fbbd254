SPECIFICATION LiveSpec
CONSTANTS
  BufferSize = 3
  Budgets <- Scenarios
INVARIANTS ConsoleTypeOK OwnWritesShown FleetPageExpectsNews
PROPERTIES DashboardCatchesUp FleetPageCatchesUp
CHECK_DEADLOCK FALSE
