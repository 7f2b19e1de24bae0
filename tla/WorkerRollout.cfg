SPECIFICATION Spec
CONSTANTS
  None = None
  PerToken = 2
  Capacity = 3
  Refill = 1
  Window = 2
  Places = {0, 1}
  Entrances = {0}
  Passing <- MCPassing
  Value <- MCValue
  WorkerIndex = 1
  WorkerCount = 2
  CaseCount = 5
  HistoryLength = 2
  StepLimits = {1, 3}
  StartAttempts = 2
  RolloutLength = 2
  Chunks = 2
  Discount <- MCHalf
  Lambda <- MCHalf
  DecisionCost <- MCDecisionCost
  ShortCycleCost <- MCShortCycleCost
  OverflowCost <- MCOverflowCost
  Reached <- MCReached
INVARIANTS InputIsLive TrainedOnItsGames OnlyBurstsCharged CyclesAreRecurrences TraceIsFirstUpdate
\* The chunks have been collected.
CHECK_DEADLOCK FALSE
