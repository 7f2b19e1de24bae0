SPECIFICATION Spec
CONSTANTS
  None = None
  Levels <- MCLevels
  Start <- MCStart
  Coordinates <- MCCoordinates
  Slots = {"a", "b"}
  MaxXl = 2
  MaxDrawn = 2
  MaxMessages = 3
  MaxSteps = 3
INVARIANTS ViewIsGames ReadersAgree RewardIsProgress DiscoveryCountsOnce DeadNeverActs
PROPERTIES SampleIsDecision
\* The episode ends.
CHECK_DEADLOCK FALSE
