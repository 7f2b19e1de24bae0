SPECIFICATION BatcherSpec
CONSTANTS
  w1 = w1
  w2 = w2
  w3 = w3
  x1 = x1
  x2 = x2
  Slots <- MCSlots
  Inputs <- MCInputs
  Padding = Padding
  Sentinel = Sentinel
  BatchSize = 2
  ForwardMayFail = TRUE
INVARIANTS NothingBehindSentinel PendingIffHeld OwnRow
PROPERTIES ServiceSpec AnsweredOrDead
\* Once closed, the thread stops and every worker is refused: nothing is left to do.
CHECK_DEADLOCK FALSE
