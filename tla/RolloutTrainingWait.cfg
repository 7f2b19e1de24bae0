SPECIFICATION TrainingSpec
CONSTANTS
  WorkerCount = 2
  Chunk = 1
  Updates = 1
  Minibatches = 1
  Slots <- MCSlots
  Inputs <- MCInputs
  Padding = Padding
  Sentinel = Sentinel
  BatchSize = 2
  ForwardMayFail = TRUE
PROPERTIES EveryCallResolved
\* Training ends, or waits forever behind a drain that died: both are final states.
CHECK_DEADLOCK FALSE
