SPECIFICATION TrainingSpec
CONSTANTS
  WorkerCount = 2
  Chunk = 2
  Updates = 2
  Minibatches = 2
  Slots <- MCSlots
  Inputs <- MCInputs
  Padding = Padding
  Sentinel = Sentinel
  BatchSize = 2
  ForwardMayFail = TRUE
INVARIANTS ModelFixedInRollout NoGameOutlivesTraining
PROPERTIES TrainingEndsOrDrainDies
\* Training ends, or waits forever behind a drain that died: both are final states.
CHECK_DEADLOCK FALSE
