SPECIFICATION Spec
CONSTANTS
  Prompt = TRUE
  MaxKeys = 3
  MaxTurns = 1
  MaxDepth = 2
INVARIANTS DecidesOnlyAtInput EvidenceIsItsOwn
PROPERTIES ExchangeEnds
\* The agent stops after its last key, at a timeout or when the game is over.
CHECK_DEADLOCK FALSE
