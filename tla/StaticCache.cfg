SPECIFICATION Spec
CONSTANTS
  b1 = b1
  w1 = w1
  w2 = w2
  None = None
  Processes <- MCProcesses
  Workers <- MCWorkers
  MaxConcurrency = 1
  MaxVersion = 1
INVARIANTS PermitsConserved SnapshotOfItsIdentity GameStartsOnItsTree
PROPERTIES RequestEnds
\* The processes end.
CHECK_DEADLOCK FALSE
