SPECIFICATION CacheSpec
CONSTANTS
  p1 = p1
  p2 = p2
  Processes <- MCProcesses
  N = 2
  MaxContent = 1
  MaxVersion = 1
SYMMETRY Symmetry
INVARIANTS CachedMatchesKey HitIsOwnInputs
\* The processes stop when they are done.
CHECK_DEADLOCK FALSE
