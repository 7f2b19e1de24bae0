SPECIFICATION EvaluationSpec
CONSTANTS
  p1 = p1
  p2 = p2
  p3 = p3
  a = a
  b = b
  dev = dev
  heldout = heldout
  twice = twice
  c1 = c1
  c2 = c2
  d1 = d1
  d2 = d2
  Nil = Nil
  Raised = Raised
  Processes <- MCProcesses
  Suites <- MCSuites
  Policies <- MCPolicies
  MaxRank = 2
  Expected = dev
  Overlap = FALSE
  workers = 2
  Outputs <- MCOutputs
  CasesOf <- MCCasesOf
  Results = {1, 2}
  Floors = {4}
  Config <- MCConfig
SYMMETRY Symmetry
INVARIANTS TrackMonotonic EvaluatedInFull NoCaseOutlivesEvaluation
PROPERTIES ActivationIsAtomic
\* The commands end.
CHECK_DEADLOCK FALSE
