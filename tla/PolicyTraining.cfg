SPECIFICATION Spec
CONSTANTS
  None = None
  Specs <- MCSpecs
  FeatureCount <- MCFeatureCount
  CurrentSpec = 6
  ResidualSpec = 5
  ActionCount = 3
  Initial <- MCInitial
  Lengths <- MCLengths
  Companions <- MCCompanions
  ProbeRows <- MCProbeRows
  Updates = 2
  Minibatches = 1
  MaxJobs = 2
INVARIANTS UnownedKept
PROPERTIES AuditTellsOwnership LabelledSpec
\* The tools stop when as many have run as the bound allows.
CHECK_DEADLOCK FALSE
