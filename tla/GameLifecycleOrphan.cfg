SPECIFICATION Spec
CONSTANTS
  Owners = {"evaluation"}
  MaxEpisodes = 2
INVARIANTS NoGameIsOrphaned
\* The owner stops when it has run its episodes.
CHECK_DEADLOCK FALSE
