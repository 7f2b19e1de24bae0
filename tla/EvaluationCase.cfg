SPECIFICATION CaseSpec
CONSTANTS
  Owners = {"worker", "recording_worker", "evaluation"}
  MaxEpisodes = 2
  Nil = Nil
  Policies = {"scripted", "curriculum", "gated"}
  Levels <- MCLevels
  Entrance <- MCEntrance
  Lair <- MCLair
  Troubles = {"none", "poison", "zot", "piety"}
  MaxDepth = 2
  step_limit = 9
  Detailed <- MCDetailed
INVARIANTS WorkerHoldsItsGame RecordsItsOwnGame
INVARIANTS WaysAreShortest DecisionIsOffered OnlyKnownStalls
\* The owner stops when it is released or has run its episodes.
CHECK_DEADLOCK FALSE
