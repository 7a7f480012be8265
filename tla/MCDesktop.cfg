SPECIFICATION FairSpec
CONSTANTS
  Workers = {w1, w2}
  MaxStarts = 3
INVARIANTS
  LatestStatusShown
  StoppedOnExit
PROPERTIES
  ExitCompletes
CHECK_DEADLOCK FALSE
