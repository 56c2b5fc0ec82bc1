SPECIFICATION FairSpec
CONSTANTS
  MaxRuns = 2
  MaxEdits = 1
PROPERTIES RetryIsAllowed
CHECK_DEADLOCK FALSE
