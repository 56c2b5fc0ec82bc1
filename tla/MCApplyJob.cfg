SPECIFICATION FairSpec
CONSTANTS
  MaxRuns = 3
  MaxEdits = 2
INVARIANTS TypeOK OnlyValidJobsRun CompleteIffSuccess DryRunAgrees
CHECK_DEADLOCK FALSE
