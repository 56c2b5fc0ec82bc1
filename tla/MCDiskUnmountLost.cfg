SPECIFICATION FairSpec
CONSTANTS
  Callers = {"p"}
  Disks = {"disk4"}
  Volumes = {"v", "w"}
  MaxMounts = 0
PROPERTIES NeverFiredIsReported
CHECK_DEADLOCK FALSE
