SPECIFICATION FairSpec
CONSTANTS
  Callers = {"p", "q"}
  Disks = {"disk4", "disk5"}
  Volumes = {"v", "w"}
  MaxMounts = 2
INVARIANTS TypeOK AliveUntilSent
PROPERTIES KeepsPromise ReturnsIfAnswered
CHECK_DEADLOCK FALSE
