SPECIFICATION Spec
CONSTANTS
  Sticks <- MCSticks
  Entries = 1
  HostSector = 1
  MaxAttempts = 2
INVARIANTS TypeOK ReportedIsDurable OnlyTablesTouched
CHECK_DEADLOCK FALSE
