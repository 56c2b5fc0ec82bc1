SPECIFICATION Spec
CONSTANTS
  Sticks <- MCLargeBlocks
  Entries = 2
  HostSector = 2
  MaxAttempts = 1
INVARIANTS HostFindsFreshTable
CHECK_DEADLOCK FALSE
