SPECIFICATION FairSpec
CONSTANTS
  Cap = 6
  Byte = {0, 1}
  Zero = 0
  BlockSize = 3
  DevBlock = 3
  Requests <- MCRequests
INVARIANTS TypeOK IInv NeverRefused
PROPERTIES OutsideUntouched KeepsContract Returns
