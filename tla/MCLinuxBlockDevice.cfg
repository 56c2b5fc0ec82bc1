SPECIFICATION FairSpec
CONSTANTS
  Cap = 4
  Byte = {0, 1}
  Zero = 0
  Requests <- MCRequests
INVARIANTS TypeOK IInv
PROPERTIES KeepsContract Returns
