SPECIFICATION AdapterSpec
CONSTANTS
  Cap = 3
  Byte = {0, 1}
  Zero = 0
  Requests <- MCRequests
  Top = 7
INVARIANTS TypeOK
PROPERTIES ActsAsFile
