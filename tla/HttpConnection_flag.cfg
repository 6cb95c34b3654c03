SPECIFICATION Spec
CONSTANTS
  a = a
  b = b
  nul = nul
  Zero = nul
  kPrePendIndex = 1
  Byte <- MCByte
  Request <- MCPost
  HeapFlag <- MCAny
  MaxRequests = 1
  ResponseSize = 3
  SendRoom = 1
INVARIANTS RequestsAreWhole
CHECK_DEADLOCK FALSE
