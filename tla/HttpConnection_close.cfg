SPECIFICATION Spec
CONSTANTS
  a = a
  b = b
  nul = nul
  Zero = nul
  kPrePendIndex = 1
  Byte <- MCByte
  Request <- MCPlainOrClosing
  HeapFlag <- MCZeroed
  MaxRequests = 1
  ResponseSize = 3
  SendRoom = 1
INVARIANTS WrittenBeforeClosed
CHECK_DEADLOCK FALSE
