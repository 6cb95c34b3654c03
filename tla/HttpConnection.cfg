SPECIFICATION FairSpec
CONSTANTS
  a = a
  b = b
  nul = nul
  Zero = nul
  kPrePendIndex = 1
  Byte <- MCByte
  Request <- MCRequest
  HeapFlag <- MCZeroed
  MaxRequests = 2
  ResponseSize = 3
  SendRoom = 1
INVARIANTS TypeOK RequestsAreWhole AnswersInOrder OutputIsWatched
PROPERTIES EveryRequestAnswered AnswersArrive LoopRests
CHECK_DEADLOCK FALSE
