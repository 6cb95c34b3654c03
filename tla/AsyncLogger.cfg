SPECIFICATION FairSpec
CONSTANTS
  Capacity = 2
  MaxLines = 7
  MaxFile = 2
INVARIANTS TypeOK NoLineLost WrittenInOrder StopFlushesAll
PROPERTIES EventuallyWritten StopReturns
CHECK_DEADLOCK FALSE
