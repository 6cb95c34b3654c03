SPECIFICATION Spec
CONSTANTS
  Capacity = 1
  MaxLines = 4
  MaxFile = 9
INVARIANT ActiveBuffersEmptyAtSwap
CHECK_DEADLOCK FALSE
