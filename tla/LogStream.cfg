SPECIFICATION Spec
CONSTANTS
  Size = 19
  NumSize = 4
  MaxInt = 120
  MaxPieces = 3
  MaxSecond = 2
INVARIANTS TypeOK ShortLinesAreWhole
CHECK_DEADLOCK FALSE
