SPECIFICATION Spec
CONSTANTS
  Loop = {l1, l2}
  File = {f}
  Body <- MCBody
  Ranges <- MCRange
  NoRange = NoRange
  OddRange = OddRange
  MaxStarts = 2
INVARIANTS TypeOK UploadIsStored DownloadIsWhole
PROPERTY SettledIsNeverOverwritten
CHECK_DEADLOCK FALSE
