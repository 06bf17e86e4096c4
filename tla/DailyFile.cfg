SPECIFICATION Spec
CONSTANTS
  DayLen = 2
  RotationTick = 0
  MaxFiles = {0, 2}
  MaxTime = 7
  MaxMsgs = 4
INVARIANTS
  FileIsOpen
  FilesInOrder
  OwnDay
PROPERTY
  NewestKept
CHECK_DEADLOCK FALSE
