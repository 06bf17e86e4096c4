SPECIFICATION Spec
CONSTANTS
  p1 = p1
  s1 = s1
  s2 = s2
  s3 = s3
  ShapeIds <- MCShapeIds
  Points <- MCPoints
  Labels = {}
  LabelFiles <- MCLabelFiles
  Shifts <- MCShifts
  Modes = {"Rectangle"}
  MaxCommands = 6
  MaxPoints = 3
  KeysWhileHeld = TRUE
SYMMETRY Symmetry
INVARIANT
  CommandFindsItsShape
PROPERTIES
  PressExtendsNewest
  ReleaseEndsAll
  FinishedWithTwo
CHECK_DEADLOCK FALSE
