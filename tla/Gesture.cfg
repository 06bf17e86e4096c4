SPECIFICATION Spec
CONSTANTS
  p1 = p1
  s1 = s1
  s2 = s2
  s3 = s3
  ShapeIds <- TwoShapeIds
  Points <- MCPoints
  Labels = {}
  LabelFiles <- MCLabelFiles
  Shifts <- MCShifts
  Modes = {"Polygon", "Rectangle"}
  MaxCommands = 4
  MaxPoints = 4
  KeysWhileHeld = FALSE
SYMMETRY TwoSymmetry
INVARIANTS
  GrabFollowsButton
  GrabbedVertexExists
  FaultsForWant

  
CHECK_DEADLOCK FALSE
