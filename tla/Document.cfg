SPECIFICATION Spec
CONSTANTS
  p1 = p1
  s1 = s1
  s2 = s2
  s3 = s3
  ShapeIds <- MCShapeIds
  Points <- MCPoints
  Labels = {"cat"}
  LabelFiles <- MCLabelFiles
  Modes = {"Polygon", "Polyline"}
  MaxCommands = 5
  MaxPoints = 2
INVARIANTS
  TypeOK
  HistoryInv
PROPERTY
  LinearUndo
CHECK_DEADLOCK FALSE
