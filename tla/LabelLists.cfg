SPECIFICATION Spec
CONSTANTS
  Points = {0}
  Labels = {"cat", "dog"}
  ShapeIds = {s1, s2, s3}
  LabelFiles <- MCLabelFiles
  MaxCommands = 2
  MaxRows = 4
SYMMETRY Symmetric
INVARIANTS
  RowForEachShape
  DialogShapeListed
CHECK_DEADLOCK FALSE
