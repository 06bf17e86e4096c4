SPECIFICATION Spec
CONSTANTS
  s1 = s1
  s2 = s2
  ShapeIds <- MCShapeIds
  Points <- MCPoints
  Labels = {"cat"}
  Modes = {"Polygon"}
  Dirs = {"d1", "d2"}
  Bases = {"a", "b"}
  Pictures <- MCPictures
  Width <- MCWidth
  FirstDisks <- MCFirstDisks
  Clicks = {0}
  MaxCommands = 2
  MaxWrites = 1
SYMMETRY Symmetry
PROPERTY
  UnsavedIsAskedFor
CHECK_DEADLOCK FALSE
