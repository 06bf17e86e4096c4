SPECIFICATION Spec
CONSTANTS
  W = 11
  H = 10
  SenseDis = 8
  Mouse <- MouseGrid
  Vertices = 3
  MaxVertices = 4
  MaxMoves = 2
INVARIANTS
  VertexNotItsEdge
  EdgeHitIsNear
  TwoVertices
PROPERTY
  LeavesAtTwoEdges
CHECK_DEADLOCK FALSE
