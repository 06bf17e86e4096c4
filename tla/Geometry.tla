------------------------------ MODULE Geometry ------------------------------
(***************************************************************************)
(* The geometry of the canvas: the map between canvas and image, the edge  *)
(* of the image (CanvasBase), and the hit tests of a shape (shape.cc).     *)
(*                                                                         *)
(* A point is <<x, y>>.  The code computes with floating point numbers;    *)
(* here the unit is a sixth of a pixel, in which every constant of the     *)
(* code is a whole number, and a quotient is compared by its numerator.    *)
(***************************************************************************)
EXTENDS Integers, Sequences, FiniteSets

CONSTANTS
  W, H,       \* size of the image, in pixels
  SenseDis    \* m_senseDis, in units

ASSUME GeometryAssumption ==
  W \in Nat \ {0} /\ H \in Nat \ {0} /\ SenseDis \in Nat

Pixel == 6
LineWidth == 2 * Pixel           \* m_penLineWidth
Edge == (2 * LineWidth) \div 3   \* the edge of bindImgEdge
Close == (5 * LineWidth) \div 3  \* the offset of isCloseToEdge

Abs(n) == IF n < 0 THEN -n ELSE n

Plus(p, q) == <<p[1] + q[1], p[2] + q[2]>>
Minus(p, q) == <<p[1] - q[1], p[2] - q[2]>>
Dot(p, q) == p[1] * q[1] + p[2] * q[2]
ManhattanLength(p) == Abs(p[1]) + Abs(p[2])

-----------------------------------------------------------------------------
(* CanvasBase.                                                             *)

\* Half of the size, as integers: mapToImg and mapFromImg.
HalfSize == <<Pixel * (W \div 2), Pixel * (H \div 2)>>
MapToImg(pt) == Plus(pt, HalfSize)
MapFromImg(pt) == Minus(pt, HalfSize)

BindCoordinate(v, size) ==
  LET low == IF v >= size - Edge THEN size - Edge ELSE v
  IN  IF low <= Edge THEN Edge ELSE low

BindImgEdge(pt) ==
  LET point == MapToImg(pt)
  IN  MapFromImg(<<BindCoordinate(point[1], W * Pixel), BindCoordinate(point[2], H * Pixel)>>)

\* Half of the size, as real numbers: the offset of YPolygonPoints.
ImgPoint(pt) == Plus(pt, <<(W * Pixel) \div 2, (H * Pixel) \div 2>>)

\* Mutant: a vertex beyond the far side is not close.
CloseAlongNear(v, size) == v < Close

CloseAlong(v, size) == v > size - Close \/ v < Close

CloseInX(pt, delta) == CloseAlong(ImgPoint(pt)[1] + delta[1], W * Pixel)
CloseInY(pt, delta) == CloseAlong(ImgPoint(pt)[2] + delta[2], H * Pixel)

\* isCloseToEdge: delta without the axes along which the first vertex that
\* comes close does.
Stopped(pts, delta) ==
  LET close == {i \in DOMAIN pts : CloseInX(pts[i], delta) \/ CloseInY(pts[i], delta)}
      it    == CHOOSE i \in close : \A j \in close : i <= j
  IN  IF close = {} THEN delta
      ELSE <<IF CloseInX(pts[it], delta) THEN 0 ELSE delta[1],
             IF CloseInY(pts[it], delta) THEN 0 ELSE delta[2]>>

\* Shape::move
Moved(pts, delta) == [i \in DOMAIN pts |-> Plus(pts[i], delta)]

-----------------------------------------------------------------------------
(* The hit tests of Shape.  Positions count from 0, as in the code; -1 is  *)
(* none.                                                                   *)

First(positions) ==
  IF positions = {} THEN -1 ELSE CHOOSE i \in positions : \A j \in positions : i <= j

IsPtsHavPt(pts, pt) ==
  First({i \in 0..Len(pts)-1 : ManhattanLength(Minus(pts[i+1], pt)) <= SenseDis})

InCircle(p, c) == Dot(Minus(p, c), Minus(p, c)) <= SenseDis * SenseDis

\* Mutants: an end of the edge in the circle makes a hit; the angle at one end
\* is not tested.
JudgeEnds(p1, p2, c) == InCircle(p1, c) \/ InCircle(p2, c)
JudgeOneAngle(p1, p2, c) ==
  LET n == <<p1[2] - p2[2], p2[1] - p1[1]>>
      dist1 == Dot(Minus(c, p1), n)
  IN  /\ ~InCircle(p1, c) /\ ~InCircle(p2, c)
      /\ dist1 * dist1 <= Dot(n, n) * SenseDis * SenseDis
      /\ Dot(Minus(c, p2), Minus(p1, p2)) > 0

\* judge: the edge crosses the circle around c, both of its ends are outside.
Judge(p1, p2, c) ==
  LET A == p1[2] - p2[2]
      B == p2[1] - p1[1]
      C == p1[1] * p2[2] - p2[1] * p1[2]
      dist1 == A * c[1] + B * c[2] + C
  IN  /\ ~InCircle(p1, c) /\ ~InCircle(p2, c)
      /\ dist1 * dist1 <= (A * A + B * B) * SenseDis * SenseDis
      /\ Dot(Minus(c, p1), Minus(p2, p1)) > 0
      /\ Dot(Minus(c, p2), Minus(p1, p2)) > 0

\* The Manhattan length from pt to its foot on the edge is at most SenseDis.
\* Ends less than a pixel apart (0x00000001) count as one point.
FootIsNear(pt, begin, end) ==
  LET d == Minus(begin, end)
      from == Minus(pt, begin)
      u == Dot(from, d)
  IN  IF Abs(d[1]) < Pixel /\ Abs(d[2]) < Pixel
      THEN ManhattanLength(from) <= SenseDis
      ELSE Abs(from[1] * Dot(d, d) - u * d[1]) + Abs(from[2] * Dot(d, d) - u * d[2])
             <= SenseDis * Dot(d, d)

NextVertex(pts, i) == IF i + 1 < Len(pts) THEN pts[i + 2] ELSE pts[1]

EdgesOf(pts) == IF Len(pts) < 2 THEN {} ELSE 0..Len(pts)-1

\* isEdgeHavPt: where a vertex on the edge at pt is to be inserted.
IsEdgeHavPt(pts, pt) ==
  LET i == First({j \in EdgesOf(pts) :
                    /\ Judge(pts[j+1], NextVertex(pts, j), pt)
                    /\ FootIsNear(pt, pts[j+1], NextVertex(pts, j))})
  IN  IF i = -1 THEN -1 ELSE i + 1

\* insertPoint and updatePoint
InsertPoint(pts, pt, pos) == SubSeq(pts, 1, pos) \o <<pt>> \o SubSeq(pts, pos + 1, Len(pts))
UpdatePoint(pts, pt, pos) == [pts EXCEPT ![pos + 1] = pt]

\* QPolygonF::containsPoint with Qt::WindingFill: the edges that cross the
\* line to the left of the point, upwards and downwards, do not cancel.
Crossing(b, e, pt) ==
  LET lo == IF b[2] < e[2] THEN b ELSE e
      hi == IF b[2] < e[2] THEN e ELSE b
  IN  IF lo[2] # hi[2] /\ pt[2] >= lo[2] /\ pt[2] < hi[2]
         /\ (hi[1] - lo[1]) * (pt[2] - lo[2]) <= (pt[1] - lo[1]) * (hi[2] - lo[2])
      THEN IF b[2] < e[2] THEN 1 ELSE -1
      ELSE 0

IsAreaHavPt(pts, pt) ==
  LET Edges(way) == {i \in 0..Len(pts)-1 : Crossing(pts[i+1], NextVertex(pts, i), pt) = way}
  IN  Cardinality(Edges(1)) # Cardinality(Edges(-1))
=============================================================================
