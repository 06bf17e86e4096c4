--------------------------- MODULE GeometryProofs ---------------------------
(***************************************************************************)
(* Theorems about EditGeometry, for every size of the image, every place   *)
(* of the mouse and every number of vertices, and about View, for every    *)
(* size of the image and of the view and every number of zooms.            *)
(***************************************************************************)
EXTENDS EditGeometry, View, SequenceTheorems, WellFoundedInduction, TLAPS

Coordinates == Int \X Int

-----------------------------------------------------------------------------
(* Numbers.                                                                *)

\* First, which find_if and the loops of the hit tests compute, finds the first
\* of the positions that are there.
LEMMA FirstThere ==
  ASSUME NEW S, S \subseteq Nat, S # {}
  PROVE  First(S) \in S /\ \A j \in S : First(S) <= j
<1> DEFINE R == {ss \in Nat \X Nat : ss[1] < ss[2]}
<1>1. IsWellFoundedOn(R, Nat)
  BY NatLessThanWellFounded DEF OpToRel
<1>2. PICK i \in S : \A j \in S : ~(<<j, i>> \in R)
  <2> HIDE DEF R
  <2> QED BY <1>1, WFMin, Zenon
<1>3. ASSUME NEW j \in S PROVE i <= j
  <2>1. ~(<<j, i>> \in R)
    BY <1>2
  <2> QED BY <2>1
<1> QED BY <1>3, Zenon DEF First

\* No vertex or edge is near: the position is -1.
LEMMA FirstNone == First({}) = -1
BY DEF First

\* The constants of the code in units.
LEMMA Constants == Pixel = 6 /\ LineWidth = 12 /\ Edge = 8 /\ Close = 20
BY DEF Pixel, LineWidth, Edge, Close

\* Sums and differences of coordinates are coordinates.
LEMMA PlusType ==
  ASSUME NEW p \in Coordinates, NEW q \in Coordinates
  PROVE  Plus(p, q) \in Coordinates /\ Minus(p, q) \in Coordinates
BY DEF Plus, Minus, Coordinates

-----------------------------------------------------------------------------
(* bindImgEdge.                                                            *)

\* bindImgEdge returns a point.
LEMMA BindType ==
  ASSUME NEW pt \in Coordinates
  PROVE  BindImgEdge(pt) \in Coordinates
<1>1. W \in Int /\ H \in Int /\ W \div 2 \in Int /\ H \div 2 \in Int
  BY GeometryAssumption
<1>2. HalfSize \in Coordinates
  BY <1>1, Constants DEF HalfSize, Coordinates
<1>3. MapToImg(pt) \in Coordinates
  BY <1>2, PlusType DEF MapToImg
<1>4. \A v \in Int, size \in Int : BindCoordinate(v, size) \in Int
  BY Constants DEF BindCoordinate
<1>5. <<BindCoordinate(MapToImg(pt)[1], W * Pixel), BindCoordinate(MapToImg(pt)[2], H * Pixel)>>
        \in Coordinates
  BY <1>1, <1>3, <1>4, Constants DEF Coordinates
<1> QED BY <1>2, <1>5, PlusType DEF BindImgEdge, MapFromImg

\* bindImgEdge puts every point into an image of at least two pixels each way.
LEMMA BindInImage ==
  ASSUME W >= 2, H >= 2, NEW pt \in Coordinates
  PROVE  InImage(BindImgEdge(pt))
<1>1. W \in Int /\ H \in Int
  BY GeometryAssumption
<1> DEFINE p == MapToImg(pt)
           w == W \div 2
           h == H \div 2
           x == BindCoordinate(p[1], W * Pixel)
           y == BindCoordinate(p[2], H * Pixel)
<1>2. w \in Int /\ h \in Int /\ 2 * w <= W /\ W <= 2 * w + 1 /\ 2 * h <= H /\ H <= 2 * h + 1
  BY <1>1
<1>3. HalfSize = <<6 * w, 6 * h>>
  BY Constants DEF HalfSize
<1>4. p \in Coordinates
  BY <1>2, <1>3, PlusType DEF MapToImg, Coordinates
<1>5. \A v \in Int, size \in Int :
        size >= 12 => BindCoordinate(v, size) \in 8..size - 4
  BY Constants DEF BindCoordinate
<1>6. W * Pixel = 6 * W /\ H * Pixel = 6 * H
  BY <1>1, Constants
<1>7. x \in 8..6 * W - 4 /\ y \in 8..6 * H - 4
  BY <1>1, <1>4, <1>5, <1>6 DEF Coordinates
<1> HIDE DEF w, h, x, y
<1>8. BindImgEdge(pt) = <<x - 6 * w, y - 6 * h>>
  BY <1>3 DEF BindImgEdge, MapFromImg, Minus, x, y
<1>9. (W * Pixel) \div 2 = 3 * W /\ (H * Pixel) \div 2 = 3 * H
  BY <1>1, <1>6
<1>10. ImgPoint(BindImgEdge(pt)) = <<x - 6 * w + 3 * W, y - 6 * h + 3 * H>>
  BY <1>8, <1>9 DEF ImgPoint, Plus
<1> QED BY <1>1, <1>2, <1>6, <1>7, <1>10 DEF InImage

-----------------------------------------------------------------------------
(* The hit tests.                                                          *)

\* isPtsHavPt returns none or a vertex.
LEMMA VertexThere ==
  ASSUME NEW ps \in Seq(Coordinates), NEW pt \in Coordinates
  PROVE  IsPtsHavPt(ps, pt) \in -1..Len(ps)-1
<1> DEFINE S == {i \in 0..Len(ps)-1 : ManhattanLength(Minus(ps[i+1], pt)) <= SenseDis}
<1>1. Len(ps) \in Nat /\ S \subseteq 0..Len(ps)-1
  OBVIOUS
<1>2. IsPtsHavPt(ps, pt) = First(S)
  BY DEF IsPtsHavPt
<1> HIDE DEF S
<1>3. CASE S = {}
  BY <1>1, <1>2, <1>3, FirstNone
<1>4. CASE S # {}
  <2>1. S \subseteq Nat
    BY <1>1
  <2>2. First(S) \in S
    BY <2>1, <1>4, FirstThere, Zenon
  <2>3. First(S) \in 0..Len(ps)-1
    BY <2>2, <1>1, Zenon
  <2> QED BY <2>3, <1>1, <1>2
<1> QED BY <1>3, <1>4

\* The circle of judge holds the diamond of isPtsHavPt.
LEMMA OutsideIsFar ==
  ASSUME NEW p \in Coordinates, NEW c \in Coordinates, ~InCircle(p, c)
  PROVE  ManhattanLength(Minus(p, c)) > SenseDis
<1>1. SenseDis \in Nat
  BY GeometryAssumption
<1> DEFINE a == Abs(p[1] - c[1])
           b == Abs(p[2] - c[2])
<1>2. a \in Nat /\ b \in Nat
  BY DEF Abs, Coordinates
<1>3. \A n \in Int : n * n = Abs(n) * Abs(n)
  BY DEF Abs
<1>4. ManhattanLength(Minus(p, c)) = a + b
  BY DEF ManhattanLength, Minus
<1>5. Dot(Minus(p, c), Minus(p, c)) = a * a + b * b
  BY <1>3 DEF Dot, Minus, Coordinates
<1> HIDE DEF a, b
<1>6. ~(a * a + b * b <= SenseDis * SenseDis)
  BY <1>5 DEF InCircle
<1>7. ASSUME a + b <= SenseDis PROVE FALSE
  <2>1. (a + b) * (a + b) <= SenseDis * SenseDis
    BY <1>1, <1>2, <1>7
  <2>2. (a + b) * (a + b) = a * a + b * b + 2 * (a * b) /\ a * b >= 0
    BY <1>2
  <2> QED BY <1>1, <1>2, <1>6, <2>1, <2>2
<1> QED BY <1>1, <1>2, <1>4, <1>7

\* The foot on an edge is the same from either of its ends: d is the edge, from
\* leads from its begin to the point.
LEMMA FootFromEnd ==
  ASSUME NEW x \in Int, NEW y \in Int, NEW fx \in Int, NEW fy \in Int
  PROVE  LET D == x * x + y * y
             u == fx * x + fy * y
             v == (fx + x) * (-x) + (fy + y) * (-y)
         IN  /\ (-x) * (-x) + (-y) * (-y) = D
             /\ (fx + x) * D - v * (-x) = fx * D - u * x
             /\ (fy + y) * D - v * (-y) = fy * D - u * y
<1> DEFINE D == x * x + y * y
           u == fx * x + fy * y
<1>1. D \in Int /\ u \in Int
  OBVIOUS
<1>2. (-x) * (-x) = x * x /\ (-y) * (-y) = y * y
  OBVIOUS
<1>3. (fx + x) * (-x) + (fy + y) * (-y) = -(u + D)
  OBVIOUS
<1> HIDE DEF D, u
<1>4. \A z \in Int : (-(u + D)) * (-z) = u * z + D * z
  BY <1>1
<1>5. \A f, z \in Int : (f + z) * D = f * D + D * z
  BY <1>1
<1>6. \A f, z \in Int : (f + z) * D - (-(u + D)) * (-z) = f * D - u * z
  <2> TAKE f, z \in Int
  <2>1. /\ (f + z) * D = f * D + D * z /\ (-(u + D)) * (-z) = u * z + D * z
        /\ f * D \in Int /\ D * z \in Int /\ u * z \in Int
    BY <1>1, <1>4, <1>5
  <2> QED BY <2>1
<1> QED BY <1>2, <1>3, <1>6 DEF D, u

\* judge and the foot accept an edge from either of its ends.  Ends less than a
\* pixel apart are never accepted.
LEMMA EdgeFromEnd ==
  ASSUME NEW b \in Coordinates, NEW e \in Coordinates, NEW pt \in Coordinates,
         Judge(b, e, pt), FootIsNear(pt, b, e)
  PROVE  /\ Judge(e, b, pt) /\ FootIsNear(pt, e, b)
         /\ ~(Abs(b[1] - e[1]) < Pixel /\ Abs(b[2] - e[2]) < Pixel)
<1> DEFINE x == b[1] - e[1]
           y == b[2] - e[2]
           fx == pt[1] - b[1]
           fy == pt[2] - b[2]
           D == x * x + y * y
<1>0. /\ b[1] \in Int /\ b[2] \in Int /\ e[1] \in Int /\ e[2] \in Int
      /\ pt[1] \in Int /\ pt[2] \in Int
      /\ x \in Int /\ y \in Int /\ fx \in Int /\ fy \in Int /\ SenseDis \in Nat
  BY GeometryAssumption DEF Coordinates
<1>1. ~(Abs(x) < Pixel /\ Abs(y) < Pixel)
  <2>1. ManhattanLength(Minus(b, pt)) > SenseDis
    BY OutsideIsFar DEF Judge
  <2>2. ManhattanLength(Minus(pt, b)) = ManhattanLength(Minus(b, pt))
    BY <1>0 DEF ManhattanLength, Minus, Abs
  <2>3. ManhattanLength(Minus(b, pt)) \in Int
    BY <1>0 DEF ManhattanLength, Minus, Abs
  <2> SUFFICES ASSUME Abs(x) < Pixel /\ Abs(y) < Pixel PROVE FALSE
    OBVIOUS
  <2>4. ManhattanLength(Minus(pt, b)) <= SenseDis
    BY DEF FootIsNear, Minus
  <2> QED BY <1>0, <2>1, <2>2, <2>3, <2>4
<1>2. FootIsNear(pt, e, b)
  <2>1. e[1] - b[1] = -x /\ e[2] - b[2] = -y /\ pt[1] - e[1] = fx + x /\ pt[2] - e[2] = fy + y
    BY <1>0
  <2>2. Abs(-x) = Abs(x) /\ Abs(-y) = Abs(y)
    BY <1>0 DEF Abs
  <2>3. Abs(fx * D - (fx * x + fy * y) * x) + Abs(fy * D - (fx * x + fy * y) * y)
          <= SenseDis * D
    BY <1>1, Zenon DEF FootIsNear, Minus, Dot
  <2> DEFINE v == (fx + x) * (-x) + (fy + y) * (-y)
  <2>4. /\ (-x) * (-x) + (-y) * (-y) = D
        /\ (fx + x) * D - v * (-x) = fx * D - (fx * x + fy * y) * x
        /\ (fy + y) * D - v * (-y) = fy * D - (fx * x + fy * y) * y
    <3> HIDE DEF x, y, fx, fy
    <3> QED BY <1>0, FootFromEnd
  <2>5. Abs((fx + x) * D - v * (-x)) + Abs((fy + y) * D - v * (-y)) <= SenseDis * D
    <3> HIDE DEF x, y, fx, fy, D, v
    <3> QED BY <2>3, <2>4, Zenon
  <2>6. ~(Abs(e[1] - b[1]) < Pixel /\ Abs(e[2] - b[2]) < Pixel)
    <3> HIDE DEF x, y
    <3> QED BY <1>1, <2>1, <2>2, Zenon
  <2> DEFINE gx == pt[1] - e[1]
             gy == pt[2] - e[2]
             dx == e[1] - b[1]
             dy == e[2] - b[2]
             u == gx * dx + gy * dy
             E == dx * dx + dy * dy
  <2>7. Abs(gx * E - u * dx) + Abs(gy * E - u * dy) <= SenseDis * E
    <3>1. gx = fx + x /\ gy = fy + y /\ dx = -x /\ dy = -y
      BY <2>1
    <3> HIDE DEF x, y, fx, fy, gx, gy, dx, dy
    <3>2. E = D /\ u = v
      BY <2>4, <3>1
    <3> HIDE DEF D, E, u, v
    <3> QED BY <2>5, <3>1, <3>2, Zenon
  <2> QED BY <2>6, <2>7, Zenon DEF FootIsNear, Minus, Dot
<1>3. Judge(e, b, pt)
  <2> DEFINE A == b[2] - e[2]
             B == e[1] - b[1]
             C == b[1] * e[2] - e[1] * b[2]
             dist == A * pt[1] + B * pt[2] + C
  <2>1. A \in Int /\ B \in Int /\ C \in Int /\ dist \in Int
    BY <1>0
  <2>2. /\ e[2] - b[2] = -A /\ b[1] - e[1] = -B /\ e[1] * b[2] - b[1] * e[2] = -C
    BY <1>0
  <2>3. dist * dist <= (A * A + B * B) * SenseDis * SenseDis
    BY Zenon DEF Judge
  <2> HIDE DEF A, B, C
  <2>4. (-A) * pt[1] + (-B) * pt[2] + (-C) = -dist
    BY <1>0, <2>1
  <2> HIDE DEF dist
  <2>5. (-dist) * (-dist) = dist * dist /\ (-A) * (-A) = A * A /\ (-B) * (-B) = B * B
    BY <2>1
  <2> QED
    BY <2>2, <2>3, <2>4, <2>5, Zenon DEF Judge
<1> QED
  BY <1>1, <1>2, <1>3

\* isEdgeHavPt returns none or the place behind the begin of the first edge that
\* judge and the foot accept.
LEMMA EdgeThere ==
  ASSUME NEW ps \in Seq(Coordinates), NEW pt \in Coordinates, NEW n, n = IsEdgeHavPt(ps, pt)
  PROVE  \/ n = -1
         \/ /\ n \in 1..Len(ps)
            /\ Judge(ps[n], NextVertex(ps, n - 1), pt)
            /\ FootIsNear(pt, ps[n], NextVertex(ps, n - 1))
            /\ \A m \in 1..n-1 : ~(/\ Judge(ps[m], NextVertex(ps, m - 1), pt)
                                   /\ FootIsNear(pt, ps[m], NextVertex(ps, m - 1)))
<1> DEFINE Hit(j) == /\ Judge(ps[j+1], NextVertex(ps, j), pt)
                     /\ FootIsNear(pt, ps[j+1], NextVertex(ps, j))
           S == {j \in EdgesOf(ps) : Hit(j)}
           i == First(S)
<1>1. Len(ps) \in Nat /\ S \subseteq 0..Len(ps)-1 /\ (S # {} => EdgesOf(ps) = 0..Len(ps)-1)
  BY DEF EdgesOf
<1>2. n = IF i = -1 THEN -1 ELSE i + 1
  BY DEF IsEdgeHavPt
<1>3. CASE S = {}
  BY <1>2, <1>3, FirstNone, Zenon
<1>4. CASE S # {}
  <2>1. S \subseteq Nat
    BY <1>1
  <2>2. i \in S /\ \A j \in S : i <= j
    <3> HIDE DEF S
    <3> QED BY <2>1, <1>4, FirstThere, Zenon
  <2>3. i \in 0..Len(ps)-1 /\ Hit(i) /\ \A j \in 0..Len(ps)-1 : Hit(j) => i <= j
    BY <2>2, <1>1, <1>4
  <2> HIDE DEF S, i, Hit
  <2>4. n = i + 1 /\ i = n - 1 /\ (n - 1) + 1 = n /\ n \in 1..Len(ps)
    BY <1>1, <1>2, <2>3
  <2>5. ASSUME NEW m \in 1..n-1 PROVE ~Hit(m - 1) /\ (m - 1) + 1 = m
    BY <1>1, <2>3, <2>4
  <2> QED BY <2>3, <2>4, <2>5 DEF Hit
<1> QED BY <1>3, <1>4

-----------------------------------------------------------------------------
(* The inductive invariant: the types, and that the edge which is held was *)
(* accepted by judge and the foot, the first of two.                       *)

EdgeJudged == grab = "edge" => Judge(Begin, End, last) /\ FootIsNear(last, Begin, End)

Inv == TypeOK /\ EdgeJudged /\ TwoVertices

\* The invariant before the first press.
LEMMA InitInv == Init => Inv
<1> SUFFICES ASSUME Init PROVE Inv
  OBVIOUS
<1>1. pts \in Seq(Int \X Int) /\ Len(pts) = 0 /\ moves \in 0..MaxMoves
  BY EditGeometryAssumption DEF Init
<1> QED BY <1>1 DEF Init, Inv, TypeOK, EdgeJudged, TwoVertices

\* Drawing a vertex keeps the invariant.
LEMMA DrawInv == Inv /\ Draw => Inv'
<1> SUFFICES ASSUME Inv, Draw PROVE Inv'
  OBVIOUS
<1>1. PICK p \in Mouse : pts' = Append(pts, BindImgEdge(p))
  BY DEF Draw
<1>2. BindImgEdge(p) \in Int \X Int
  BY BindType, EditGeometryAssumption DEF Coordinates
<1>3. pts' \in Seq(Int \X Int) /\ Len(pts') = Len(pts) + 1 /\ Len(pts) \in Nat
  BY <1>1, <1>2 DEF Inv, TypeOK
<1>4. pos' \in -1..Len(pts')
  BY <1>3 DEF Inv, TypeOK, Draw
<1> QED BY <1>3, <1>4 DEF Inv, TypeOK, EdgeJudged, TwoVertices, Draw

\* mousePressEvent keeps the invariant.
LEMMA PressInv == Inv /\ MousePress => Inv'
<1> SUFFICES ASSUME Inv, MousePress PROVE Inv'
  OBVIOUS
<1>1. PICK p \in Mouse :
        LET pixPos == BindImgEdge(p)
            insert == IsEdgeHavPt(pts, pixPos)
            active == IsPtsHavPt(pts, pixPos)
        IN  /\ CASE insert # -1 -> grab' = "edge" /\ pos' = insert
                 [] insert = -1 /\ active # -1 -> grab' = "vertex" /\ pos' = active
                 [] OTHER -> /\ IsAreaHavPt(pts, pixPos)
                             /\ grab' = "area" /\ UNCHANGED pos
            /\ last' = pixPos
  BY DEF MousePress
<1> DEFINE pt == BindImgEdge(p)
           insert == IsEdgeHavPt(pts, pt)
           active == IsPtsHavPt(pts, pt)
<1>2. pts \in Seq(Coordinates) /\ Len(pts) \in Nat /\ pts' = pts /\ moves' = moves
  BY DEF Inv, TypeOK, MousePress, Coordinates
<1>3. pt \in Coordinates
  BY BindType, EditGeometryAssumption DEF Coordinates
<1>4. \/ insert # -1 /\ grab' = "edge" /\ pos' = insert
      \/ insert = -1 /\ active # -1 /\ grab' = "vertex" /\ pos' = active
      \/ grab' = "area" /\ pos' = pos
  BY <1>1
<1>5. last' = pt
  BY <1>1
<1> HIDE DEF pt, insert, active
<1>6. \/ insert = -1
      \/ /\ insert \in 1..Len(pts)
         /\ Judge(pts[insert], NextVertex(pts, insert - 1), pt)
         /\ FootIsNear(pt, pts[insert], NextVertex(pts, insert - 1))
         /\ \A m \in 1..insert-1 : ~(/\ Judge(pts[m], NextVertex(pts, m - 1), pt)
                                     /\ FootIsNear(pt, pts[m], NextVertex(pts, m - 1)))
  BY <1>2, <1>3, EdgeThere, Zenon DEF insert
<1>7. active \in -1..Len(pts)-1
  BY <1>2, <1>3, VertexThere DEF active
<1>8. TypeOK'
  <2>1. /\ grab' \in {"edge", "vertex", "area"}
        /\ pos' \in -1..Len(pts)
        /\ grab' = "edge" => pos' \in 1..Len(pts)
        /\ grab' = "vertex" => pos' \in 0..Len(pts)-1
    <3>1. CASE insert # -1 /\ grab' = "edge" /\ pos' = insert
      BY <1>2, <1>6, <3>1
    <3>2. CASE active # -1 /\ grab' = "vertex" /\ pos' = active
      BY <1>2, <1>7, <3>2
    <3>3. CASE grab' = "area" /\ pos' = pos
      BY <3>3 DEF Inv, TypeOK
    <3> QED BY <1>4, <3>1, <3>2, <3>3
  <2> QED BY <1>2, <1>3, <1>5, <2>1 DEF Inv, TypeOK, Coordinates
<1>9. EdgeJudged'
  BY <1>2, <1>4, <1>5, <1>6 DEF EdgeJudged, Begin, End
<1>10. ASSUME insert # -1, Len(pts) = 2 PROVE insert = 1
  <2>1. /\ pts[1] \in Coordinates /\ pts[2] \in Coordinates
        /\ NextVertex(pts, 1 - 1) = pts[2] /\ NextVertex(pts, 2 - 1) = pts[1]
    BY <1>2, <1>10 DEF NextVertex
  <2>2. CASE insert = 2
    <3>1. Judge(pts[2], pts[1], pt) /\ FootIsNear(pt, pts[2], pts[1])
      BY <1>6, <1>10, <2>1, <2>2
    <3>2. Judge(pts[1], pts[2], pt) /\ FootIsNear(pt, pts[1], pts[2])
      BY <1>3, <2>1, <3>1, EdgeFromEnd, Zenon
    <3>3. 1 \in 1..insert-1
      BY <2>2
    <3> QED BY <1>6, <1>10, <2>1, <3>2, <3>3, Zenon
  <2>3. insert \in 1..2
    BY <1>6, <1>10
  <2> QED BY <2>2, <2>3
<1>11. TwoVertices'
  BY <1>2, <1>4, <1>10 DEF TwoVertices
<1> QED BY <1>8, <1>9, <1>11 DEF Inv

\* insertPoint makes one vertex more, and the new one is where it was put.
LEMMA InsertPointType ==
  ASSUME NEW ps \in Seq(Coordinates), NEW pt \in Coordinates, NEW n \in 1..Len(ps)
  PROVE  /\ InsertPoint(ps, pt, n) \in Seq(Coordinates)
         /\ Len(InsertPoint(ps, pt, n)) = Len(ps) + 1
         /\ \A i \in 1..Len(ps)+1 : InsertPoint(ps, pt, n)[i] \in {pt} \cup {ps[j] : j \in DOMAIN ps}
<1> DEFINE a == SubSeq(ps, 1, n)
           b == SubSeq(ps, n + 1, Len(ps))
<1>1. Len(ps) \in Nat
  OBVIOUS
<1>2. a \in Seq(Coordinates) /\ Len(a) = n /\ \A i \in 1..n : a[i] = ps[i]
  BY <1>1
<1>3. b \in Seq(Coordinates) /\ Len(b) = Len(ps) - n /\ \A i \in 1..Len(ps)-n : b[i] = ps[n + i]
  BY <1>1
<1>4. InsertPoint(ps, pt, n) = a \o <<pt>> \o b
  BY DEF InsertPoint
<1> HIDE DEF a, b
<1> DEFINE c == a \o <<pt>>
<1>5. c \in Seq(Coordinates) /\ Len(c) = n + 1 /\ (\A i \in 1..n : c[i] = ps[i]) /\ c[n + 1] = pt
  BY <1>1, <1>2
<1> HIDE DEF c
<1>6. /\ c \o b \in Seq(Coordinates) /\ Len(c \o b) = Len(ps) + 1
      /\ \A i \in 1..n+1 : (c \o b)[i] = c[i]
      /\ \A i \in n+2..Len(ps)+1 : (c \o b)[i] = b[i - (n + 1)]
  <2>1. c \o b \in Seq(Coordinates) /\ Len(c \o b) = Len(c) + Len(b)
    BY <1>3, <1>5, ConcatProperties, Zenon
  <2>2. \A i \in 1..Len(c)+Len(b) : (c \o b)[i] = IF i <= Len(c) THEN c[i] ELSE b[i - Len(c)]
    BY <1>3, <1>5
  <2>3. n \in Nat /\ n <= Len(ps) /\ Len(c) = n + 1 /\ Len(b) = Len(ps) - n
    BY <1>1, <1>3, <1>5
  <2>4. Len(c) + Len(b) = Len(ps) + 1
    BY <1>1, <2>3
  <2> HIDE DEF c
  <2>5. ASSUME NEW i \in 1..n+1 PROVE (c \o b)[i] = c[i]
    BY <1>1, <2>2, <2>3, <2>4
  <2>6. ASSUME NEW i \in n+2..Len(ps)+1 PROVE (c \o b)[i] = b[i - (n + 1)]
    BY <1>1, <2>2, <2>3, <2>4
  <2> QED BY <2>1, <2>4, <2>5, <2>6
<1>7. InsertPoint(ps, pt, n) = c \o b
  BY <1>4 DEF c
<1>8. ASSUME NEW i \in 1..Len(ps)+1
      PROVE  (c \o b)[i] \in {pt} \cup {ps[j] : j \in DOMAIN ps}
  <2>1. CASE i \in 1..n
    <3>1. (c \o b)[i] = ps[i] /\ i \in DOMAIN ps
      BY <1>1, <1>5, <1>6, <2>1
    <3> QED BY <3>1
  <2>2. CASE i = n + 1
    BY <1>1, <1>5, <1>6, <2>2
  <2>3. CASE i \in n+2..Len(ps)+1
    <3>1. i - (n + 1) \in 1..Len(ps)-n /\ n + (i - (n + 1)) = i - 1 /\ i - 1 \in DOMAIN ps
      BY <1>1, <2>3
    <3>2. (c \o b)[i] = ps[i - 1]
      BY <1>3, <1>6, <2>3, <3>1, Zenon
    <3> QED BY <3>1, <3>2
  <2>4. i \in 1..n \/ i = n + 1 \/ i \in n+2..Len(ps)+1
    BY <1>1
  <2> QED BY <2>1, <2>2, <2>3, <2>4, Zenon
<1> QED BY <1>6, <1>7, <1>8

-----------------------------------------------------------------------------
(* Dragging.                                                               *)

\* What isCloseToEdge leaves of a step: all of it when no vertex comes close,
\* or what lies along the axes that some close vertex, it, does not meet.
LEMMA StoppedCases ==
  ASSUME NEW ps \in Seq(Coordinates), NEW delta \in Coordinates
  PROVE  \/ /\ Stopped(ps, delta) = delta
            /\ \A i \in DOMAIN ps : ~CloseInX(ps[i], delta) /\ ~CloseInY(ps[i], delta)
         \/ \E it \in DOMAIN ps :
              /\ CloseInX(ps[it], delta) \/ CloseInY(ps[it], delta)
              /\ Stopped(ps, delta) = <<IF CloseInX(ps[it], delta) THEN 0 ELSE delta[1],
                                        IF CloseInY(ps[it], delta) THEN 0 ELSE delta[2]>>
<1> DEFINE close == {i \in DOMAIN ps : CloseInX(ps[i], delta) \/ CloseInY(ps[i], delta)}
           it == CHOOSE i \in close : \A j \in close : i <= j
<1>1. CASE close = {}
  BY <1>1 DEF Stopped
<1>2. CASE close # {}
  <2>1. close \subseteq Nat
    OBVIOUS
  <2>2. First(close) = it
    BY <1>2 DEF First
  <2>3. it \in close
    <3> HIDE DEF close, it
    <3>1. First(close) \in close
      BY <1>2, <2>1, FirstThere, Zenon
    <3> QED BY <2>2, <3>1
  <2>4. Stopped(ps, delta) = <<IF CloseInX(ps[it], delta) THEN 0 ELSE delta[1],
                               IF CloseInY(ps[it], delta) THEN 0 ELSE delta[2]>>
    BY <1>2 DEF Stopped
  <2>5. it \in DOMAIN ps /\ (CloseInX(ps[it], delta) \/ CloseInY(ps[it], delta))
    BY <2>3
  <2> HIDE DEF it
  <2> QED BY <2>4, <2>5
<1> QED BY <1>1, <1>2

\* A move that is stopped at the edge of the image is still a move.
LEMMA StoppedType ==
  ASSUME NEW ps \in Seq(Coordinates), NEW delta \in Coordinates
  PROVE  Stopped(ps, delta) \in Coordinates
<1>1. \A a \in {0, delta[1]}, b \in {0, delta[2]} : <<a, b>> \in Coordinates
  BY DEF Coordinates
<1>2. delta = <<delta[1], delta[2]>>
  BY DEF Coordinates
<1> QED BY <1>1, <1>2, StoppedCases, Zenon

\* Moving a shape moves each of its vertices.
LEMMA MovedType ==
  ASSUME NEW ps \in Seq(Coordinates), NEW delta \in Coordinates
  PROVE  /\ Moved(ps, delta) \in Seq(Coordinates)
         /\ Len(Moved(ps, delta)) = Len(ps)
         /\ \A i \in DOMAIN ps : Moved(ps, delta)[i] = Plus(ps[i], delta)
<1>1. DOMAIN ps = 1..Len(ps) /\ Len(ps) \in Nat
  OBVIOUS
<1>2. \A i \in 1..Len(ps) : Plus(ps[i], delta) \in Coordinates
  BY PlusType
<1>3. Moved(ps, delta) = [i \in 1..Len(ps) |-> Plus(ps[i], delta)]
  BY <1>1 DEF Moved
<1> QED BY <1>1, <1>2, <1>3

\* A coordinate outside of the image is close to a side.
LEMMA OutsideIsClose ==
  ASSUME NEW v \in Int, NEW size \in Int, ~CloseAlong(v, size)
  PROVE  v \in 0..size
BY Constants DEF CloseAlong

\* The point that is dragged, in the image's coordinates.
LEMMA ImgPointPlus ==
  ASSUME NEW p \in Coordinates, NEW d \in Coordinates
  PROVE  /\ ImgPoint(p) \in Coordinates
         /\ ImgPoint(Plus(p, d)) = Plus(ImgPoint(p), d)
<1>1. W \in Int /\ H \in Int
  BY GeometryAssumption
<1>2. (W * Pixel) \div 2 \in Int /\ (H * Pixel) \div 2 \in Int
  BY <1>1, Constants
<1> QED BY <1>2 DEF ImgPoint, Plus, Coordinates

\* A vertex that a drag takes out of the image comes close along the axis that
\* was not stopped, for a vertex which stopped the other one.
LEMMA DragLeaves ==
  ASSUME NEW ps \in Seq(Coordinates), NEW delta \in Coordinates, NEW i \in DOMAIN ps,
         InImage(ps[i]), ~InImage(Plus(ps[i], Stopped(ps, delta)))
  PROVE  \E j, k \in DOMAIN ps : j # k /\ CloseInX(ps[j], delta) /\ CloseInY(ps[k], delta)
<1> DEFINE s == Stopped(ps, delta)
           q == ImgPoint(ps[i])
           w == W * Pixel
           h == H * Pixel
<1>1. W \in Int /\ H \in Int
  BY GeometryAssumption
<1>2. w \in Int /\ h \in Int
  BY <1>1, Constants
<1>3. s \in Coordinates /\ ps[i] \in Coordinates
  BY StoppedType
<1>4. q \in Coordinates /\ ImgPoint(Plus(ps[i], s)) = Plus(q, s)
  BY <1>3, ImgPointPlus
<1>5. q[1] \in 0..w /\ q[2] \in 0..h
  BY DEF InImage
<1>6. ~(q[1] + s[1] \in 0..w /\ q[2] + s[2] \in 0..h)
  BY <1>4 DEF InImage, Plus
<1>7. q[1] + delta[1] \notin 0..w => CloseInX(ps[i], delta)
  BY <1>2, <1>4, OutsideIsClose DEF CloseInX, Coordinates
<1>8. q[2] + delta[2] \notin 0..h => CloseInY(ps[i], delta)
  BY <1>2, <1>4, OutsideIsClose DEF CloseInY, Coordinates
<1> HIDE DEF s, q, w, h
<1>9. CASE s = delta /\ \A j \in DOMAIN ps : ~CloseInX(ps[j], delta) /\ ~CloseInY(ps[j], delta)
  BY <1>6, <1>7, <1>8, <1>9
<1>10. CASE \E it \in DOMAIN ps :
              /\ CloseInX(ps[it], delta) \/ CloseInY(ps[it], delta)
              /\ s = <<IF CloseInX(ps[it], delta) THEN 0 ELSE delta[1],
                       IF CloseInY(ps[it], delta) THEN 0 ELSE delta[2]>>
  <2>1. PICK it \in DOMAIN ps :
              /\ CloseInX(ps[it], delta) \/ CloseInY(ps[it], delta)
              /\ s = <<IF CloseInX(ps[it], delta) THEN 0 ELSE delta[1],
                       IF CloseInY(ps[it], delta) THEN 0 ELSE delta[2]>>
    BY <1>10
  <2>2. q[1] + 0 = q[1] /\ q[2] + 0 = q[2]
    BY <1>4 DEF Coordinates
  <2>3. CASE CloseInX(ps[it], delta) /\ CloseInY(ps[it], delta)
    BY <1>5, <1>6, <2>1, <2>2, <2>3
  <2>4. CASE CloseInX(ps[it], delta) /\ ~CloseInY(ps[it], delta)
    <3>1. CloseInY(ps[i], delta)
      BY <1>5, <1>6, <1>8, <2>1, <2>2, <2>4
    <3> QED BY <2>4, <3>1
  <2>5. CASE ~CloseInX(ps[it], delta) /\ CloseInY(ps[it], delta)
    <3>1. CloseInX(ps[i], delta)
      BY <1>5, <1>6, <1>7, <2>1, <2>2, <2>5
    <3> QED BY <2>5, <3>1
  <2> QED BY <2>1, <2>3, <2>4, <2>5
<1> QED BY <1>9, <1>10, StoppedCases DEF s

-----------------------------------------------------------------------------
(* What a move does, in the three cases of mouseMoveEvent.                 *)

\* What a move does, by what the button holds.
LEMMA MoveCases ==
  ASSUME Inv, MouseMove
  PROVE  \E pt \in Coordinates :
           /\ pt \in {BindImgEdge(p) : p \in Mouse}
           /\ \/ /\ grab = "edge" /\ pts' = InsertPoint(pts, pt, pos)
                 /\ grab' = "vertex" /\ pos' = pos /\ last' = last
              \/ /\ grab = "vertex" /\ pts' = UpdatePoint(pts, pt, pos)
                 /\ grab' = grab /\ pos' = pos /\ last' = last
              \/ /\ grab = "area" /\ pts' = Moved(pts, Stopped(pts, Minus(pt, last)))
                 /\ last' = pt /\ grab' = grab /\ pos' = pos
<1>1. \A p \in Mouse : BindImgEdge(p) \in Coordinates
  BY BindType, EditGeometryAssumption DEF Coordinates
<1> QED BY <1>1 DEF MouseMove

\* updatePoint changes one vertex.
LEMMA UpdatePointType ==
  ASSUME NEW ps \in Seq(Coordinates), NEW pt \in Coordinates, NEW n \in 0..Len(ps)-1
  PROVE  /\ UpdatePoint(ps, pt, n) \in Seq(Coordinates)
         /\ Len(UpdatePoint(ps, pt, n)) = Len(ps)
         /\ \A i \in DOMAIN ps : UpdatePoint(ps, pt, n)[i] \in {pt, ps[i]}
BY DEF UpdatePoint

\* mouseMoveEvent keeps the invariant.
LEMMA MoveInv == Inv /\ MouseMove => Inv'
<1> SUFFICES ASSUME Inv, MouseMove PROVE Inv'
  OBVIOUS
<1>1. PICK pt \in Coordinates :
        \/ /\ grab = "edge" /\ pts' = InsertPoint(pts, pt, pos)
           /\ grab' = "vertex" /\ pos' = pos /\ last' = last
        \/ /\ grab = "vertex" /\ pts' = UpdatePoint(pts, pt, pos)
           /\ grab' = grab /\ pos' = pos /\ last' = last
        \/ /\ grab = "area" /\ pts' = Moved(pts, Stopped(pts, Minus(pt, last)))
           /\ last' = pt /\ grab' = grab /\ pos' = pos
  BY MoveCases
<1>2. pts \in Seq(Coordinates) /\ Len(pts) \in Nat /\ last \in Coordinates
  BY DEF Inv, TypeOK, Coordinates
<1>3. moves' \in 0..MaxMoves
  BY EditGeometryAssumption DEF MouseMove, Inv, TypeOK
<1>4. CASE grab = "edge"
  <2>1. pos \in 1..Len(pts)
    BY <1>4 DEF Inv, TypeOK
  <2>2. pts' \in Seq(Coordinates) /\ Len(pts') = Len(pts) + 1 /\ grab' = "vertex"
        /\ pos' = pos /\ last' = last
    BY <1>1, <1>2, <1>4, <2>1, InsertPointType
  <2>3. pos' \in 0..Len(pts')-1 /\ pos' \in -1..Len(pts')
    BY <1>2, <2>1, <2>2
  <2> QED BY <1>2, <1>3, <2>2, <2>3 DEF Inv, TypeOK, EdgeJudged, TwoVertices, Coordinates
<1>5. CASE grab = "vertex"
  <2>1. pos \in 0..Len(pts)-1
    BY <1>5 DEF Inv, TypeOK
  <2>2. pts' \in Seq(Coordinates) /\ Len(pts') = Len(pts) /\ grab' = "vertex"
        /\ pos' = pos /\ last' = last
    BY <1>1, <1>2, <1>5, <2>1, UpdatePointType
  <2> QED BY <1>2, <1>3, <2>1, <2>2 DEF Inv, TypeOK, EdgeJudged, TwoVertices, Coordinates
<1>6. CASE grab = "area"
  <2>1. Stopped(pts, Minus(pt, last)) \in Coordinates
    BY <1>2, PlusType, StoppedType
  <2>2. pts' \in Seq(Coordinates) /\ Len(pts') = Len(pts) /\ grab' = "area"
        /\ pos' = pos /\ last' = pt
    BY <1>1, <1>2, <1>6, <2>1, MovedType
  <2> QED BY <1>2, <1>3, <2>2 DEF Inv, TypeOK, EdgeJudged, TwoVertices, Coordinates
<1> QED BY <1>4, <1>5, <1>6 DEF MouseMove

\* Every step keeps the invariant.
LEMMA NextInv == Inv /\ [Next]_vars => Inv'
<1> SUFFICES ASSUME Inv, [Next]_vars PROVE Inv'
  OBVIOUS
<1>1. CASE Draw
  BY <1>1, DrawInv
<1>2. CASE Finish
  BY <1>2 DEF Finish, Inv, TypeOK, EdgeJudged, TwoVertices
<1>3. CASE MousePress
  BY <1>3, PressInv
<1>4. CASE MouseMove
  BY <1>4, MoveInv
<1>5. CASE MouseRelease
  <2>1. Len(pts) \in Nat
    BY DEF Inv, TypeOK
  <2> QED BY <1>5, <2>1 DEF MouseRelease, Inv, TypeOK, EdgeJudged, TwoVertices
<1>6. CASE UNCHANGED vars
  BY <1>6 DEF vars, Inv, TypeOK, EdgeJudged, TwoVertices, Begin, End
<1> QED BY <1>1, <1>2, <1>3, <1>4, <1>5, <1>6 DEF Next

\* The invariant holds throughout.
LEMMA Invariance == Spec => []Inv
BY InitInv, NextInv, PTL DEF Spec

-----------------------------------------------------------------------------
(* The theorems.                                                           *)

\* The position that a press leaves for the moves after it is one at which
\* insertPoint and updatePoint work, for every polygon.
THEOREM PositionsExist == Spec => []TypeOK
<1>1. Inv => TypeOK
  BY DEF Inv
<1> QED BY <1>1, Invariance, PTL

\* A press at a vertex is not taken for one on an edge of that vertex: judge
\* wants both ends outside of a circle that holds what isPtsHavPt accepts.
THEOREM VertexIsNotItsEdge == Spec => []VertexNotItsEdge
<1>1. Inv => VertexNotItsEdge
  <2> SUFFICES ASSUME Inv, grab = "edge", NEW v \in {Begin, End}
               PROVE  ManhattanLength(Minus(v, last)) > SenseDis
    BY DEF VertexNotItsEdge
  <2>1. pts \in Seq(Coordinates) /\ Len(pts) \in Nat /\ last \in Coordinates /\ pos \in 1..Len(pts)
    BY DEF Inv, TypeOK, Coordinates
  <2>2. Begin \in Coordinates
    BY <2>1 DEF Begin
  <2>3. End \in Coordinates
    BY <2>1 DEF End, NextVertex
  <2>4. ~InCircle(Begin, last) /\ ~InCircle(End, last)
    BY DEF Inv, EdgeJudged, Judge
  <2> QED BY <2>1, <2>2, <2>3, <2>4, OutsideIsFar
<1> QED BY <1>1, Invariance, PTL

\* The two edges of a shape with two vertices are the same segment, and the
\* first is the one that a press grabs: judge and the foot do not tell them apart.
THEOREM FirstOfTwoEdges == Spec => []TwoVertices
<1>1. Inv => TwoVertices
  BY DEF Inv
<1> QED BY <1>1, Invariance, PTL

\* An edge that a press grabs has a point, between its ends, no farther from the
\* press than SenseDis along either axis, for every edge and every place of the
\* press: the two tests of isEdgeHavPt together mean what they are meant to.
THEOREM GrabbedEdgeIsNear == Spec => []EdgeHitIsNear
<1>1. Inv => EdgeHitIsNear
  <2> SUFFICES ASSUME Inv, grab = "edge" PROVE EdgeHitIsNear
    BY DEF EdgeHitIsNear
  <2> DEFINE b == Begin
             e == End
             x == e[1] - b[1]
             y == e[2] - b[2]
             fx == last[1] - b[1]
             fy == last[2] - b[2]
             t == fx * x + fy * y
             D == x * x + y * y
  <2>1. pts \in Seq(Coordinates) /\ Len(pts) \in Nat /\ last \in Coordinates /\ pos \in 1..Len(pts)
    BY DEF Inv, TypeOK, Coordinates
  <2>2. b \in Coordinates
    BY <2>1 DEF Begin
  <2>3. e \in Coordinates
    BY <2>1 DEF End, NextVertex
  <2>4. /\ b[1] \in Int /\ b[2] \in Int /\ e[1] \in Int /\ e[2] \in Int
        /\ last[1] \in Int /\ last[2] \in Int
        /\ x \in Int /\ y \in Int /\ fx \in Int /\ fy \in Int /\ SenseDis \in Nat
    BY <2>1, <2>2, <2>3, GeometryAssumption, SMTT(30) DEF Coordinates
  <2>5. Judge(b, e, last) /\ FootIsNear(last, b, e)
    BY DEF Inv, EdgeJudged
  <2> HIDE DEF b, e
  <2>6. ~(Abs(b[1] - e[1]) < Pixel /\ Abs(b[2] - e[2]) < Pixel)
    BY <2>1, <2>2, <2>3, <2>5, EdgeFromEnd, Zenon
  <2>7. t \in 1..D-1
    <3>1. fx * x + fy * y > 0 /\ (last[1] - e[1]) * (b[1] - e[1]) + (last[2] - e[2]) * (b[2] - e[2]) > 0
      BY <2>5, Zenon DEF Judge, Dot, Minus
    <3>2. /\ last[1] - e[1] = fx - x /\ b[1] - e[1] = -x
          /\ last[2] - e[2] = fy - y /\ b[2] - e[2] = -y
      BY <2>4
    <3> HIDE DEF x, y, fx, fy
    <3>3. (fx - x) * (-x) + (fy - y) * (-y) = D - t
      BY <2>4
    <3>4. t \in Int /\ D \in Int
      BY <2>4
    <3>5. D - t > 0 /\ t > 0
      BY <3>1, <3>2, <3>3
    <3> HIDE DEF t, D
    <3> QED BY <3>4, <3>5
  <2> DEFINE dx == b[1] - e[1]
             dy == b[2] - e[2]
             u == fx * dx + fy * dy
             E == dx * dx + dy * dy
  <2>8. Abs(fx * E - u * dx) + Abs(fy * E - u * dy) <= SenseDis * E
    BY <2>5, <2>6, Zenon DEF FootIsNear, Minus, Dot
  <2>9. Abs(t * x - fx * D) + Abs(t * y - fy * D) <= SenseDis * D
    <3>1. dx = -x /\ dy = -y
      BY <2>4
    <3> HIDE DEF x, y, dx, dy, fx, fy
    <3>2. E = D /\ u = -t /\ t \in Int /\ D \in Int
      BY <2>4, <3>1
    <3> HIDE DEF E, D, u, t
    <3>3. u * dx = t * x /\ u * dy = t * y
      BY <2>4, <3>1, <3>2
    <3>4. /\ fx * D \in Int /\ fy * D \in Int /\ t * x \in Int /\ t * y \in Int
      BY <2>4, <3>2
    <3>5. \A m, n \in Int : Abs(m - n) = Abs(n - m)
      BY DEF Abs
    <3>6. /\ Abs(fx * D - t * x) = Abs(t * x - fx * D)
          /\ Abs(fy * D - t * y) = Abs(t * y - fy * D)
      BY <3>4, <3>5
    <3>7. Abs(fx * D - t * x) + Abs(fy * D - t * y) <= SenseDis * D
      BY <2>8, <3>2, <3>3
    <3> QED BY <3>6, <3>7, Zenon
  <2>10. Abs(t * x - fx * D) <= SenseDis * D /\ Abs(t * y - fy * D) <= SenseDis * D
    <3>1. t \in Int /\ D \in Int
      BY <2>4
    <3> DEFINE p == t * x - fx * D
               q == t * y - fy * D
               r == SenseDis * D
    <3>2. p \in Int /\ q \in Int /\ r \in Int
      BY <2>4, <3>1
    <3>3. Abs(p) + Abs(q) <= r
      BY <2>9
    <3> HIDE DEF p, q, r
    <3>4. Abs(p) <= r /\ Abs(q) <= r
      BY <3>2, <3>3 DEF Abs
    <3> QED BY <3>4 DEF p, q, r
  <2> DEFINE d == Minus(End, Begin)
             Off(i) == Abs(t * d[i] - (last[i] - Begin[i]) * D)
  <2>11. d[1] = x /\ d[2] = y /\ Dot(Minus(last, Begin), d) = t /\ Dot(d, d) = D
    BY Zenon DEF Minus, Dot, b, e
  <2>12. Off(1) <= SenseDis * D /\ Off(2) <= SenseDis * D
    <3> HIDE DEF d, D, t
    <3> QED BY <2>10, <2>11, Zenon DEF b
  <2> HIDE DEF D, t
  <2>13. \A i \in 1..2 : Off(i) <= SenseDis * D
    <3> HIDE DEF Off
    <3>1. \A i \in 1..2 : i = 1 \/ i = 2
      OBVIOUS
    <3> QED BY <2>12, <3>1, Zenon
  <2> QED BY <2>7, <2>11, <2>13, Zenon DEF EdgeHitIsNear
<1> QED BY <1>1, Invariance, PTL

\* In an image of at least two pixels each way, a vertex that is drawn,
\* inserted or dragged by itself is put into the image.
THEOREM BoundIsInImage ==
  ASSUME W >= 2, H >= 2
  PROVE  Spec => BoundStays
<1> DEFINE Stays == \A i \in DOMAIN pts' : (\A j \in DOMAIN pts : pts'[i] # pts[j]) =>
                      grab = "area" \/ InImage(pts'[i])
<1>1. Inv /\ [Next]_vars => [Stays]_vars
  <2> SUFFICES ASSUME Inv, Next, NEW i \in DOMAIN pts', \A j \in DOMAIN pts : pts'[i] # pts[j],
                      grab # "area"
               PROVE  InImage(pts'[i])
    BY DEF vars
  <2>1. \A p \in Mouse : InImage(BindImgEdge(p)) /\ BindImgEdge(p) \in Coordinates
    BY BindInImage, BindType, EditGeometryAssumption DEF Coordinates
  <2>2. pts \in Seq(Coordinates) /\ Len(pts) \in Nat
    BY DEF Inv, TypeOK, Coordinates
  <2>3. CASE Draw
    <3>1. PICK p \in Mouse : pts' = Append(pts, BindImgEdge(p))
      BY <2>3 DEF Draw
    <3>2. i \in 1..Len(pts)+1 /\ (i \in DOMAIN pts => pts'[i] = pts[i])
      BY <2>1, <2>2, <3>1
    <3>3. i = Len(pts) + 1
      BY <2>2, <3>2
    <3>4. pts'[i] = BindImgEdge(p)
      BY <2>1, <2>2, <3>1, <3>3
    <3> QED BY <2>1, <3>4
  <2>4. CASE UNCHANGED pts
    BY <2>4
  <2>5. CASE MouseMove
    <3>1. PICK pt \in Coordinates :
            /\ pt \in {BindImgEdge(p) : p \in Mouse}
            /\ \/ grab = "edge" /\ pts' = InsertPoint(pts, pt, pos)
               \/ grab = "vertex" /\ pts' = UpdatePoint(pts, pt, pos)
      BY <2>5, MoveCases
    <3>2. InImage(pt)
      BY <2>1, <3>1
    <3>3. CASE grab = "edge"
      <4>1. pos \in 1..Len(pts)
        BY <3>3 DEF Inv, TypeOK
      <4>2. pts' = InsertPoint(pts, pt, pos)
        BY <3>1, <3>3
      <4>3. pts' \in Seq(Coordinates) /\ Len(pts') = Len(pts) + 1
            /\ \A k \in 1..Len(pts)+1 : pts'[k] \in {pt} \cup {pts[j] : j \in DOMAIN pts}
        BY <2>2, <4>1, <4>2, InsertPointType
      <4>4. pts'[i] = pt
        BY <2>2, <4>3
      <4> QED BY <3>2, <4>4
    <3>4. CASE grab = "vertex"
      <4>1. pos \in 0..Len(pts)-1
        BY <3>4 DEF Inv, TypeOK
      <4>2. pts' = UpdatePoint(pts, pt, pos)
        BY <3>1, <3>4
      <4>3. DOMAIN pts' = DOMAIN pts /\ \A k \in DOMAIN pts : pts'[k] \in {pt, pts[k]}
        BY <4>1, <4>2, <2>2, UpdatePointType DEF UpdatePoint
      <4> QED BY <3>2, <4>3
    <3> QED BY <3>1, <3>3, <3>4
  <2> QED BY <2>3, <2>4, <2>5 DEF Next, Finish, MousePress, MouseRelease
<1> QED BY <1>1, Invariance, PTL DEF Spec, BoundStays

\* In such an image a vertex leaves the image only when the shape is dragged
\* while two of its vertices come close along different axes.
THEOREM LeavesOnlyAtTwoEdges ==
  ASSUME W >= 2, H >= 2
  PROVE  Spec => LeavesAtTwoEdges
<1> DEFINE TwoEdges ==
      \E j, k \in DOMAIN pts : j # k /\ CloseInX(pts[j], Minus(last', last))
                                     /\ CloseInY(pts[k], Minus(last', last))
           Leaves == \A i \in DOMAIN pts :
      Len(pts') = Len(pts) /\ InImage(pts[i]) /\ ~InImage(pts'[i]) => grab = "area" /\ TwoEdges
<1>1. Inv /\ [Next]_vars => [Leaves]_vars
  <2> SUFFICES ASSUME Inv, Next, NEW i \in DOMAIN pts, Len(pts') = Len(pts),
                      InImage(pts[i]), ~InImage(pts'[i])
               PROVE  grab = "area" /\ TwoEdges
    BY DEF vars
  <2>1. pts \in Seq(Coordinates) /\ Len(pts) \in Nat /\ last \in Coordinates
    BY DEF Inv, TypeOK, Coordinates
  <2>2. CASE Draw
    <3>1. PICK p \in Mouse : pts' = Append(pts, BindImgEdge(p))
      BY <2>2 DEF Draw
    <3> QED BY <2>1, <3>1
  <2>3. CASE UNCHANGED pts
    BY <2>3
  <2>4. CASE MouseMove
    <3>1. PICK pt \in Coordinates :
            /\ pt \in {BindImgEdge(p) : p \in Mouse}
            /\ \/ grab = "edge" /\ pts' = InsertPoint(pts, pt, pos)
               \/ grab = "vertex" /\ pts' = UpdatePoint(pts, pt, pos)
               \/ /\ grab = "area" /\ pts' = Moved(pts, Stopped(pts, Minus(pt, last)))
                  /\ last' = pt
      BY <2>4, MoveCases
    <3>2. InImage(pt)
      BY <3>1, BindInImage, EditGeometryAssumption DEF Coordinates
    <3>3. CASE grab = "edge"
      <4>1. pos \in 1..Len(pts)
        BY <3>3 DEF Inv, TypeOK
      <4>2. Len(pts') = Len(pts) + 1
        BY <2>1, <3>1, <3>3, <4>1, InsertPointType
      <4> QED BY <2>1, <4>2
    <3>4. CASE grab = "vertex"
      <4>1. pos \in 0..Len(pts)-1
        BY <3>4 DEF Inv, TypeOK
      <4>2. pts'[i] \in {pt, pts[i]}
        BY <2>1, <3>1, <3>4, <4>1, UpdatePointType
      <4> QED BY <3>2, <4>2
    <3>5. CASE grab = "area"
      <4>1. pts' = Moved(pts, Stopped(pts, Minus(pt, last))) /\ last' = pt
        BY <3>1, <3>5
      <4>2. Minus(pt, last) \in Coordinates
        BY <2>1, PlusType
      <4>3. pts'[i] = Plus(pts[i], Stopped(pts, Minus(pt, last)))
        BY <2>1, <4>1, <4>2, StoppedType, MovedType, Zenon
      <4>4. \E j, k \in DOMAIN pts : j # k /\ CloseInX(pts[j], Minus(pt, last))
                                           /\ CloseInY(pts[k], Minus(pt, last))
        BY <2>1, <4>2, <4>3, DragLeaves, ZenonT(30)
      <4> QED BY <3>5, <4>1, <4>4
    <3> QED BY <3>1, <3>3, <3>4, <3>5
  <2> QED BY <2>2, <2>3, <2>4 DEF Next, Finish, MousePress, MouseRelease
<1>2. [Leaves]_vars <=> [\A i \in DOMAIN pts : Len(pts') = Len(pts) /\ InImage(pts[i]) /\ ~InImage(pts'[i]) =>
       LET delta == Minus(last', last)
       IN  /\ grab = "area"
           /\ \E j, k \in DOMAIN pts : j # k /\ CloseInX(pts[j], delta) /\ CloseInY(pts[k], delta)]_vars
  OBVIOUS
<1> QED BY <1>1, <1>2, Invariance, PTL DEF Spec, LeavesAtTwoEdges

-----------------------------------------------------------------------------
(* The view.                                                               *)

\* The types, and with an image the item is scaled by m_scaleValue.  Without one
\* the two differ: setSize sets m_scaleValue before it fails.
ViewInv ==
  /\ image \in Images \cup {NoImage} /\ view \in Views
  /\ scaleValue \in Nat /\ scale \in Nat /\ itemPos \in Int
  /\ image # NoImage => scale = scaleValue

\* Division of natural numbers.
LEMMA DivNat ==
  ASSUME NEW a \in Nat, NEW b \in Nat \ {0}
  PROVE  a \div b \in Nat
OBVIOUS

\* The scale that fits an image to a view.
LEMMA FitScaleNat ==
  ASSUME NEW size \in Nat \X Nat, NEW img \in (Nat \ {0}) \X (Nat \ {0})
  PROVE  FitScale(size, img) \in Nat
<1> DEFINE u == 98 * (Unit \div 100)
<1>1. Unit \div 100 \in Nat
  BY ViewAssumption
<1>2. u \in Nat
  BY <1>1
<1>3. size[1] \in Nat /\ size[2] \in Nat /\ img[1] \in Nat \ {0} /\ img[2] \in Nat \ {0}
  OBVIOUS
<1> HIDE DEF u
<1>4. u * size[1] \in Nat /\ u * size[2] \in Nat
  BY <1>2, <1>3
<1>5. (u * size[1]) \div img[1] \in Nat /\ (u * size[2]) \div img[2] \in Nat
  BY <1>3, <1>4, DivNat, Zenon
<1> QED
  BY <1>5, Zenon DEF FitScale, u

\* A zoom by a twentieth.
LEMMA Zoomed ==
  ASSUME NEW s \in Nat, NEW t \in {ZoomedIn(s), ZoomedOut(s)}
  PROVE  /\ t \in Nat /\ Step(s) \in Nat
         /\ t # s => t = IF t > s THEN s + Step(s) ELSE s - Step(s)
<1>1. Step(s) \in Nat /\ Step(s) <= s
  BY DEF Step
<1>2. t \in {s, s + Step(s), s - Step(s)}
  BY DEF ZoomedIn, ZoomedOut
<1> QED
  BY <1>1, <1>2

\* A fit scales the item and the value alike.
LEMMA FitInv ==
  ASSUME NEW size \in Views, NEW img \in Images, Fit(size, img)
  PROVE  scaleValue' \in Nat /\ scale' = scaleValue' /\ itemPos' \in Int
<1>1. size \in Nat \X Nat /\ img \in (Nat \ {0}) \X (Nat \ {0}) /\ Centers \subseteq Int
  BY ViewAssumption
<1>2. /\ scaleValue' = FitScale(size, img) /\ scale' = scaleValue' /\ itemPos' \in Centers
  BY DEF Fit
<1> QED
  BY <1>1, <1>2, FitScaleNat

\* Fitting without an image.
LEMMA FitNothingInv ==
  ASSUME ViewInv, FitNothing
  PROVE  scaleValue' \in Nat /\ scale' \in Nat /\ itemPos' \in Int
BY ViewAssumption DEF ViewInv, FitNothing

\* A zoom scales the item and the value alike.
LEMMA ZoomInv ==
  ASSUME ViewInv, NEW s \in {ZoomedIn(scaleValue), ZoomedOut(scaleValue)}, Zoom(s)
  PROVE  s \in Nat /\ scaleValue' = s /\ scale' = s
BY Zoomed DEF ViewInv, Zoom

\* The invariant holds of every step.
LEMMA ViewNextInv == ViewInv /\ [ViewNext]_viewVars => ViewInv'
<1> SUFFICES ASSUME ViewInv, [ViewNext]_viewVars PROVE ViewInv'
  OBVIOUS
<1>1. CASE ZoomMenu
  <2>1. PICK s \in {ZoomedIn(scaleValue), ZoomedOut(scaleValue)} : Zoom(s)
    BY <1>1 DEF ZoomMenu
  <2>2. s \in Nat /\ scaleValue' = s /\ scale' = s
    BY <2>1, ZoomInv
  <2>3. image' = image /\ view' = view /\ itemPos' = itemPos
    BY <1>1 DEF ZoomMenu
  <2> QED
    BY <2>2, <2>3 DEF ViewInv
<1>2. CASE \E p \in Cursor : Wheel(p)
  <2>1. PICK p \in Cursor : Wheel(p)
    BY <1>2
  <2>2. PICK s \in {ZoomedIn(scaleValue), ZoomedOut(scaleValue)} :
          Zoom(s) /\ itemPos' = itemPos + Shift(scaleValue, s, p)
    BY <2>1 DEF Wheel
  <2>3. s \in Nat /\ scaleValue' = s /\ scale' = s
    BY <2>2, ZoomInv
  <2>4. p \in Int /\ Step(scaleValue) \in Nat /\ itemPos \in Int
    BY ViewAssumption, Zoomed DEF ViewInv
  <2>5. p * Step(scaleValue) \in Int
    BY <2>4
  <2>6. itemPos' \in Int
    BY <2>2, <2>4, <2>5 DEF Shift
  <2>7. image' = image /\ view' = view
    BY <2>1 DEF Wheel
  <2> QED
    BY <2>3, <2>6, <2>7 DEF ViewInv
<1>3. CASE Resize
  <2>1. view' \in Views /\ image' = image
    BY <1>3 DEF Resize
  <2>2. CASE image = NoImage
    <3>1. FitNothing
      BY <1>3, <2>2 DEF Resize
    <3> QED
      BY <2>1, <2>2, <3>1, FitNothingInv DEF ViewInv
  <2>3. CASE image # NoImage
    <3>1. Fit(view', image) /\ image \in Images
      BY <1>3, <2>3 DEF Resize, ViewInv
    <3> QED
      BY <2>1, <2>3, <3>1, FitInv DEF ViewInv
  <2> QED
    BY <2>2, <2>3
<1>4. CASE FitMenu
  <2>1. view' = view /\ image' = image
    BY <1>4 DEF FitMenu
  <2>2. CASE image = NoImage
    <3>1. FitNothing
      BY <1>4, <2>2 DEF FitMenu
    <3> QED
      BY <2>1, <2>2, <3>1, FitNothingInv DEF ViewInv
  <2>3. CASE image # NoImage
    <3>1. Fit(view, image) /\ image \in Images /\ view \in Views
      BY <1>4, <2>3 DEF FitMenu, ViewInv
    <3> QED
      BY <2>1, <2>3, <3>1, FitInv DEF ViewInv
  <2> QED
    BY <2>2, <2>3
<1>5. CASE LoadImage
  <2>1. view' = view /\ image' \in Images /\ Fit(view, image') /\ view \in Views
    BY <1>5 DEF LoadImage, ViewInv
  <2> QED
    BY <2>1, FitInv DEF ViewInv
<1>6. CASE Clean
  BY <1>6 DEF Clean, ViewInv
<1>7. CASE UNCHANGED viewVars
  BY <1>7 DEF viewVars, ViewInv
<1> QED
  BY <1>1, <1>2, <1>3, <1>4, <1>5, <1>6, <1>7 DEF ViewNext

\* The wheel keeps the point of an image under the mouse where it is
\* (CanvasBase::wheelEvent): for every image, view, position and unit.
THEOREM ImageAlwaysStaysUnderMouse == ViewSpec => ImageStaysUnderMouse
<1>1. ViewInit => ViewInv
  BY ViewAssumption DEF ViewInit, ViewInv
<1>2. ASSUME ViewInv, NEW p \in Cursor, Wheel(p), image # NoImage
      PROVE  Scene(p)' = Scene(p)
  <2>1. PICK s \in {ZoomedIn(scaleValue), ZoomedOut(scaleValue)} :
          Zoom(s) /\ itemPos' = itemPos + Shift(scaleValue, s, p)
    BY <1>2 DEF Wheel
  <2> DEFINE old == scaleValue
             d == Step(scaleValue)
  <2>2. /\ s \in Nat /\ scale' = s /\ scale = old /\ s # old /\ old \in Nat
        /\ itemPos \in Int /\ p \in Int
    BY <1>2, <2>1, ZoomInv, ViewAssumption DEF ViewInv, Zoom
  <2>3. d \in Nat /\ s = IF s > old THEN old + d ELSE old - d
    BY <2>1, <2>2, Zoomed
  <2>4. itemPos' = itemPos + (IF s > old THEN -(p * d) ELSE p * d)
    BY <2>1 DEF Shift
  <2> HIDE DEF d, old
  <2>5. (old + d) * p = old * p + p * d /\ (old - d) * p = old * p - p * d
    BY <2>2, <2>3
  <2>6. old * p \in Int /\ p * d \in Int
    BY <2>2, <2>3
  <2>7. itemPos' + scale' * p = itemPos + scale * p
    BY <2>2, <2>3, <2>4, <2>5, <2>6
  <2> QED
    BY <2>7 DEF Scene
<1>3. ViewInv /\ [ViewNext]_viewVars =>
        [\A p \in Cursor : Wheel(p) /\ image # NoImage => Scene(p)' = Scene(p)]_viewVars
  BY <1>2
<1>4. ViewInv /\ [ViewNext]_viewVars => ViewInv'
  BY ViewNextInv
<1> QED
  BY <1>1, <1>3, <1>4, PTL DEF ViewSpec, ImageStaysUnderMouse
=============================================================================
