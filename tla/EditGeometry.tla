---------------------------- MODULE EditGeometry ----------------------------
(***************************************************************************)
(* A gesture of the mouse on one closed polygon in edit mode, with its     *)
(* geometry: what Canvas2D's mouse handlers do where the module Canvas2D   *)
(* leaves the outcome of the hit tests open.  The polygon is drawn vertex  *)
(* by vertex at first.                                                     *)
(***************************************************************************)
EXTENDS Geometry

CONSTANTS
  Mouse,       \* where the mouse can be, on the canvas
  Vertices,    \* bound: vertices that are drawn
  MaxVertices, \* bound: vertices
  MaxMoves     \* bound: moves with the button down

ASSUME EditGeometryAssumption ==
  /\ Mouse \subseteq Int \X Int
  /\ Vertices \in Nat /\ MaxVertices \in Nat /\ MaxMoves \in Nat

VARIABLES
  pts,    \* the vertices
  grab,   \* what the button holds
  pos,    \* m_insertPoint or m_activePoint, as the gesture uses it
  last,   \* m_lastPressPos for a drag; else history: where the press was
  moves
vars == <<pts, grab, pos, last, moves>>

Init == pts = <<>> /\ grab = "draw" /\ pos = -1 /\ last = <<0, 0>> /\ moves = 0

\* A press in draw mode.  Enter ends the shape; one with two vertices is read
\* from a label file.
Draw ==
  /\ grab = "draw" /\ Len(pts) < Vertices
  /\ \E p \in Mouse : pts' = Append(pts, BindImgEdge(p))
  /\ UNCHANGED <<grab, pos, last, moves>>

Finish ==
  /\ grab = "draw" /\ Len(pts) >= 2
  /\ grab' = "nothing"
  /\ UNCHANGED <<pts, pos, last, moves>>

\* mousePressEvent: an edge before a vertex before the area.
MousePress ==
  /\ grab = "nothing"
  /\ \E p \in Mouse :
       LET pixPos == BindImgEdge(p)
           insert == IsEdgeHavPt(pts, pixPos)
           active == IsPtsHavPt(pts, pixPos)
       IN  /\ CASE insert # -1 -> grab' = "edge" /\ pos' = insert
                [] insert = -1 /\ active # -1 -> grab' = "vertex" /\ pos' = active
                [] OTHER -> /\ IsAreaHavPt(pts, pixPos)
                            /\ grab' = "area" /\ UNCHANGED pos
           /\ last' = pixPos
  /\ UNCHANGED <<pts, moves>>

\* mouseMoveEvent
MouseMove ==
  /\ grab \in {"edge", "vertex", "area"} /\ moves < MaxMoves
  /\ moves' = moves + 1
  /\ \E p \in Mouse :
       LET pixPos == BindImgEdge(p)
       IN  \/ /\ grab = "edge" /\ Len(pts) < MaxVertices
              /\ pts' = InsertPoint(pts, pixPos, pos)
              /\ grab' = "vertex"
              /\ UNCHANGED <<pos, last>>
           \/ /\ grab = "vertex"
              /\ pts' = UpdatePoint(pts, pixPos, pos)
              /\ UNCHANGED <<grab, pos, last>>
           \/ /\ grab = "area"
              /\ pts' = Moved(pts, Stopped(pts, Minus(pixPos, last)))
              /\ last' = pixPos
              /\ UNCHANGED <<grab, pos>>

MouseRelease ==
  /\ grab \in {"edge", "vertex", "area"}
  /\ grab' = "nothing" /\ pos' = -1
  /\ UNCHANGED <<pts, last, moves>>

Next == Draw \/ Finish \/ MousePress \/ MouseMove \/ MouseRelease

Spec == Init /\ [][Next]_vars

-----------------------------------------------------------------------------
(* Properties.                                                             *)

\* Every variable has its type: a position that is held is one at which the
\* next move can insert or update a vertex.
TypeOK ==
  /\ pts \in Seq(Int \X Int)
  /\ grab \in {"draw", "nothing", "edge", "vertex", "area"}
  /\ pos \in -1..Len(pts)
  /\ grab = "edge" => pos \in 1..Len(pts)
  /\ grab = "vertex" => pos \in 0..Len(pts)-1
  /\ last \in Int \X Int
  /\ moves \in 0..MaxMoves

InImage(pt) ==
  LET q == ImgPoint(pt) IN q[1] \in 0..W*Pixel /\ q[2] \in 0..H*Pixel

\* A vertex leaves the image only when a shape is dragged while two of its
\* vertices are close to the image's sides along different axes:
\* isCloseToEdge stops the axis of the first vertex that comes close, and
\* another vertex comes close along the other axis.
LeavesAtTwoEdges ==
  [][\A i \in DOMAIN pts : Len(pts') = Len(pts) /\ InImage(pts[i]) /\ ~InImage(pts'[i]) =>
       LET delta == Minus(last', last)
       IN  /\ grab = "area"
           /\ \E j, k \in DOMAIN pts : j # k /\ CloseInX(pts[j], delta) /\ CloseInY(pts[k], delta)
    ]_vars

\* A vertex that is drawn, inserted or dragged by itself is put into the image.
BoundStays ==
  [][\A i \in DOMAIN pts' : (\A j \in DOMAIN pts : pts'[i] # pts[j]) =>
       grab = "area" \/ InImage(pts'[i])]_vars

\* The ends of the edge that a press grabbed.
Begin == pts[pos]
End == NextVertex(pts, pos - 1)

\* A press near a vertex is not taken for one on an edge that ends there, so
\* the vertex can be grabbed unless another edge passes by.
VertexNotItsEdge ==
  grab = "edge" =>
    \A v \in {Begin, End} : ManhattanLength(Minus(v, last)) > SenseDis

\* An edge that is grabbed has a point, between its ends, no farther from the
\* press than SenseDis along either axis.
EdgeHitIsNear ==
  grab = "edge" =>
    LET d == Minus(End, Begin)
        t == Dot(Minus(last, Begin), d)
        Off(i) == Abs(t * d[i] - (last[i] - Begin[i]) * Dot(d, d))
    IN  t \in 1..Dot(d, d)-1 /\ \A i \in 1..2 : Off(i) <= SenseDis * Dot(d, d)

\* The two edges of a shape with two vertices are the same segment, of which
\* the first is found: the position is one of a vertex that exists, so a
\* Rectangle, which refuses insertPoint, is not asked to update a third one.
TwoVertices == grab = "edge" /\ Len(pts) = 2 => pos = 1
=============================================================================
