------------------------------- MODULE Shape -------------------------------
(***************************************************************************)
(* The annotation shapes: class Shape and its subclasses (annotations/).   *)
(*                                                                         *)
(* A shape is a record.  Its vertices are a sequence of members of Points: *)
(* the two parallel polygons of YPolygonPoints always change together, so  *)
(* one sequence stands for both.  Indices keep the values they have in the *)
(* code (from 0); only an access to a sequence adds 1.                     *)
(*                                                                         *)
(* Left out because no handler branches on them: color, id, m_isActive,    *)
(* m_controlPtActive, line width, point size and the rubber-band point     *)
(* m_disPoit.  label()->m_visible is TRUE in every LabelProperty the       *)
(* program builds, so the test on it is left out as well.                  *)
(***************************************************************************)
EXTENDS Integers, Sequences, FiniteSetsExt

CONSTANTS
  Points,  \* positions on the image a vertex can have
  Labels   \* non-empty label texts

\* The operations of YPolygonPoints and of QList that the code uses, with
\* positions from 1.
RemoveAt(seq, i) == SubSeq(seq, 1, i - 1) \o SubSeq(seq, i + 1, Len(seq))
InsertAt(seq, i, elt) == SubSeq(seq, 1, i - 1) \o <<elt>> \o SubSeq(seq, i, Len(seq))
ReplaceAt(seq, i, elt) == [seq EXCEPT ![i] = elt]
Front(seq) == SubSeq(seq, 1, Len(seq) - 1)
Last(seq) == seq[Len(seq)]

\* draw_mode_e without None, which the draw-mode combo box does not offer.
DrawModes == {"Rectangle", "Line", "Curve", "Polygon", "Polyline"}

NoLabel == "no label"

\* The label openFile gives a shape whose label in the file is empty.
UnknownLabel == "unknonw"

\* Shape::typeToString: "Ploygon" is the spelling of the code, and Polyline
\* falls into the default case.
TypeToString(type) ==
  CASE type = "Polygon"  -> "Ploygon"
    [] type = "Polyline" -> ""
    [] OTHER             -> type

\* A shape name: the text typeToString gives and the number appended to it,
\* where number 0 stands for no number.  The empty text is the name of a
\* shape that was never listed and of the first Polyline.
Names == {TypeToString(type) : type \in DrawModes} \X Nat
EmptyName == <<"", 0>>

ShapeRecords ==
  [type   : DrawModes,
   name   : Names,
   pts    : Seq(Points),
   label  : Labels \cup {NoLabel, UnknownLabel},
   closed : BOOLEAN,
   press  : BOOLEAN,
   drag   : BOOLEAN,
   select : BOOLEAN]

\* ShapeFactory::create and the constructor it runs.
NewShape(type) ==
  [type  |-> type,  name |-> EmptyName, pts |-> <<>>, label |-> NoLabel,
   closed |-> FALSE, press |-> FALSE, drag |-> FALSE, select |-> FALSE]

\* A shape of a label file: its vertices and its label, NoLabel if empty.
FileShapes == [pts : Seq(Points), label : Labels \cup {NoLabel, UnknownLabel}]

\* The object openFile builds for it, of the type of the current draw mode.
LoadedShape(type, f) ==
  [NewShape(type) EXCEPT
     !.pts    = f.pts,
     !.closed = TRUE,
     !.label  = IF f.label = NoLabel THEN UnknownLabel ELSE f.label]

AppendPoint(shape, p) == [shape EXCEPT !.pts = Append(@, p)]

\* Shape::deletePoint: an index past the end is ignored.
DeletePoint(shape, index) ==
  IF index >= Len(shape.pts)
  THEN shape
  ELSE [shape EXCEPT !.pts = RemoveAt(@, index + 1)]

\* Rectangle, Line and Curve override insertPoint with one that does nothing.
Insertable(type) == type \in {"Polygon", "Polyline"}

\* Shape::insertPoint: inside the sequence, at its end, or not at all.
InsertPoint(shape, p, pos) ==
  IF Insertable(shape.type) /\ pos \in 0 .. Len(shape.pts)
  THEN [shape EXCEPT !.pts = InsertAt(@, pos + 1, p)]
  ELSE shape

\* Shape::updatePoint throws when pos is no index of a vertex.  Its one
\* caller catches the exception, which leaves the shape as it was.
UpdatePoint(shape, p, pos) ==
  IF pos \in 0 .. Len(shape.pts) - 1
  THEN [shape EXCEPT !.pts = ReplaceAt(@, pos + 1, p)]
  ELSE shape

\* Shape::move, with the translation given as a map of positions.
Move(shape, shift) ==
  [shape EXCEPT !.pts = [i \in DOMAIN @ |-> shift[@[i]]]]

\* What isPtsHavPt, isEdgeHavPt and isAreaHavPt can answer for some mouse
\* position, as far as the type and the number of vertices decide it.
PointHits(shape) == 0 .. Len(shape.pts) - 1

EdgeHits(shape) ==
  IF shape.type \notin {"Line", "Curve"} /\ Len(shape.pts) >= 2
  THEN 1 .. Len(shape.pts)
  ELSE {}

AreaHit(shape) ==
  \/ shape.type = "Rectangle" /\ Len(shape.pts) >= 2
  \/ shape.type = "Polygon"   /\ Len(shape.pts) >= 3

\* draw() of YRectangle and yLine reads the second vertex of the shape, the
\* rubber-band point counting as one while the shape is being drawn.
DrawReadsPastEnd(shape, isdisEndPt) ==
  /\ shape.type \in {"Rectangle", "Line"}
  /\ Len(shape.pts) = 1
  /\ ~isdisEndPt

\* The mouse holds a shape or one of its vertices.
Grab(shape) == shape.press \/ shape.drag
=============================================================================
