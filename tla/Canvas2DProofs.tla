--------------------------- MODULE Canvas2DProofs ---------------------------
(***************************************************************************)
(* Theorems about Canvas2D, for every set of points, labels, label files,  *)
(* draw modes and shapes.  The document stays one in which every command   *)
(* finds its shape, whatever the mouse does to the shapes behind the back  *)
(* of the undo stack; with no shortcuts while the button is down, what the *)
(* mouse holds is what it pressed.                                         *)
(***************************************************************************)
EXTENDS Canvas2D, CanvasBaseProofs

-----------------------------------------------------------------------------
(* The vertices of a shape.                                                *)

\* Shape::insertPoint adds one vertex to a shape that can have more.
LEMMA InsertReshapes ==
  ASSUME NEW x \in ShapeRecords, NEW p \in Points, NEW pos \in Int
  PROVE  /\ Reshaped(x, InsertPoint(x, p, pos))
         /\ Insertable(x.type) /\ pos \in 0 .. Len(x.pts) =>
              Len(InsertPoint(x, p, pos).pts) = Len(x.pts) + 1
<1> DEFINE n == Len(x.pts)
           q == InsertAt(x.pts, pos + 1, p)
<1>1. x.pts \in Seq(Points) /\ n \in Nat /\ Reshaped(x, x)
  BY SameShape
<1>2. CASE ~(Insertable(x.type) /\ pos \in 0 .. n)
  BY <1>1, <1>2 DEF InsertPoint
<1>3. CASE Insertable(x.type) /\ pos \in 0 .. n
  <2> DEFINE a == SubSeq(x.pts, 1, (pos + 1) - 1)
             b == SubSeq(x.pts, pos + 1, n)
  <2>1. q = (a \o <<p>>) \o b
    BY DEF InsertAt
  <2>2. a \in Seq(Points) /\ Len(a) = pos
    <3>1. \A i \in 1 .. (pos + 1) - 1 : x.pts[i] \in Points
      BY <1>1, <1>3, SeqElement
    <3> QED
      BY <1>1, <1>3, <3>1, SeqPart
  <2>3. b \in Seq(Points) /\ Len(b) = n - pos
    <3>1. \A i \in pos + 1 .. n : x.pts[i] \in Points
      BY <1>1, <1>3, SeqElement
    <3> QED
      BY <1>1, <1>3, <3>1, SeqPart
  <2>4. <<p>> \in Seq(Points) /\ Len(<<p>>) = 1
    OBVIOUS
  <2> HIDE DEF a, b
  <2>5. a \o <<p>> \in Seq(Points) /\ Len(a \o <<p>>) = pos + 1
    BY <2>2, <2>4, SeqConcat
  <2>6. ASSUME NEW c \in Seq(Points), Len(c) = pos + 1
        PROVE  c \o b \in Seq(Points) /\ Len(c \o b) = n + 1
    <3>1. c \o b \in Seq(Points) /\ Len(c \o b) = Len(c) + Len(b)
      BY <2>3, SeqConcat, Zenon
    <3>2. (pos + 1) + (n - pos) = n + 1
      <4> HIDE DEF n
      <4> QED BY <1>1
    <3> QED
      BY <2>3, <2>6, <3>1, <3>2, Zenon
  <2>8. q \in Seq(Points) /\ Len(q) = n + 1
    BY <2>1, <2>5, <2>6, Zenon
  <2>7. InsertPoint(x, p, pos) = [x EXCEPT !.pts = q]
    BY <1>3 DEF InsertPoint
  <2> HIDE DEF q
  <2> QED
    BY <2>7, <2>8, OtherVertices
<1> QED
  BY <1>2, <1>3

\* Shape::updatePoint keeps the number of vertices.
LEMMA UpdateReshapes ==
  ASSUME NEW x \in ShapeRecords, NEW p \in Points, NEW pos \in Int
  PROVE  /\ Reshaped(x, UpdatePoint(x, p, pos))
         /\ Len(UpdatePoint(x, p, pos).pts) = Len(x.pts)
<1> DEFINE n == Len(x.pts)
           q == ReplaceAt(x.pts, pos + 1, p)
<1>1. x.pts \in Seq(Points) /\ n \in Nat /\ Reshaped(x, x)
  BY SameShape
<1>2. CASE ~(pos \in 0 .. n - 1)
  BY <1>1, <1>2 DEF UpdatePoint
<1>3. CASE pos \in 0 .. n - 1
  <2>1. q \in Seq(Points) /\ Len(q) = n
    <3>1. pos + 1 \in 1 .. n
      BY <1>1, <1>3
    <3> QED
      BY <1>1, <3>1, SeqExcept DEF ReplaceAt
  <2>2. UpdatePoint(x, p, pos) = [x EXCEPT !.pts = q]
    BY <1>3 DEF UpdatePoint
  <2> HIDE DEF q
  <2> QED
    BY <2>1, <2>2, OtherVertices
<1> QED
  BY <1>2, <1>3

\* Shape::move keeps it too.
LEMMA MoveReshapes ==
  ASSUME NEW x \in ShapeRecords, NEW f \in [Points -> Points]
  PROVE  Reshaped(x, Move(x, f)) /\ Len(Move(x, f).pts) = Len(x.pts)
<1> DEFINE n == Len(x.pts)
           q == [i \in DOMAIN x.pts |-> f[x.pts[i]]]
<1>1. x.pts \in Seq(Points) /\ n \in Nat /\ DOMAIN x.pts = 1 .. n
  BY SameShape
<1>2. q \in [1 .. n -> Points]
  BY <1>1
<1>3. q \in Seq(Points) /\ Len(q) = n
  <2> HIDE DEF q
  <2> QED
    BY <1>1, <1>2, FunctionIsSeq
<1>4. Move(x, f) = [x EXCEPT !.pts = q]
  BY DEF Move
<1> HIDE DEF q
<1> QED
  BY <1>3, <1>4, OtherVertices

-----------------------------------------------------------------------------
(* Drawing.                                                                *)

\* Document e is d with its newest shape finished.
NewestClosed(d, e) ==
  /\ DocOK(e) /\ e.image = d.image /\ e.list = d.list
  /\ LET t == Last(d.list)
     IN  /\ \A s \in ShapeIds : s # t => e.shape[s] = d.shape[s]
         /\ e.shape[t].pts = d.shape[t].pts /\ e.shape[t].closed = TRUE
         /\ e.shape[t].press = d.shape[t].press /\ e.shape[t].drag = d.shape[t].drag

\* setIsClosed and the dialog.
LEMMA FinishedOK ==
  ASSUME NEW d, DocOK(d), d.list # <<>>, NEW e \in Finished(d)
  PROVE  NewestClosed(d, e)
<1> DEFINE t == Last(d.list)
           x == d.shape[t]
           y == [x EXCEPT !.closed = TRUE]
<1>1. d \in Documents /\ CurrentShape(d) = t /\ t \in ShapeIds
  BY CurrentIsLast DEF DocOK
<1>2. d.shape \in [ShapeIds -> ShapeRecords]
  BY <1>1, DocTypes
<1> HIDE DEF t
<1>3. x \in ShapeRecords
  BY <1>1, <1>2
<1>4. PICK z \in Property(y) : e = SetShape(d, t, z)
  BY <1>1, Zenon DEF Finished
<1> HIDE DEF x
<1>5. /\ y \in ShapeRecords /\ y.closed = TRUE
      /\ y.name = x.name /\ y.pts = x.pts /\ y.press = x.press /\ y.drag = x.drag
  BY <1>3, Zenon DEF ShapeRecords
<1> HIDE DEF y
<1>6. /\ z \in ShapeRecords /\ z.closed = TRUE
      /\ z.name = x.name /\ z.pts = x.pts /\ z.press = x.press /\ z.drag = x.drag
  <2>1. CASE z = y
    BY <1>5, <2>1
  <2>2. CASE \E l \in Labels : z = [y EXCEPT !.label = l]
    BY <1>5, <2>2, SMTT(30) DEF ShapeRecords
  <2> QED
    BY <2>1, <2>2, Zenon DEF Property
<1>7. /\ e \in Documents /\ e.shape = [d.shape EXCEPT ![t] = z]
      /\ e.image = d.image /\ e.list = d.list /\ e.cur = d.cur
      /\ e.cmds = d.cmds /\ e.idx = d.idx
  BY <1>1, <1>4, <1>6, ShapeSet
<1>8. e.shape[t] = z /\ \A s \in ShapeIds : s # t => e.shape[s] = d.shape[s]
  BY <1>1, <1>2, <1>7, Zenon
<1>9. \A s \in ShapeIds : e.shape[s].name = d.shape[s].name
  BY <1>6, <1>8 DEF x
<1>10. DocOK(e)
  BY <1>7, <1>9, ObjectsOK, ZenonT(30)
<1> QED
  BY <1>6, <1>7, <1>8, <1>10, Zenon DEF NewestClosed, t, x

\* What the drawing branch of mousePressEvent does: it gives the newest shape of
\* the list a vertex, and no other shape changes.
Extended(d, e) ==
  /\ DocOK(e) /\ e.image = d.image /\ e.list # <<>>
  /\ LET t == Last(e.list)
     IN  /\ \A s \in ShapeIds : s # t => e.shape[s] = d.shape[s]
         /\ IF t \in Listed(d)
            THEN /\ ~d.shape[t].closed /\ Front(e.shape[t].pts) = d.shape[t].pts
                 /\ e.shape[t].press = d.shape[t].press /\ e.shape[t].drag = d.shape[t].drag
            ELSE Front(e.shape[t].pts) = <<>> /\ ~Grab(e.shape[t])
         /\ e.shape[t].closed => Len(e.shape[t].pts) >= 2

\* Document e is d with shape s begun.
Started(d, s, e) ==
  /\ DocOK(e) /\ e.image = d.image /\ e.list # <<>> /\ Last(e.list) = s
  /\ s \notin Listed(d)
  /\ \A t \in ShapeIds : t # s => e.shape[t] = d.shape[t]
  /\ e.shape[s].pts = <<>> /\ ~e.shape[s].closed
  /\ e.shape[s].press = FALSE /\ e.shape[s].drag = FALSE

\* It starts a shape when none is being drawn.
LEMMA StartedOK ==
  ASSUME NEW d, DocOK(d), drawMode \in DrawModes, NEW s \in ShapeIds, s \notin Referenced(d),
         NEW e, e = PushAddShape(d, s, drawMode)
  PROVE  Started(d, s, e)
<1>1. ShapePushed(d, s, drawMode, e)
  BY PushAddShapeOK
<1>2. PICK nm \in Names :
        e.shape = [d.shape EXCEPT ![s] = [NewShape(drawMode) EXCEPT !.name = nm]]
  BY <1>1, Zenon DEF ShapePushed
<1>3. d \in Documents /\ d.list \in Seq(ShapeIds) /\ d.shape \in [ShapeIds -> ShapeRecords]
  BY DocTypes DEF DocOK
<1>4. e.list = Append(d.list, s) /\ DocOK(e) /\ e.image = d.image
  BY <1>1, Zenon DEF ShapePushed
<1>5. e.list # <<>> /\ Last(e.list) = s
  BY <1>3, <1>4, SeqAppend DEF Last
<1> DEFINE x == [NewShape(drawMode) EXCEPT !.name = nm]
<1>6. /\ x \in ShapeRecords /\ x.pts = <<>> /\ x.closed = FALSE
      /\ x.press = FALSE /\ x.drag = FALSE
  <2>1. NewShape(drawMode) \in ShapeRecords
    BY NewShapeType
  <2> DEFINE z == NewShape(drawMode)
  <2>2. z.pts = <<>> /\ z.closed = FALSE /\ z.press = FALSE /\ z.drag = FALSE
    BY DEF NewShape
  <2>3. x = [z EXCEPT !.name = nm]
    OBVIOUS
  <2> HIDE DEF x, z
  <2>4. z \in ShapeRecords
    BY <2>1 DEF z
  <2> QED
    BY <2>2, <2>3, <2>4, OtherName
<1> HIDE DEF x
<1>7. e.shape[s] = x /\ \A t \in ShapeIds : t # s => e.shape[t] = d.shape[t]
  BY <1>2, <1>3 DEF x
<1>8. s \notin Listed(d)
  BY DEF Referenced
<1> QED
  BY <1>4, <1>5, <1>6, <1>7, <1>8, SMTT(30) DEF Started

\* Then it adds a vertex.
LEMMA PointedOK ==
  ASSUME NEW d, DocOK(d), d.list # <<>>, NEW pt \in Points, NEW e, e = PushAddPoint(d, pt),
         NEW t, t = Last(d.list)
  PROVE  /\ DocOK(e) /\ e.image = d.image /\ e.list = d.list /\ t \in ShapeIds
         /\ \A s \in ShapeIds : s # t => e.shape[s] = d.shape[s]
         /\ Front(e.shape[t].pts) = d.shape[t].pts
         /\ SameFlags(d.shape[t], e.shape[t])
<1> DEFINE x == AppendPoint(d.shape[t], pt)
<1>1. PointPushed(d, pt, e)
  BY PushAddPointOK
<1>2. /\ DocOK(e) /\ e.image = d.image /\ e.list = d.list
      /\ e.shape = [d.shape EXCEPT ![t] = x]
  BY <1>1, SMTT(30) DEF PointPushed
<1>3. d \in Documents /\ t \in ShapeIds
  BY CurrentIsLast DEF DocOK
<1>4. d.shape \in [ShapeIds -> ShapeRecords]
  BY <1>3, DocTypes
<1>5. Reshaped(d.shape[t], x) /\ Front(x.pts) = d.shape[t].pts
  BY <1>3, <1>4, AppendReshapes, SMTT(30)
<1> HIDE DEF x
<1>6. e.shape[t] = x /\ \A s \in ShapeIds : s # t => e.shape[s] = d.shape[s]
  BY <1>2, <1>3, <1>4, SMTT(30)
<1>7. SameFlags(d.shape[t], e.shape[t])
  BY <1>5, <1>6 DEF Reshaped, SameFlags
<1> QED
  BY <1>2, <1>3, <1>5, <1>6, <1>7

\* The drawing branch of mousePressEvent.
LEMMA DrawnOK ==
  ASSUME NEW d, DocOK(d), drawMode \in DrawModes, NEW pt \in Points, NEW e \in Drawn(d, pt)
  PROVE  Extended(d, e)
<1> DEFINE Full(f) == /\ drawMode \in {"Rectangle", "Line"}
                      /\ Len(f.shape[CurrentShape(f)].pts) > 1
           started == IF NothingOpen(d)
                      THEN {PushAddShape(d, s, drawMode) : s \in ShapeIds \ Referenced(d)}
                      ELSE {d}
<1>1. PICK d1 \in started :
        LET f == PushAddPoint(d1, pt) IN e \in (IF Full(f) THEN Finished(f) ELSE {f})
  BY Zenon DEF Drawn
<1> DEFINE f == PushAddPoint(d1, pt)
           t == Last(d1.list)
<1>2. /\ DocOK(d1) /\ d1.image = d.image /\ d1.list # <<>>
      /\ \A s \in ShapeIds : s # t => d1.shape[s] = d.shape[s]
      /\ IF t \in Listed(d)
         THEN /\ ~d.shape[t].closed /\ d1.shape[t] = d.shape[t]
         ELSE d1.shape[t].pts = <<>> /\ ~Grab(d1.shape[t])
      /\ ~d1.shape[t].closed
  <2>1. CASE NothingOpen(d)
    <3>1. PICK s \in ShapeIds \ Referenced(d) : d1 = PushAddShape(d, s, drawMode)
      BY <1>1, <2>1
    <3>2. Started(d, s, d1)
      BY <3>1, StartedOK, SMTT(30)
    <3>3. t = s
      BY <3>2, SMTT(30) DEF Started
    <3> HIDE DEF t
    <3> QED
      BY <3>2, <3>3 DEF Started, Grab
  <2>2. CASE ~NothingOpen(d)
    <3>1. d1 = d
      BY <1>1, <2>2, SMTT(30)
    <3>2. d.list # <<>> /\ ~d.shape[CurrentShape(d)].closed
      BY <2>2, SMTT(30) DEF NothingOpen
    <3>3. CurrentShape(d) = t /\ t \in Listed(d)
      BY <3>1, <3>2, CurrentIsLast, SMTT(30)
    <3> QED
      BY <3>1, <3>2, <3>3
  <2> QED
    BY <2>1, <2>2, ZenonT(30)
<1>3. /\ DocOK(f) /\ f.image = d1.image /\ f.list = d1.list /\ t \in ShapeIds
      /\ \A s \in ShapeIds : s # t => f.shape[s] = d1.shape[s]
      /\ Front(f.shape[t].pts) = d1.shape[t].pts
      /\ SameFlags(d1.shape[t], f.shape[t])
  BY <1>2, PointedOK, ZenonT(30)
<1>4. e \in (IF Full(f) THEN Finished(f) ELSE {f})
  BY <1>1, SMTT(30)
<1> HIDE DEF f, t, started
<1>5. Last(f.list) = t /\ f.list # <<>>
  BY <1>2, <1>3, SMTT(30) DEF t
<1>6. f \in Documents /\ f.shape[t] \in ShapeRecords
  BY <1>3, DocTypes DEF DocOK
<1>7. f.shape[t].pts \in Seq(Points) /\ Len(f.shape[t].pts) \in Nat
  BY <1>6, SameShape, SMTT(30)
<1>8. /\ DocOK(e) /\ e.image = f.image /\ e.list = f.list
      /\ \A s \in ShapeIds : s # t => e.shape[s] = f.shape[s]
      /\ e.shape[t].pts = f.shape[t].pts
      /\ e.shape[t].press = f.shape[t].press /\ e.shape[t].drag = f.shape[t].drag
      /\ e.shape[t].closed => Len(e.shape[t].pts) >= 2
  <2>1. CASE Full(f)
    <3>1. NewestClosed(f, e)
      BY <1>3, <1>4, <1>5, <2>1, FinishedOK, SMTT(30)
    <3>2. CurrentShape(f) = t
      BY <1>3, <1>5, CurrentIsLast
    <3>3. Len(f.shape[t].pts) >= 2
      BY <1>7, <2>1, <3>2, SMTT(30)
    <3> QED
      BY <1>5, <3>1, <3>3, SMTT(30) DEF NewestClosed
  <2>2. CASE ~Full(f)
    <3>1. e = f
      BY <1>4, <2>2, SMTT(30)
    <3>2. ~f.shape[t].closed
      BY <1>2, <1>3, SMTT(30) DEF SameFlags
    <3> QED
      BY <1>3, <3>1, <3>2
  <2> QED
    BY <2>1, <2>2, SMTT(30)
<1> HIDE DEF Full
<1>9. Last(e.list) = t /\ e.list # <<>>
  BY <1>5, <1>8, SMTT(30)
<1>10. \A s \in ShapeIds : s # t => e.shape[s] = d.shape[s]
  BY <1>2, <1>3, <1>8, SMTT(30)
<1>11. IF t \in Listed(d)
       THEN /\ ~d.shape[t].closed /\ Front(e.shape[t].pts) = d.shape[t].pts
            /\ e.shape[t].press = d.shape[t].press /\ e.shape[t].drag = d.shape[t].drag
       ELSE Front(e.shape[t].pts) = <<>> /\ ~Grab(e.shape[t])
  BY <1>2, <1>3, <1>8, SMTT(30) DEF SameFlags, Grab
<1> QED
  BY <1>2, <1>3, <1>8, <1>9, <1>10, <1>11, Zenon DEF Extended

-----------------------------------------------------------------------------
(* Editing.                                                                *)

\* A handler that replaces many.
LEMMA ShapesSetOK ==
  ASSUME NEW d, DocOK(d), NEW f \in [ShapeIds -> ShapeRecords],
         \A s \in ShapeIds : f[s].name = d.shape[s].name, NEW e, e = [d EXCEPT !.shape = f]
  PROVE  Handled(d, e) /\ e.shape = f
<1>1. d \in Documents
  BY DEF DocOK
<1>2. /\ e \in Documents /\ e.shape = f
      /\ e.image = d.image /\ e.list = d.list /\ e.cur = d.cur
      /\ e.cmds = d.cmds /\ e.idx = d.idx
  BY <1>1, Zenon DEF Documents
<1>3. DocOK(e)
  BY <1>2, ObjectsOK, ZenonT(30)
<1> QED
  BY <1>2, <1>3 DEF Handled

\* Shape y is shape x but for its selection.
Alike(x, y) == Reshaped(x, y) /\ y.pts = x.pts

\* Losing the selection.
LEMMA DeselectOK ==
  ASSUME NEW d, DocOK(d), NEW n, NEW e, e = Deselect(d, n)
  PROVE  Handled(d, e) /\ \A s \in ShapeIds : Alike(d.shape[s], e.shape[s])
<1> DEFINE f == [s \in ShapeIds |->
                   IF d.shape[s].closed /\ \E i \in 1 .. n : d.list[i] = s
                   THEN [d.shape[s] EXCEPT !.select = FALSE]
                   ELSE d.shape[s]]
<1>1. d.shape \in [ShapeIds -> ShapeRecords]
  BY DocTypes DEF DocOK
<1>2. \A x \in ShapeRecords : Alike(x, x) /\ Alike(x, [x EXCEPT !.select = FALSE])
  BY Zenon DEF ShapeRecords, Alike, Reshaped
<1>3. \A s \in ShapeIds : Alike(d.shape[s], f[s])
  BY <1>1, <1>2
<1>4. f \in [ShapeIds -> ShapeRecords]
  <2>1. \A s \in ShapeIds : f[s] \in ShapeRecords
    BY <1>3 DEF Alike, Reshaped
  <2> QED
    BY <2>1
<1>5. e = [d EXCEPT !.shape = f]
  BY DEF Deselect
<1> HIDE DEF f
<1>6. \A s \in ShapeIds : f[s].name = d.shape[s].name
  BY <1>3 DEF Alike, Reshaped
<1> QED
  BY <1>3, <1>4, <1>5, <1>6, ShapesSetOK

\* mouseReleaseEvent lets the closed shapes go.
LEMMA ReleaseOK ==
  ASSUME NEW d, DocOK(d), NEW e, e = ReleaseAll(d)
  PROVE  /\ Handled(d, e)
         /\ \A s \in ShapeIds :
              \/ ~Grab(e.shape[s]) /\ s \in Listed(d) /\ d.shape[s].closed
              \/ e.shape[s] = d.shape[s] /\ (s \in Listed(d) => ~d.shape[s].closed)
<1> DEFINE f == [s \in ShapeIds |->
                   IF s \in Listed(d) /\ d.shape[s].closed
                   THEN [d.shape[s] EXCEPT !.press = FALSE, !.drag = FALSE]
                   ELSE d.shape[s]]
<1>1. d.shape \in [ShapeIds -> ShapeRecords]
  BY DocTypes DEF DocOK
<1>2. ASSUME NEW x \in ShapeRecords, NEW y, y = [x EXCEPT !.press = FALSE, !.drag = FALSE]
      PROVE  y \in ShapeRecords /\ y.name = x.name /\ ~Grab(y)
  BY <1>2, Zenon DEF ShapeRecords, Grab
<1>3. \A s \in ShapeIds : f[s] \in ShapeRecords /\ f[s].name = d.shape[s].name
  BY <1>1, <1>2, ZenonT(30)
<1>4. \A s \in ShapeIds :
        \/ ~Grab(f[s]) /\ s \in Listed(d) /\ d.shape[s].closed
        \/ f[s] = d.shape[s] /\ (s \in Listed(d) => ~d.shape[s].closed)
  BY <1>1, <1>2, ZenonT(30)
<1>5. f \in [ShapeIds -> ShapeRecords]
  BY <1>3, ZenonT(30)
<1>6. e = [d EXCEPT !.shape = f]
  BY Zenon DEF ReleaseAll
<1> HIDE DEF f
<1> QED
  BY <1>3, <1>4, <1>5, <1>6, ShapesSetOK, SMTT(30)

\* Shape y is shape x, held.
Taken(x, y) ==
  /\ y \in ShapeRecords /\ y.type = x.type /\ y.name = x.name /\ y.pts = x.pts
  /\ y.closed = x.closed

\* A shape whose press or drag mark is set is the same but for that.
LEMMA MarkTakes ==
  ASSUME NEW x \in ShapeRecords
  PROVE  /\ Taken(x, [x EXCEPT !.press = TRUE])
         /\ Taken(x, [x EXCEPT !.drag = TRUE, !.select = TRUE])
BY ZenonT(30) DEF ShapeRecords, Taken

\* Document e is d with its shape s held.
TakenIn(d, s, e) ==
  /\ Handled(d, e) /\ s \in ShapeIds /\ s \in Listed(d)
  /\ Taken(d.shape[s], e.shape[s])
  /\ \A r \in ShapeIds : r # s => Alike(d.shape[r], e.shape[r])

\* The hits of mousePressEvent: the shapes before the one that is hit lose their
\* selection, and the one that is hit is held.
LEMMA TakenOK ==
  ASSUME NEW d, DocOK(d), NEW n, NEW i \in DOMAIN d.list, NEW e,
         LET f == Deselect(d, n)
             x == f.shape[f.list[i]]
         IN  \/ e = SetShape(f, f.list[i], [x EXCEPT !.press = TRUE])
             \/ e = SetShape(f, f.list[i], [x EXCEPT !.drag = TRUE, !.select = TRUE])
  PROVE  TakenIn(d, d.list[i], e)
<1> DEFINE s == d.list[i]
           f == Deselect(d, n)
           x == f.shape[f.list[i]]
<1>1. Handled(d, f) /\ \A r \in ShapeIds : Alike(d.shape[r], f.shape[r])
  BY DeselectOK
<1>2. s \in ShapeIds /\ s \in Listed(d)
  BY DocTypes DEF DocOK, Listed
<1>3. \/ e = SetShape(f, f.list[i], [x EXCEPT !.press = TRUE])
      \/ e = SetShape(f, f.list[i], [x EXCEPT !.drag = TRUE, !.select = TRUE])
  BY Zenon
<1> HIDE DEF f
<1>4. DocOK(f) /\ f.list[i] = s
  BY <1>1 DEF Handled
<1>5. x \in ShapeRecords /\ x = f.shape[s]
  BY <1>2, <1>4, DocTypes DEF DocOK
<1> HIDE DEF x, s
<1>6. PICK y : Taken(x, y) /\ e = SetShape(f, s, y)
  BY <1>3, <1>4, <1>5, MarkTakes, Zenon
<1>7. y \in ShapeRecords /\ y.name = f.shape[s].name
  BY <1>5, <1>6 DEF Taken
<1>8. /\ Handled(f, e) /\ e.shape[s] = y
      /\ \A r \in ShapeIds : r # s => e.shape[r] = f.shape[r]
  BY <1>2, <1>4, <1>6, <1>7, ShapeSetOK, SMTT(30) DEF Replaced
<1>9. Taken(d.shape[s], y)
  BY <1>1, <1>2, <1>5, <1>6, Zenon DEF Taken, Alike, Reshaped
<1>10. Handled(d, e)
  BY <1>1, <1>8 DEF Handled
<1>11. TakenIn(d, s, e)
  BY <1>1, <1>2, <1>8, <1>9, <1>10, Zenon DEF TakenIn
<1> QED
  BY <1>11 DEF s

-----------------------------------------------------------------------------
(* The inductive invariant.                                                *)

\* The document, and what openFile still has to add to it.
DocInv ==
  /\ DocOK(doc)
  /\ drawMode \in DrawModes
  /\ pending \in Seq(FileShapes)
  /\ pending # <<>> => doc.cmds = <<>>

\* Only a finished shape is held: mouseReleaseEvent asks for no other.
GrabInv == \A s \in ShapeIds : Grab(doc.shape[s]) => doc.shape[s].closed

IndexInv == mouseDrag \in BOOLEAN /\ activePoint \in Int /\ insertPoint \in Int

Inv == DocInv /\ GrabInv /\ IndexInv

\* What the steps other than those of edit mode do: no shape becomes held, and
\* none that is finished is opened again while it is held.
Quiet(d, e) ==
  /\ DocOK(e)
  /\ \A s \in ShapeIds : Grab(e.shape[s]) =>
       Grab(d.shape[s]) /\ (d.shape[s].closed => e.shape[s].closed)

\* One quiet step after another is quiet.
LEMMA QuietTwice ==
  ASSUME NEW c, NEW d, NEW e, Quiet(c, d), Quiet(d, e)
  PROVE  Quiet(c, e)
BY DEF Quiet

\* So is doing nothing.
LEMMA QuietSame ==
  ASSUME NEW d, DocOK(d)
  PROVE  Quiet(d, d)
BY DEF Quiet

\* A press while drawing is quiet.
LEMMA ExtendedQuiet ==
  ASSUME NEW d, DocOK(d), NEW e, Extended(d, e)
  PROVE  Quiet(d, e)
<1> DEFINE t == Last(e.list)
<1>1. DocOK(e) /\ \A s \in ShapeIds : s # t => e.shape[s] = d.shape[s]
  BY DEF Extended
<1>2. CASE t \in Listed(d)
  <2>1. ~d.shape[t].closed /\ (Grab(e.shape[t]) => Grab(d.shape[t]))
    BY <1>2 DEF Extended, Grab
  <2> HIDE DEF t
  <2> QED
    BY <1>1, <2>1, SMTT(30) DEF Quiet
<1>3. CASE t \notin Listed(d)
  <2>1. ~Grab(e.shape[t])
    BY <1>3 DEF Extended
  <2> HIDE DEF t
  <2> QED
    BY <1>1, <2>1, SMTT(30) DEF Quiet
<1> QED
  BY <1>2, <1>3, SMTT(30)

\* Finishing a shape is quiet.
LEMMA ClosedQuiet ==
  ASSUME NEW d, DocOK(d), NEW e, NewestClosed(d, e)
  PROVE  Quiet(d, e)
<1> DEFINE t == Last(d.list)
<1>1. DocOK(e) /\ \A s \in ShapeIds : s # t => e.shape[s] = d.shape[s]
  BY DEF NewestClosed
<1>2. e.shape[t].closed /\ (Grab(e.shape[t]) => Grab(d.shape[t]))
  BY DEF NewestClosed, Grab
<1> HIDE DEF t
<1> QED
  BY <1>1, <1>2 DEF Quiet

\* A step that replaces an object by one with the same marks is quiet.
LEMMA FlagsQuiet ==
  ASSUME NEW d, NEW e, DocOK(e), \A s \in ShapeIds : SameFlags(d.shape[s], e.shape[s])
  PROVE  Quiet(d, e)
BY DEF SameFlags, Quiet, Grab

\* Which shape a press, a double click or Enter goes to: m_currentIndex is in
\* range and not -1 only if there is a newest shape.
LEMMA CurrentExists ==
  ASSUME NEW d, DocOK(d), CurrentInRange(d), d.cur # -1
  PROVE  d.list # <<>>
<1>1. d \in Documents /\ d.cur >= -1 /\ d.cur \in Int
  BY DocTypes DEF DocOK
<1>2. ASSUME d.list = <<>> PROVE FALSE
  <2>1. Len(d.list) = 0
    BY <1>2
  <2> QED
    BY <1>1, <2>1 DEF CurrentInRange
<1> QED
  BY <1>2, SMTT(30)

\* PressDraw.
LEMMA PressDrawStep ==
  ASSUME Inv, PressDraw
  PROVE  Extended(doc, doc') /\ Quiet(doc, doc')
<1>1. PICK p \in Points : doc' \in Drawn(doc, p)
  BY DEF PressDraw
<1>2. DocOK(doc) /\ drawMode \in DrawModes
  BY DEF Inv, DocInv
<1>3. Extended(doc, doc')
  BY <1>1, <1>2, DrawnOK, SMTT(30)
<1> QED
  BY <1>2, <1>3, ExtendedQuiet

\* Document e is d with its newest shape finished by a double click: the vertex
\* of the second press is gone, and two at least are left.
DoubleClosed(d, e) ==
  /\ DocOK(e) /\ e.image = d.image /\ e.list = d.list /\ Quiet(d, e)
  /\ \A s \in ShapeIds : s # Last(d.list) => e.shape[s] = d.shape[s]
  /\ e.shape[Last(d.list)].closed /\ Len(e.shape[Last(d.list)].pts) >= 2

\* The half of mouseDoubleClickEvent that finishes the shape.
LEMMA DoubleClosedOK ==
  ASSUME NEW d, DocOK(d), d.list # <<>>, Enough(d.shape[Last(d.list)].pts),
         NEW e \in Finished(SetShape(d, Last(d.list),
                     DeletePoint(d.shape[Last(d.list)], Len(d.shape[Last(d.list)].pts) - 1)))
  PROVE  DoubleClosed(d, e)
<1> DEFINE t == Last(d.list)
           x == DeletePoint(d.shape[t], Len(d.shape[t].pts) - 1)
           c == SetShape(d, t, x)
<1>0. e \in Finished(c) /\ Enough(d.shape[t].pts)
  BY SMTT(30)
<1> HIDE DEF c
<1>1. d \in Documents /\ t \in ShapeIds /\ d.shape \in [ShapeIds -> ShapeRecords]
  BY CurrentIsLast, DocTypes, SMTT(30) DEF DocOK
<1> HIDE DEF t
<1>2. d.shape[t] \in ShapeRecords
  BY <1>1
<1>3. Len(d.shape[t].pts) \in Nat /\ Len(d.shape[t].pts) - 1 \in Nat
  BY <1>0, <1>2, SameShape, SMTT(30) DEF Enough
<1>4. Reshaped(d.shape[t], x) /\ Len(x.pts) >= Len(d.shape[t].pts) - 1
  BY <1>2, <1>3, DeleteReshapes, SMTT(30)
<1> HIDE DEF x
<1>5. Len(x.pts) >= 2
  <2>1. x \in ShapeRecords
    BY <1>4 DEF Reshaped
  <2>2. Len(x.pts) \in Nat
    BY <2>1, SameShape, SMTT(30)
  <2> QED
    BY <1>0, <1>3, <1>4, <2>2, SMTT(30) DEF Enough
<1>6. /\ Handled(d, c) /\ c.shape[t] = x
      /\ \A s \in ShapeIds : s # t => c.shape[s] = d.shape[s]
  <2>1. x \in ShapeRecords /\ x.name = d.shape[t].name
    BY <1>4 DEF Reshaped
  <2>2. c = SetShape(d, t, x)
    BY DEF c
  <2> QED
    BY <1>1, <2>1, <2>2, ShapeSetOK, SMTT(30) DEF Replaced
<1>7. DocOK(c) /\ c.image = d.image /\ c.list = d.list
  BY <1>6 DEF Handled
<1>8. NewestClosed(c, e)
  BY <1>0, <1>7, FinishedOK, SMTT(30)
<1>9. /\ DocOK(e) /\ e.image = d.image /\ e.list = d.list
      /\ \A s \in ShapeIds : s # t => e.shape[s] = d.shape[s]
      /\ e.shape[t].closed /\ Len(e.shape[t].pts) >= 2
  BY <1>5, <1>6, <1>7, <1>8, SMTT(30) DEF NewestClosed, t
<1>10. Quiet(d, c)
  <2>1. SameFlags(d.shape[t], c.shape[t])
    BY <1>4, <1>6, SMTT(30) DEF Reshaped, SameFlags
  <2>2. \A s \in ShapeIds : SameFlags(d.shape[s], c.shape[s])
    BY <1>6, <2>1, SMTT(30) DEF SameFlags
  <2> QED
    BY <1>7, <2>2, FlagsQuiet, SMTT(30)
<1>11. Quiet(d, e)
  BY <1>7, <1>8, <1>10, ClosedQuiet, QuietTwice, SMTT(30)
<1> QED
  BY <1>9, <1>11, SMTT(30) DEF DoubleClosed, t

\* What a double click makes of the document: nothing, what the press makes of
\* it, or what the press makes of it after the newest shape is finished.
DoubleClicked(d, e) ==
  \/ e = d
  \/ Extended(d, e)
  \/ \E c : DoubleClosed(d, c) /\ Extended(c, e)

\* DoubleClickDraw.
LEMMA DoubleClickStep ==
  ASSUME Inv, DoubleClickDraw
  PROVE  DoubleClicked(doc, doc') /\ Quiet(doc, doc')
<1> DEFINE s == CurrentShape(doc)
           pts == doc.shape[s].pts
           cut == SetShape(doc, s, DeletePoint(doc.shape[s], Len(pts) - 1))
           done == IF Enough(pts) THEN Finished(cut) ELSE {doc}
<1>1. DocOK(doc) /\ drawMode \in DrawModes /\ CurrentInRange(doc)
  BY DEF Inv, DocInv, DoubleClickDraw
<1>2. CASE doc.cur = -1
  <2>1. doc' = doc
    BY <1>2 DEF DoubleClickDraw
  <2> QED
    BY <1>1, <2>1, QuietSame DEF DoubleClicked
<1>3. CASE doc.cur # -1
  <2>1. PICK p \in Points : \E e \in done : doc' \in Drawn(e, p)
    BY <1>3, Zenon DEF DoubleClickDraw
  <2>2. PICK e \in done : doc' \in Drawn(e, p)
    BY <2>1
  <2>3. doc.list # <<>>
    BY <1>1, <1>3, CurrentExists, SMTT(30)
  <2>4. s = Last(doc.list)
    BY <1>1, <2>3, CurrentIsLast
  <2>5. CASE Enough(pts)
    <3>1. e \in Finished(SetShape(doc, Last(doc.list),
                 DeletePoint(doc.shape[Last(doc.list)], Len(doc.shape[Last(doc.list)].pts) - 1)))
      BY <2>4, <2>5, Zenon
    <3>2. Enough(doc.shape[Last(doc.list)].pts)
      BY <2>4, <2>5
    <3>3. DoubleClosed(doc, e)
      BY <1>1, <2>3, <3>1, <3>2, DoubleClosedOK, Zenon
    <3>4. DocOK(e) /\ Quiet(doc, e)
      BY <3>3 DEF DoubleClosed
    <3> HIDE DEF done
    <3>5. Extended(e, doc')
      BY <1>1, <2>2, <3>4, DrawnOK, SMTT(30)
    <3>6. Quiet(doc, doc')
      BY <3>4, <3>5, ExtendedQuiet, QuietTwice, SMTT(30)
    <3> QED
      BY <3>3, <3>5, <3>6, Zenon DEF DoubleClicked
  <2>6. CASE ~Enough(pts)
    <3>1. e = doc
      BY <2>6, Zenon
    <3> HIDE DEF done, pts, cut, s
    <3>2. doc' \in Drawn(doc, p)
      BY <2>2, <3>1
    <3>3. Extended(doc, doc')
      BY <1>1, <3>2, DrawnOK, SMTT(30)
    <3> QED
      BY <1>1, <3>3, ExtendedQuiet DEF DoubleClicked
  <2> QED
    BY <2>5, <2>6
<1> QED
  BY <1>2, <1>3, SMTT(30)

\* Enter.
LEMMA EnterStep ==
  ASSUME Inv, Enter
  PROVE  /\ NewestClosed(doc, doc') /\ Quiet(doc, doc')
         /\ Last(doc.list) \in ShapeIds /\ Len(doc.shape[Last(doc.list)].pts) >= 2
<1>1. /\ DocOK(doc) /\ CurrentInRange(doc) /\ doc.cur # -1
      /\ Enough(doc.shape[CurrentShape(doc)].pts) /\ doc' \in Finished(doc)
  BY DEF Inv, DocInv, Enter
<1>2. doc.list # <<>>
  BY <1>1, CurrentExists
<1>3. NewestClosed(doc, doc')
  BY <1>1, <1>2, FinishedOK, SMTT(30)
<1>4. CurrentShape(doc) = Last(doc.list) /\ Last(doc.list) \in ShapeIds
  BY <1>1, <1>2, CurrentIsLast, SMTT(30)
<1>5. doc.shape[Last(doc.list)] \in ShapeRecords
  BY <1>1, <1>4, DocTypes DEF DocOK
<1>6. Len(doc.shape[Last(doc.list)].pts) \in Nat
  BY <1>5, SameShape
<1>7. Enough(doc.shape[Last(doc.list)].pts)
  BY <1>1, <1>4
<1>8. Len(doc.shape[Last(doc.list)].pts) >= 2
  BY <1>6, <1>7 DEF Enough
<1> QED
  BY <1>1, <1>3, <1>4, <1>8, ClosedQuiet, SMTT(30)

\* NewAnnotation.
LEMMA NewAnnotationStep ==
  ASSUME Inv, NewAnnotation
  PROVE  /\ \E s \in ShapeIds : Started(doc, s, doc')
         /\ Quiet(doc, doc')
<1>1. DocOK(doc) /\ drawMode \in DrawModes
  BY DEF Inv, DocInv
<1>2. PICK s \in ShapeIds \ Referenced(doc) : doc' = PushAddShape(doc, s, drawMode)
  BY DEF NewAnnotation
<1>3. Started(doc, s, doc')
  BY <1>1, <1>2, StartedOK, SMTT(30)
<1>4. Quiet(doc, doc')
  BY <1>3, SMTT(30) DEF Started, Quiet, Grab
<1> QED
  BY <1>3, <1>4, SMTT(30)

\* Undo.
LEMMA UndoQuiet ==
  ASSUME Inv, Undo
  PROVE  /\ Quiet(doc, doc')
         /\ \A s \in ShapeIds :
              /\ SameFlags(doc.shape[s], doc'.shape[s])
              /\ \/ doc'.shape[s] = doc.shape[s]
                 \/ /\ s = doc.cmds[doc.idx].shape
                    /\ Len(doc'.shape[s].pts) = Len(doc.shape[s].pts) - 1
<1> DEFINE i == doc.idx
           c == doc.cmds[i]
           x == DeletePoint(doc.shape[c.shape], c.name)
<1>1. DocOK(doc) /\ CanUndo(doc) /\ doc' = UndoStep(doc)
  BY SMTT(30) DEF Inv, DocInv, Undo
<1>2. /\ DocOK(doc')
      /\ \/ doc'.shape = doc.shape
         \/ c.op = "AddPoint" /\ c.name \in Nat /\ doc'.shape = [doc.shape EXCEPT ![c.shape] = x]
  BY <1>1, UndoStepOK, SMTT(30)
<1>3. doc \in Documents /\ doc.idx <= Len(doc.cmds)
  BY <1>1, SMTT(30) DEF DocOK
<1>4. doc.shape \in [ShapeIds -> ShapeRecords] /\ i \in DOMAIN doc.cmds /\ c.shape \in ShapeIds
  <2>1. /\ i \in Nat /\ Len(doc.cmds) \in Nat /\ DOMAIN doc.cmds = 1 .. Len(doc.cmds)
        /\ doc.shape \in [ShapeIds -> ShapeRecords]
        /\ \A j \in DOMAIN doc.cmds : doc.cmds[j].shape \in ShapeIds
    BY <1>3, DocTypes, SMTT(30)
  <2>2. i \in DOMAIN doc.cmds
    BY <1>1, <1>3, <2>1, SMTT(30) DEF CanUndo
  <2> QED
    BY <2>1, <2>2, SMTT(30)
<1>5. CASE doc'.shape = doc.shape
  BY <1>2, <1>5, SMTT(30) DEF SameFlags, Quiet
<1>6. CASE c.op = "AddPoint" /\ c.name \in Nat /\ doc'.shape = [doc.shape EXCEPT ![c.shape] = x]
  <2>1. doc.shape[c.shape] \in ShapeRecords
    BY <1>4, SMTT(30)
  <2>2. /\ Reshaped(doc.shape[c.shape], x)
        /\ x = doc.shape[c.shape] \/ Len(x.pts) = Len(doc.shape[c.shape].pts) - 1
    BY <1>6, <2>1, DeleteReshapes, ZenonT(30)
  <2> HIDE DEF x
  <2>3. /\ doc'.shape[c.shape] = x
        /\ \A s \in ShapeIds : s # c.shape => doc'.shape[s] = doc.shape[s]
    BY <1>4, <1>6, SMTT(30)
  <2>4. SameFlags(doc.shape[c.shape], x)
    BY <2>2, ZenonT(30) DEF SameFlags, Reshaped
  <2>5. \A s \in ShapeIds : SameFlags(doc.shape[s], doc'.shape[s])
    BY <2>3, <2>4, SMTT(30) DEF SameFlags
  <2>6. Quiet(doc, doc')
    BY <1>2, <2>5, FlagsQuiet, SMTT(30)
  <2> QED
    BY <2>2, <2>3, <2>5, <2>6, ZenonT(30)
<1> QED
  BY <1>2, <1>5, <1>6, ZenonT(30)

\* Redo.
LEMMA RedoQuiet ==
  ASSUME Inv, Redo
  PROVE  Quiet(doc, doc') /\ \A s \in ShapeIds : SameFlags(doc.shape[s], doc'.shape[s])
<1>1. DocOK(doc) /\ CanRedo(doc) /\ doc' = RedoStep(doc)
  BY DEF Inv, DocInv, Redo
<1>2. DocOK(doc') /\ \A s \in ShapeIds : SameFlags(doc.shape[s], doc'.shape[s])
  BY <1>1, RedoStepOK
<1> QED
  BY <1>2, FlagsQuiet

\* OpenNothing and OpenFile.
LEMMA OpenQuiet ==
  ASSUME Inv, OpenNothing \/ OpenFile
  PROVE  /\ Quiet(doc, doc') /\ doc'.list = <<>> /\ doc'.cmds = <<>>
         /\ OpenNothing => ~doc'.image
<1>1. DocOK(doc)
  BY DEF Inv, DocInv
<1>2. CASE OpenNothing
  <2>1. doc' = Clean(doc)
    BY <1>2 DEF OpenNothing
  <2>2. /\ DocOK(doc') /\ doc'.image = FALSE /\ doc'.list = <<>> /\ doc'.cmds = <<>>
        /\ \A s \in ShapeIds : ~Grab(doc'.shape[s])
    BY <1>1, <2>1, CleanOK, Zenon
  <2> QED
    BY <2>2 DEF Quiet
<1>3. CASE OpenFile /\ ~OpenNothing
  <2>1. doc' = [Clean(doc) EXCEPT !.image = TRUE]
    BY <1>3 DEF OpenFile
  <2>2. /\ DocOK(doc') /\ doc'.list = <<>> /\ doc'.cmds = <<>>
        /\ \A s \in ShapeIds : ~Grab(doc'.shape[s])
    BY <1>1, <2>1, CleanOK, ZenonT(30)
  <2> QED
    BY <1>3, <2>2 DEF Quiet
<1> QED
  BY <1>2, <1>3

\* LoadShape.
LEMMA LoadQuiet ==
  ASSUME Inv, LoadShape
  PROVE  /\ Quiet(doc, doc') /\ doc'.cmds = <<>>
         /\ \A s \in Listed(doc) : doc'.shape[s] = doc.shape[s]
<1>1. /\ DocOK(doc) /\ drawMode \in DrawModes /\ pending \in Seq(FileShapes)
      /\ pending # <<>> /\ doc.cmds = <<>>
  BY DEF Inv, DocInv, LoadShape
<1>2. PICK s \in ShapeIds \ Referenced(doc) : doc' = AddLoaded(doc, s, drawMode, Head(pending))
  BY DEF LoadShape
<1>3. Head(pending) \in FileShapes
  BY <1>1
<1>4. s \in ShapeIds /\ s \notin Listed(doc)
  BY DEF Referenced
<1>5. /\ DocOK(doc') /\ doc'.cmds = <<>>
      /\ \A t \in ShapeIds : t # s => doc'.shape[t] = doc.shape[t]
      /\ ~Grab(doc'.shape[s])
  BY <1>1, <1>2, <1>3, <1>4, LoadedOK, SMTT(30) DEF ShapeLoaded
<1>6. Quiet(doc, doc')
  BY <1>5, SMTT(30) DEF Quiet
<1>7. \A t \in Listed(doc) : t \in ShapeIds
  BY <1>1, DocTypes DEF DocOK, Listed
<1> QED
  BY <1>4, <1>5, <1>6, <1>7

\* The index of the vertex that a drag of shape x moves or inserts is one that
\* updatePoint and insertPoint of x accept.
VertexOK(x, insert, active) ==
  x.type # "Rectangle" =>
    \/ insert \in 1 .. Len(x.pts) /\ Insertable(x.type)
    \/ insert = -1 /\ active \in 0 .. Len(x.pts) - 1

\* A press in edit mode that hits nothing.
Missed == /\ Handled(doc, doc') /\ mouseDrag' = mouseDrag
          /\ \A s \in ShapeIds : Alike(doc.shape[s], doc'.shape[s])

\* A press in edit mode that hits shape s.
Hit(s) == /\ TakenIn(doc, s, doc') /\ doc.shape[s].closed
          /\ \/ mouseDrag' = TRUE /\ VertexOK(doc.shape[s], insertPoint', activePoint')
             \/ mouseDrag' = mouseDrag

\* The parts of the press.  An edge:
LEMMA PressEdgeStep ==
  ASSUME Inv, NEW i \in DOMAIN doc.list, doc.shape[doc.list[i]].closed,
         NEW pos \in 0 .. MaxPoints, PressEdge(i, pos)
  PROVE  Hit(doc.list[i]) /\ activePoint' \in Int /\ insertPoint' \in Int
<1> DEFINE s == doc.list[i]
<1>1. DocOK(doc) /\ doc.shape \in [ShapeIds -> ShapeRecords] /\ s \in ShapeIds
  BY DocTypes DEF Inv, DocInv, DocOK
<1>2. doc' = LET f == Deselect(doc, i - 1)
                 x == f.shape[f.list[i]]
             IN  SetShape(f, f.list[i], [x EXCEPT !.press = TRUE])
  BY Zenon DEF PressEdge
<1>3. TakenIn(doc, s, doc')
  BY <1>1, <1>2, TakenOK, Zenon
<1>4. mouseDrag' = TRUE /\ insertPoint' = pos /\ activePoint' = -1
  BY DEF PressEdge
<1>5. pos \in EdgeHits(doc.shape[s])
  BY DEF PressEdge
<1>6. doc.shape[s].type \in DrawModes
  BY <1>1 DEF ShapeRecords
<1>7. pos \in 1 .. Len(doc.shape[s].pts)
  BY <1>5, SMTT(30) DEF EdgeHits
<1>8. doc.shape[s].type # "Rectangle" => Insertable(doc.shape[s].type)
  BY <1>5, <1>6 DEF EdgeHits, Insertable, DrawModes
<1>9. VertexOK(doc.shape[s], pos, -1)
  BY <1>7, <1>8, Zenon DEF VertexOK
<1>10. pos \in Int
  BY Canvas2DAssumption
<1>11. activePoint' \in Int /\ insertPoint' \in Int
  BY <1>4, <1>10
<1>12. VertexOK(doc.shape[s], insertPoint', activePoint')
  BY <1>4, <1>9, Zenon
<1> QED
  BY <1>3, <1>4, <1>11, <1>12, Zenon DEF Hit

\* A vertex:
LEMMA PressPointStep ==
  ASSUME Inv, NEW i \in DOMAIN doc.list, doc.shape[doc.list[i]].closed,
         NEW pos \in 0 .. MaxPoints, PressPoint(i, pos)
  PROVE  Hit(doc.list[i]) /\ activePoint' \in Int /\ insertPoint' \in Int
<1> DEFINE s == doc.list[i]
<1>1. DocOK(doc)
  BY DEF Inv, DocInv
<1>2. doc' = LET f == Deselect(doc, i)
                 x == f.shape[f.list[i]]
             IN  SetShape(f, f.list[i], [x EXCEPT !.press = TRUE])
  BY Zenon DEF PressPoint
<1>3. TakenIn(doc, s, doc')
  BY <1>1, <1>2, TakenOK, Zenon
<1>4. mouseDrag' = TRUE /\ activePoint' = pos /\ insertPoint' = -1
  BY DEF PressPoint
<1>5. pos \in PointHits(doc.shape[s])
  BY DEF PressPoint
<1>6. VertexOK(doc.shape[s], -1, pos)
  BY <1>5, Zenon DEF PointHits, VertexOK
<1>7. pos \in Int
  BY Canvas2DAssumption
<1>8. activePoint' \in Int /\ insertPoint' \in Int
  BY <1>4, <1>7
<1>9. VertexOK(doc.shape[s], insertPoint', activePoint')
  BY <1>4, <1>6, Zenon
<1> QED
  BY <1>3, <1>4, <1>8, <1>9, Zenon DEF Hit

\* The area:
LEMMA PressAreaStep ==
  ASSUME Inv, NEW i \in DOMAIN doc.list, doc.shape[doc.list[i]].closed, PressArea(i)
  PROVE  Hit(doc.list[i]) /\ activePoint' \in Int /\ insertPoint' \in Int
<1>1. DocOK(doc)
  BY DEF Inv, DocInv
<1>2. doc' = LET f == Deselect(doc, i - 1)
                 x == f.shape[f.list[i]]
             IN  SetShape(f, f.list[i], [x EXCEPT !.drag = TRUE, !.select = TRUE])
  BY Zenon DEF PressArea
<1>3. TakenIn(doc, doc.list[i], doc')
  BY <1>1, <1>2, TakenOK, Zenon
<1>4. mouseDrag' = mouseDrag /\ insertPoint' = -1 /\ activePoint' = -1
  BY DEF PressArea
<1> QED
  BY <1>3, <1>4, SMTT(30) DEF Hit

\* PressEdit.
LEMMA PressEditStep ==
  ASSUME Inv, PressEdit
  PROVE  /\ Missed \/ \E s \in ShapeIds : Hit(s)
         /\ mouseDrag' \in BOOLEAN /\ activePoint' \in Int /\ insertPoint' \in Int
<1>1. DocOK(doc) /\ mouseDrag \in BOOLEAN
  BY DEF Inv, DocInv, IndexInv
<1>2. CASE PressNothing
  <2>1. doc' = Deselect(doc, Len(doc.list))
    BY <1>2, SMTT(30) DEF PressNothing
  <2>2. Handled(doc, doc') /\ \A s \in ShapeIds : Alike(doc.shape[s], doc'.shape[s])
    BY <1>1, <2>1, DeselectOK
  <2>3. mouseDrag' = mouseDrag /\ activePoint' = -1 /\ insertPoint' = -1
    BY <1>2 DEF PressNothing
  <2> QED
    BY <1>1, <2>2, <2>3, SMTT(30) DEF Missed
<1>3. CASE ~PressNothing
  <2>1. PICK i \in DOMAIN doc.list :
          /\ doc.shape[doc.list[i]].closed
          /\ \/ \E pos \in 0 .. MaxPoints : PressEdge(i, pos) \/ PressPoint(i, pos)
             \/ PressArea(i)
    BY <1>3 DEF PressEdit
  <2>2. Hit(doc.list[i]) /\ activePoint' \in Int /\ insertPoint' \in Int
    BY <2>1, PressEdgeStep, PressPointStep, PressAreaStep, Zenon
  <2>3. doc.list[i] \in ShapeIds /\ mouseDrag' \in BOOLEAN
    BY <1>1, <2>2, ZenonT(30) DEF Hit, TakenIn
  <2> QED
    BY <2>2, <2>3, SMTT(30)
<1> QED
  BY <1>2, <1>3

\* A move of the mouse that reshapes shape s, which is held.
Dragged(s) ==
  /\ Handled(doc, doc') /\ s \in Listed(doc) /\ Grab(doc.shape[s])
  /\ Reshaped(doc.shape[s], doc'.shape[s])
  /\ \A r \in ShapeIds : r # s => doc'.shape[r] = doc.shape[r]
  /\ mouseDrag /\ doc.shape[s].press /\ VertexOK(doc.shape[s], insertPoint, activePoint) =>
       VertexOK(doc'.shape[s], insertPoint', activePoint')
  /\ activePoint' \in Int /\ insertPoint' \in Int

\* MouseMove.
LEMMA MouseMoveStep ==
  ASSUME Inv, MouseMove
  PROVE  mouseDrag' = mouseDrag /\ \E s \in ShapeIds : Dragged(s)
<1> DEFINE i == Min(Grabbed)
           s == doc.list[i]
           x == doc.shape[s]
<1>1. DocOK(doc) /\ doc \in Documents /\ activePoint \in Int /\ insertPoint \in Int
  BY DEF Inv, DocInv, DocOK, IndexInv
<1>2. /\ DOMAIN doc.list = 1 .. Len(doc.list) /\ Len(doc.list) \in Nat
      /\ \A k \in DOMAIN doc.list : doc.list[k] \in ShapeIds
      /\ doc.shape \in [ShapeIds -> ShapeRecords]
  BY <1>1, DocTypes
<1>3. Grabbed \in SUBSET Nat /\ Grabbed \subseteq DOMAIN doc.list /\ Grabbed # {}
  <2>1. Grabbed \subseteq DOMAIN doc.list
    BY Zenon DEF Grabbed
  <2>2. Grabbed # {}
    BY Zenon DEF MouseMove
  <2> QED
    BY <1>2, <2>1, <2>2
<1>4. i \in Grabbed
  BY <1>3, MinIsLeast
<1>5. DragNewVertex(s) \/ DragVertex(s) \/ DragShape(s)
  BY DEF MouseMove
<1> HIDE DEF i
<1>6. i \in DOMAIN doc.list /\ s \in ShapeIds /\ s \in Listed(doc) /\ Grab(x)
  <2>1. i \in DOMAIN doc.list
    BY <1>3, <1>4
  <2>2. s \in ShapeIds /\ s \in Listed(doc)
    BY <1>2, <2>1 DEF Listed
  <2>3. Grab(x)
    BY <1>4, Zenon DEF Grabbed, Grab
  <2> QED
    BY <2>1, <2>2, <2>3, SMTT(30)
<1>7. x \in ShapeRecords
  BY <1>2, <1>6
<1>8. Len(x.pts) \in Nat
  BY <1>7, SameShape, SMTT(30)
<1> HIDE DEF s
<1>9. CASE DragNewVertex(s)
  <2>1. /\ x.press /\ insertPoint >= 0 /\ activePoint' = insertPoint /\ insertPoint' = -1
        /\ \E p \in Points : doc' = SetShape(doc, s, InsertPoint(x, p, insertPoint))
    BY <1>9 DEF DragNewVertex
  <2>2. PICK p \in Points : doc' = SetShape(doc, s, InsertPoint(x, p, insertPoint))
    BY <2>1
  <2> DEFINE y == InsertPoint(x, p, insertPoint)
  <2>3. /\ Reshaped(x, y)
        /\ Insertable(x.type) /\ insertPoint \in 0 .. Len(x.pts) => Len(y.pts) = Len(x.pts) + 1
    BY <1>1, <1>7, InsertReshapes, SMTT(30)
  <2>4. doc' = SetShape(doc, s, y)
    BY <2>2
  <2> HIDE DEF y
  <2>5. y \in ShapeRecords /\ y.name = x.name /\ y.type = x.type
    BY <2>3, SMTT(30) DEF Reshaped
  <2>6. /\ Handled(doc, doc') /\ doc'.shape[s] = y
        /\ \A r \in ShapeIds : r # s => doc'.shape[r] = doc.shape[r]
    BY <1>1, <1>6, <2>4, <2>5, ShapeSetOK, SMTT(30) DEF Replaced
  <2>7. VertexOK(x, insertPoint, activePoint) => VertexOK(y, -1, insertPoint)
    BY <1>1, <1>8, <2>1, <2>3, <2>5, SMTT(30) DEF VertexOK
  <2> QED
    BY <1>1, <1>6, <2>1, <2>3, <2>6, <2>7, SMTT(30) DEF Dragged, MouseMove
<1>10. CASE DragVertex(s)
  <2>1. /\ activePoint' = activePoint /\ insertPoint' = insertPoint
        /\ \E p \in Points : doc' = SetShape(doc, s, UpdatePoint(x, p, activePoint))
    BY <1>10 DEF DragVertex
  <2>2. PICK p \in Points : doc' = SetShape(doc, s, UpdatePoint(x, p, activePoint))
    BY <2>1
  <2> DEFINE y == UpdatePoint(x, p, activePoint)
  <2>3. Reshaped(x, y) /\ Len(y.pts) = Len(x.pts)
    BY <1>1, <1>7, UpdateReshapes, SMTT(30)
  <2>4. doc' = SetShape(doc, s, y)
    BY <2>2
  <2> HIDE DEF y
  <2>5. y \in ShapeRecords /\ y.name = x.name /\ y.type = x.type
    BY <2>3, SMTT(30) DEF Reshaped
  <2>6. /\ Handled(doc, doc') /\ doc'.shape[s] = y
        /\ \A r \in ShapeIds : r # s => doc'.shape[r] = doc.shape[r]
    BY <1>1, <1>6, <2>4, <2>5, ShapeSetOK, SMTT(30) DEF Replaced
  <2>7. VertexOK(x, insertPoint, activePoint) => VertexOK(y, insertPoint, activePoint)
    BY <2>3, <2>5, SMTT(30) DEF VertexOK
  <2> QED
    BY <1>1, <1>6, <2>1, <2>3, <2>6, <2>7, ZenonT(30) DEF Dragged, MouseMove
<1>11. CASE DragShape(s)
  <2>1. /\ activePoint' = activePoint /\ insertPoint' = insertPoint
        /\ \E f \in Shifts : doc' = SetShape(doc, s, Move(x, f))
    BY <1>11 DEF DragShape
  <2>2. PICK f \in Shifts : doc' = SetShape(doc, s, Move(x, f))
    BY <2>1
  <2> DEFINE y == Move(x, f)
  <2>3. f \in [Points -> Points]
    BY Canvas2DAssumption
  <2>4. Reshaped(x, y) /\ Len(y.pts) = Len(x.pts)
    BY <1>7, <2>3, MoveReshapes
  <2>5. doc' = SetShape(doc, s, y)
    BY <2>2, SMTT(30)
  <2> HIDE DEF y
  <2>6. y \in ShapeRecords /\ y.name = x.name /\ y.type = x.type
    BY <2>4 DEF Reshaped
  <2>7. /\ Handled(doc, doc') /\ doc'.shape[s] = y
        /\ \A r \in ShapeIds : r # s => doc'.shape[r] = doc.shape[r]
    BY <1>1, <1>6, <2>5, <2>6, ShapeSetOK, SMTT(30) DEF Replaced
  <2>8. VertexOK(x, insertPoint, activePoint) => VertexOK(y, insertPoint, activePoint)
    BY <2>4, <2>6 DEF VertexOK
  <2> QED
    BY <1>1, <1>6, <2>1, <2>4, <2>7, <2>8, ZenonT(30) DEF Dragged, MouseMove
<1> QED
  BY <1>5, <1>9, <1>10, <1>11, SMTT(30) DEF s

\* A release in edit mode lets every shape on the canvas go.
Released ==
  /\ Handled(doc, doc') /\ mouseDrag' = FALSE
  /\ \A s \in ShapeIds :
       \/ ~Grab(doc'.shape[s]) /\ s \in Listed(doc) /\ doc.shape[s].closed
       \/ doc'.shape[s] = doc.shape[s] /\ (s \in Listed(doc) => ~Grab(doc.shape[s]))

\* MouseRelease.
LEMMA MouseReleaseStep ==
  ASSUME Inv, MouseRelease
  PROVE  IF Editing /\ doc.image
         THEN Released /\ activePoint' \in Int /\ insertPoint' \in Int
         ELSE UNCHANGED <<doc, mouseDrag, activePoint, insertPoint>>
<1>1. DocOK(doc) /\ activePoint \in Int /\ insertPoint \in Int
  BY DEF Inv, DocInv, IndexInv
<1>2. CASE Editing /\ doc.image
  <2>1. /\ doc' = ReleaseAll(doc) /\ mouseDrag' = FALSE
        /\ activePoint' = (IF mouseDrag THEN -1 ELSE activePoint) /\ insertPoint' = insertPoint
    BY <1>2, Zenon DEF MouseRelease
  <2>2. activePoint' \in Int /\ insertPoint' \in Int
    BY <1>1, <2>1
  <2>3. /\ Handled(doc, doc')
        /\ \A s \in ShapeIds :
             \/ ~Grab(doc'.shape[s]) /\ s \in Listed(doc) /\ doc.shape[s].closed
             \/ doc'.shape[s] = doc.shape[s] /\ (s \in Listed(doc) => ~doc.shape[s].closed)
    BY <1>1, <2>1, ReleaseOK, Zenon
  <2>4. \A s \in ShapeIds : ~doc.shape[s].closed => ~Grab(doc.shape[s])
    BY Zenon DEF Inv, GrabInv
  <2>5. Released
    BY <2>1, <2>3, <2>4, Zenon DEF Released
  <2> QED
    BY <1>2, <2>2, <2>5
<1>3. CASE ~(Editing /\ doc.image)
  BY <1>3, Zenon DEF MouseRelease, gesture
<1> QED
  BY <1>2, <1>3, SMTT(30)

\* The invariant after a quiet step.
LEMMA QuietInv ==
  ASSUME Inv, Quiet(doc, doc'), UNCHANGED gesture, drawMode' \in DrawModes,
         pending' \in Seq(FileShapes), pending' # <<>> => doc'.cmds = <<>>
  PROVE  Inv'
<1>1. DocInv'
  BY DEF DocInv, Quiet
<1>2. GrabInv'
  BY DEF Inv, GrabInv, Quiet
<1>3. IndexInv'
  BY DEF Inv, IndexInv, gesture
<1> QED
  BY <1>1, <1>2, <1>3 DEF Inv

\* And after a step of edit mode, which no pending shape delays.
LEMMA HandledInv ==
  ASSUME Inv, Running, Handled(doc, doc'), UNCHANGED <<drawMode, pending>>,
         \A s \in ShapeIds : Grab(doc'.shape[s]) => doc'.shape[s].closed,
         mouseDrag' \in BOOLEAN, activePoint' \in Int, insertPoint' \in Int
  PROVE  Inv'
BY DEF Inv, DocInv, GrabInv, IndexInv, Handled, Running

\* Initially.
LEMMA InitInv == Init => Inv
<1> SUFFICES ASSUME Init PROVE Inv
  OBVIOUS
<1>1. DocOK(doc) /\ \A s \in ShapeIds : ~Grab(doc.shape[s])
  BY EmptyOK DEF Init
<1>2. drawMode \in DrawModes /\ pending = <<>> /\ <<>> \in Seq(FileShapes)
  BY DEF Init, DrawModes
<1>3. mouseDrag \in BOOLEAN /\ activePoint = -1 /\ insertPoint = -1
  BY Zenon DEF Init
<1>4. activePoint \in Int /\ insertPoint \in Int
  BY <1>3
<1> QED
  BY <1>1, <1>2, <1>3, <1>4, SMTT(30) DEF Inv, DocInv, GrabInv, IndexInv

\* The steps that need no more than quietness of the document.
QuietSteps ==
  \/ PressDraw \/ DoubleClickDraw \/ Enter \/ NewAnnotation \/ Undo \/ Redo
  \/ OpenNothing \/ OpenFile \/ LoadShape

\* They are quiet.
LEMMA QuietStepsQuiet ==
  ASSUME Inv, QuietSteps
  PROVE  Quiet(doc, doc')
<1>1. OpenNothing \/ OpenFile => Quiet(doc, doc')
  BY OpenQuiet
<1>2. PressDraw => Quiet(doc, doc')
  BY PressDrawStep
<1>3. DoubleClickDraw => Quiet(doc, doc')
  BY DoubleClickStep
<1>4. Enter => Quiet(doc, doc')
  BY EnterStep
<1>5. NewAnnotation => Quiet(doc, doc')
  BY NewAnnotationStep
<1>6. Undo => Quiet(doc, doc')
  BY UndoQuiet
<1>7. Redo => Quiet(doc, doc')
  BY RedoQuiet
<1>8. LoadShape => Quiet(doc, doc')
  BY LoadQuiet
<1> QED
  BY <1>1, <1>2, <1>3, <1>4, <1>5, <1>6, <1>7, <1>8, Zenon DEF QuietSteps

\* They leave the gesture and the mode alone, and shapes wait to be added only
\* while there is no command.
LEMMA QuietStepsRest ==
  ASSUME Inv, QuietSteps
  PROVE  /\ UNCHANGED gesture /\ UNCHANGED mode /\ drawMode' = drawMode
         /\ pending' \in Seq(FileShapes)
         /\ pending' # <<>> => doc'.cmds = <<>>
<1>1. pending \in Seq(FileShapes) /\ (pending # <<>> => doc.cmds = <<>>)
  BY DEF Inv, DocInv
<1>2. CASE LoadShape
  <2>1. UNCHANGED gesture /\ UNCHANGED mode /\ pending' = Tail(pending) /\ pending # <<>>
    BY <1>2 DEF LoadShape
  <2>2. doc'.cmds = <<>>
    BY <1>2, LoadQuiet
  <2>3. pending' \in Seq(FileShapes)
    BY <1>1, <2>1
  <2> QED
    BY <2>1, <2>2, <2>3, SMTT(30) DEF mode
<1>3. CASE OpenFile
  <2>1. UNCHANGED gesture /\ UNCHANGED mode /\ pending' \in LabelFiles \cup {<<>>}
    BY <1>3 DEF OpenFile
  <2>2. doc'.cmds = <<>>
    BY <1>3, OpenQuiet
  <2>3. pending' \in Seq(FileShapes)
    <3>1. LabelFiles \subseteq Seq(FileShapes)
      BY Canvas2DAssumption, Zenon
    <3>2. <<>> \in Seq(FileShapes)
      OBVIOUS
    <3> QED
      BY <2>1, <3>1, <3>2, Zenon
  <2> QED
    BY <2>1, <2>2, <2>3, SMTT(30) DEF mode
<1>4. CASE ~LoadShape /\ ~OpenFile
  <2>1. UNCHANGED gesture /\ UNCHANGED mode /\ pending' = pending /\ Running
    BY <1>4, Zenon DEF QuietSteps, PressDraw, DoubleClickDraw, Enter, NewAnnotation, Undo, Redo,
                       OpenNothing, mouse, Keyboard
  <2> QED
    BY <1>1, <2>1 DEF mode, Running
<1> QED
  BY <1>2, <1>3, <1>4, SMTT(30)

\* The invariant is inductive.
LEMMA NextInv == Inv /\ [Next]_vars => Inv'
<1> SUFFICES ASSUME Inv, [Next]_vars PROVE Inv'
  OBVIOUS
<1>0. /\ DocOK(doc) /\ drawMode \in DrawModes /\ pending \in Seq(FileShapes)
      /\ pending # <<>> => doc.cmds = <<>>
  BY DEF Inv, DocInv
<1>1. CASE QuietSteps
  <2>1. Quiet(doc, doc')
    BY <1>1, QuietStepsQuiet
  <2>2. /\ UNCHANGED gesture /\ drawMode' = drawMode
        /\ pending' \in Seq(FileShapes)
        /\ pending' # <<>> => doc'.cmds = <<>>
    BY <1>1, QuietStepsRest
  <2> QED
    BY <1>0, <2>1, <2>2, QuietInv, SMTT(30)
<1>2. CASE StaleCurrent \/ PaintPastEnd \/ NoImage \/ PressIgnored \/ ChangeMode
  <2>1. doc' = doc /\ UNCHANGED gesture /\ pending' = pending
    BY <1>2, Zenon DEF StaleCurrent, PaintPastEnd, NoImage, PressIgnored, ChangeMode, Fail
  <2>2. drawMode' \in DrawModes
    BY <1>0, <1>2, Canvas2DAssumption, SMTT(30)
       DEF StaleCurrent, PaintPastEnd, NoImage, PressIgnored, ChangeMode, Fail, mode
  <2>3. Quiet(doc, doc')
    BY <1>0, <2>1, QuietSame, SMTT(30)
  <2> QED
    BY <1>0, <2>1, <2>2, <2>3, QuietInv, SMTT(30)
<1>3. CASE PressEdit
  <2>1. /\ Missed \/ \E s \in ShapeIds : Hit(s)
        /\ mouseDrag' \in BOOLEAN /\ activePoint' \in Int /\ insertPoint' \in Int
    BY <1>3, PressEditStep, SMTT(30)
  <2>2. Running /\ UNCHANGED <<drawMode, pending>>
    BY <1>3, SMTT(30) DEF PressEdit, mode
  <2>3. CASE Missed
    <3>1. Handled(doc, doc') /\ \A s \in ShapeIds : Alike(doc.shape[s], doc'.shape[s])
      BY <2>3, SMTT(30) DEF Missed
    <3>2. \A s \in ShapeIds : Grab(doc'.shape[s]) => doc'.shape[s].closed
      BY <3>1, SMTT(30) DEF Inv, GrabInv, Alike, Reshaped, Grab
    <3> QED
      BY <2>1, <2>2, <3>1, <3>2, HandledInv, SMTT(30)
  <2>4. ASSUME NEW s \in ShapeIds, Hit(s) PROVE Inv'
    <3>1. /\ Handled(doc, doc') /\ doc.shape[s].closed /\ Taken(doc.shape[s], doc'.shape[s])
          /\ \A r \in ShapeIds : r # s => Alike(doc.shape[r], doc'.shape[r])
      BY <2>4, Zenon DEF Hit, TakenIn
    <3>2. doc'.shape[s].closed
      BY <3>1, SMTT(30) DEF Taken
    <3>3. \A r \in ShapeIds : r # s => (Grab(doc'.shape[r]) => doc'.shape[r].closed)
      BY <3>1, SMTT(30) DEF Inv, GrabInv, Alike, Reshaped, Grab
    <3> QED
      BY <2>1, <2>2, <3>1, <3>2, <3>3, HandledInv, ZenonT(30)
  <2> QED
    BY <2>1, <2>3, <2>4, SMTT(30)
<1>4. CASE MouseMove
  <2>1. mouseDrag' = mouseDrag /\ \E s \in ShapeIds : Dragged(s)
    BY <1>4, MouseMoveStep
  <2>2. PICK s \in ShapeIds : Dragged(s)
    BY <2>1
  <2>3. Running /\ UNCHANGED <<drawMode, pending>> /\ mouseDrag' \in BOOLEAN
    BY <1>4 DEF MouseMove, mode, Inv, IndexInv
  <2>4. /\ Handled(doc, doc') /\ Reshaped(doc.shape[s], doc'.shape[s])
        /\ \A r \in ShapeIds : r # s => doc'.shape[r] = doc.shape[r]
        /\ activePoint' \in Int /\ insertPoint' \in Int
    BY <2>2, Zenon DEF Dragged
  <2>5. \A r \in ShapeIds : SameFlags(doc.shape[r], doc'.shape[r])
    BY <2>4, SMTT(30) DEF Reshaped, SameFlags
  <2>6. \A r \in ShapeIds : Grab(doc'.shape[r]) => doc'.shape[r].closed
    BY <2>5 DEF Inv, GrabInv, SameFlags, Grab
  <2> QED
    BY <2>3, <2>4, <2>6, HandledInv, SMTT(30)
<1>5. CASE MouseRelease
  <2>1. Running /\ UNCHANGED <<drawMode, pending>>
    BY <1>5 DEF MouseRelease, mode
  <2>2. CASE Editing /\ doc.image
    <3>1. Released /\ activePoint' \in Int /\ insertPoint' \in Int
      BY <1>5, <2>2, MouseReleaseStep, SMTT(30)
    <3>2. Handled(doc, doc') /\ mouseDrag' \in BOOLEAN
      BY <3>1, ZenonT(30) DEF Released
    <3>3. \A s \in ShapeIds : Grab(doc'.shape[s]) => doc'.shape[s].closed
      BY <3>1, Zenon DEF Released, Inv, GrabInv
    <3> QED
      BY <2>1, <3>1, <3>2, <3>3, HandledInv, SMTT(30)
  <2>3. CASE ~(Editing /\ doc.image)
    <3>1. UNCHANGED <<doc, mouseDrag, activePoint, insertPoint>>
      BY <1>5, <2>3, MouseReleaseStep, SMTT(30)
    <3>2. Quiet(doc, doc')
      BY <1>0, <3>1, QuietSame, SMTT(30)
    <3> QED
      BY <1>0, <2>1, <3>1, <3>2, QuietInv, SMTT(30) DEF gesture
  <2> QED
    BY <2>2, <2>3, SMTT(30)
<1>6. CASE UNCHANGED vars
  <2>1. doc' = doc /\ UNCHANGED gesture /\ pending' = pending /\ drawMode' = drawMode
    BY <1>6, SMTT(30) DEF vars, mode
  <2>2. Quiet(doc, doc')
    BY <1>0, <2>1, QuietSame, SMTT(30)
  <2> QED
    BY <1>0, <2>1, <2>2, QuietInv, SMTT(30)
<1> QED
  BY <1>1, <1>2, <1>3, <1>4, <1>5, <1>6, Zenon DEF Next, QuietSteps

\* So it holds throughout.
LEMMA Invariance == Spec => []Inv
BY InitInv, NextInv, PTL DEF Spec

-----------------------------------------------------------------------------
(* The theorems.                                                           *)

\* A command at the top of the undo stack finds its shape.
LEMMA CommandsResolveOK ==
  ASSUME NEW d, DocOK(d)
  PROVE  CommandsResolve(d)
<1>1. ASSUME CanUndo(d), d.cmds[d.idx].op = "AddShape"
      PROVE  FindsItsShape(d, d.cmds[d.idx])
  <2> DEFINE c == d.cmds[d.idx]
             n == Len(d.list)
  <2>1. /\ n \in DOMAIN d.list /\ d.list[n] = c.shape
        /\ d.shape[d.list[n]].name = c.name
    BY <1>1, LastAdded, SMTT(30) DEF IsAdd
  <2>2. n \in Nat /\ DOMAIN d.list = 1 .. n
    BY DocTypes DEF DocOK
  <2>3. Positions(d, c.name) = {n}
    <3>1. \A i \in DOMAIN d.list : d.shape[d.list[i]].name = c.name => i = n
      BY <2>1 DEF DocOK, UniquelyNamed
    <3> HIDE DEF c, n
    <3> QED
      BY <2>1, <3>1, ZenonT(30) DEF Positions
  <2> HIDE DEF c, n
  <2>4. IndexOf(d, c.name) = n - 1
    BY <2>2, <2>3, MinOfOne, SMTT(30) DEF IndexOf
  <2>5. IndexOf(d, c.name) >= 0 /\ IndexOf(d, c.name) + 1 = n
    BY <2>1, <2>2, <2>4, SMTT(30)
  <2>6. FindsItsShape(d, c)
    BY <2>1, <2>5, SMTT(30) DEF FindsItsShape
  <2> QED
    BY <2>6, SMTT(30) DEF c
<1>2. ASSUME CanRedo(d), d.cmds[d.idx + 1].op = "RemoveShape"
      PROVE  FALSE
  <2>1. d.idx \in Nat /\ Len(d.cmds) \in Nat /\ DOMAIN d.cmds = 1 .. Len(d.cmds)
    BY DocTypes DEF DocOK
  <2>2. d.idx + 1 \in DOMAIN d.cmds
    BY <1>2, <2>1, SMTT(30) DEF CanRedo
  <2>3. d.cmds[d.idx + 1].op \in {"AddShape", "AddPoint"}
    BY <2>2 DEF DocOK
  <2> QED
    BY <1>2, <2>3, SMTT(30)
<1> QED
  BY <1>1, <1>2 DEF CommandsResolve

\* Undo finds the shape that its AddShapeCommand added, whatever double clicks
\* and drags did to the vertices without a command.
THEOREM UndoFindsItsShape == Spec => []CommandFindsItsShape
<1>1. Inv => CommandFindsItsShape
  BY CommandsResolveOK DEF Inv, DocInv, CommandFindsItsShape
<1> QED
  BY <1>1, Invariance, PTL

\* A press while drawing gives one vertex to the newest shape and touches no
\* other and no finished one.
THEOREM PressesExtend == Spec => PressExtendsNewest
<1> DEFINE A == PressDraw =>
       LET newest == Last(doc'.list)
           before == IF newest \in Listed(doc) THEN doc.shape[newest].pts ELSE <<>>
       IN  /\ \A s \in Listed(doc) :
                s # newest \/ doc.shape[s].closed => doc'.shape[s] = doc.shape[s]
           /\ Front(doc'.shape[newest].pts) = before
<1>1. Inv /\ [Next]_vars => [A]_vars
  <2> SUFFICES ASSUME Inv, PressDraw PROVE A
    OBVIOUS
  <2> DEFINE t == Last(doc'.list)
  <2>1. Extended(doc, doc')
    BY PressDrawStep, SMTT(30)
  <2>2. \A s \in Listed(doc) : s \in ShapeIds
    BY DocTypes, SMTT(30) DEF Inv, DocInv, DocOK, Listed
  <2>3. /\ \A s \in ShapeIds : s # t => doc'.shape[s] = doc.shape[s]
        /\ t \in Listed(doc) => ~doc.shape[t].closed /\ Front(doc'.shape[t].pts) = doc.shape[t].pts
        /\ t \notin Listed(doc) => Front(doc'.shape[t].pts) = <<>>
    BY <2>1 DEF Extended
  <2> QED
    BY <2>2, <2>3, Zenon
<1> QED
  BY <1>1, Invariance, PTL DEF Spec, PressExtendsNewest

\* Undo changes no shape but that of its command and takes at most one vertex.
THEOREM UndoIsSmall == Spec => UndoTakesOne
<1>1. Inv /\ [Next]_vars =>
        [Undo => \A s \in ShapeIds :
           \/ doc'.shape[s] = doc.shape[s]
           \/ /\ s = doc.cmds[doc.idx].shape
              /\ Len(doc'.shape[s].pts) = Len(doc.shape[s].pts) - 1]_vars
  BY UndoQuiet, Zenon
<1> QED
  BY <1>1, Invariance, PTL DEF Spec, UndoTakesOne

\* A release in edit mode lets everything on the canvas go, also when a shortcut
\* changed the document between the press and the release.
THEOREM ReleaseRepairs == Spec => ReleaseEndsAll
<1>1. Inv /\ [Next]_vars =>
        [MouseRelease /\ Editing /\ doc.image =>
           ~mouseDrag' /\ \A s \in Listed(doc') : ~Grab(doc'.shape[s])]_vars
  <2> SUFFICES ASSUME Inv, MouseRelease, Editing, doc.image
               PROVE  ~mouseDrag' /\ \A s \in Listed(doc') : ~Grab(doc'.shape[s])
    BY Zenon
  <2>1. Released
    BY MouseReleaseStep, SMTT(30)
  <2>2. Listed(doc') = Listed(doc) /\ \A s \in Listed(doc) : s \in ShapeIds
    BY <2>1, DocTypes, SMTT(30) DEF Released, Handled, Inv, DocInv, DocOK, Listed
  <2>3. ~mouseDrag'
    BY <2>1, Zenon DEF Released
  <2> QED
    BY <2>1, <2>2, <2>3, Zenon DEF Released
<1> QED
  BY <1>1, Invariance, PTL DEF Spec, ReleaseEndsAll

\* No shape that stays on the canvas is finished with fewer than two vertices.
TwoAtLeast(d, e) ==
  \A s \in Listed(d) \cap Listed(e) :
    ~d.shape[s].closed /\ e.shape[s].closed => Len(e.shape[s].pts) >= 2

\* A press while drawing.
LEMMA ExtendedTwo ==
  ASSUME NEW d, NEW e, Extended(d, e), NEW s \in ShapeIds, ~d.shape[s].closed, e.shape[s].closed
  PROVE  Len(e.shape[s].pts) >= 2
BY Zenon DEF Extended

\* Every step of the program.
LEMMA NextTwo ==
  ASSUME Inv, Next
  PROVE  TwoAtLeast(doc, doc')
<1> SUFFICES ASSUME NEW s \in Listed(doc), s \in Listed(doc'),
                    ~doc.shape[s].closed, doc'.shape[s].closed
             PROVE  Len(doc'.shape[s].pts) >= 2
  BY SMTT(30) DEF TwoAtLeast
<1>0. DocOK(doc) /\ s \in ShapeIds
  BY DocTypes, SMTT(30) DEF Inv, DocInv, DocOK, Listed
<1>1. CASE PressDraw
  BY <1>0, <1>1, PressDrawStep, ExtendedTwo, SMTT(30)
<1>2. CASE DoubleClickDraw
  <2>1. DoubleClicked(doc, doc')
    BY <1>2, DoubleClickStep
  <2>2. CASE doc' = doc
    BY <2>2
  <2>3. CASE Extended(doc, doc')
    BY <1>0, <2>3, ExtendedTwo, SMTT(30)
  <2>4. ASSUME NEW c, DoubleClosed(doc, c), Extended(c, doc')
        PROVE  Len(doc'.shape[s].pts) >= 2
    <3>1. CASE ~c.shape[s].closed
      BY <1>0, <2>4, <3>1, ExtendedTwo, SMTT(30)
    <3>2. CASE c.shape[s].closed
      <4>1. s = Last(doc.list)
        BY <1>0, <2>4, <3>2, SMTT(30) DEF DoubleClosed
      <4>2. c.list = doc.list /\ Len(c.shape[s].pts) >= 2
        BY <2>4, <4>1, SMTT(30) DEF DoubleClosed
      <4>3. s # Last(doc'.list)
        <5>1. s \in Listed(c)
          BY <4>2, SMTT(30) DEF Listed
        <5> QED
          BY <2>4, <3>2, <5>1, ZenonT(30) DEF Extended
      <4>4. doc'.shape[s] = c.shape[s]
        BY <1>0, <2>4, <4>3, ZenonT(30) DEF Extended
      <4> QED
        BY <4>2, <4>4, SMTT(30)
    <3> QED
      BY <3>1, <3>2, SMTT(30)
  <2> QED
    BY <2>1, <2>2, <2>3, <2>4, SMTT(30) DEF DoubleClicked
<1>3. CASE Enter
  <2>1. NewestClosed(doc, doc') /\ Len(doc.shape[Last(doc.list)].pts) >= 2
    BY <1>3, EnterStep, SMTT(30)
  <2>2. s = Last(doc.list)
    BY <1>0, <2>1, SMTT(30) DEF NewestClosed
  <2> QED
    BY <2>1, <2>2, SMTT(30) DEF NewestClosed
<1>4. CASE NewAnnotation
  <2>1. PICK t \in ShapeIds : Started(doc, t, doc')
    BY <1>4, NewAnnotationStep, SMTT(30)
  <2>2. doc'.shape[s] = doc.shape[s]
    BY <1>0, <2>1, SMTT(30) DEF Started
  <2> QED
    BY <2>2
<1>5. CASE Undo \/ Redo
  <2>1. SameFlags(doc.shape[s], doc'.shape[s])
    BY <1>0, <1>5, UndoQuiet, RedoQuiet, SMTT(30)
  <2> QED
    BY <2>1, SMTT(30) DEF SameFlags
<1>6. CASE OpenNothing \/ OpenFile
  <2>1. doc'.list = <<>>
    BY <1>6, OpenQuiet, SMTT(30)
  <2>2. Listed(doc') = {}
    BY <2>1 DEF Listed
  <2> QED
    BY <2>2, SMTT(30)
<1>7. CASE LoadShape
  <2>1. doc'.shape[s] = doc.shape[s]
    BY <1>7, LoadQuiet, SMTT(30)
  <2> QED
    BY <2>1, SMTT(30)
<1>8. CASE PressEdit
  <2>1. Missed \/ \E t \in ShapeIds : Hit(t)
    BY <1>8, PressEditStep, SMTT(30)
  <2>2. doc'.shape[s].closed = doc.shape[s].closed
    BY <1>0, <2>1, ZenonT(30) DEF Missed, Hit, TakenIn, Alike, Reshaped, Taken
  <2> QED
    BY <2>2
<1>9. CASE MouseMove
  <2>1. PICK t \in ShapeIds : Dragged(t)
    BY <1>9, MouseMoveStep, SMTT(30)
  <2>2. doc'.shape[s].closed = doc.shape[s].closed
    BY <1>0, <2>1, SMTT(30) DEF Dragged, Reshaped
  <2> QED
    BY <2>2
<1>10. CASE MouseRelease
  <2>1. doc.shape[s].closed \/ doc'.shape[s] = doc.shape[s]
    BY <1>0, <1>10, MouseReleaseStep, Zenon DEF Released
  <2> QED
    BY <2>1, SMTT(30)
<1>11. CASE StaleCurrent \/ PaintPastEnd \/ NoImage \/ PressIgnored \/ ChangeMode
  <2>1. doc' = doc
    BY <1>11, Zenon DEF StaleCurrent, PaintPastEnd, NoImage, PressIgnored, ChangeMode, Fail
  <2> QED
    BY <2>1
<1> QED
  BY <1>1, <1>2, <1>3, <1>4, <1>5, <1>6, <1>7, <1>8, <1>9, <1>10, <1>11, Zenon DEF Next

\* A shape is finished with two vertices or more.
THEOREM TwoVerticesToFinish == Spec => FinishedWithTwo
<1>1. Inv /\ [Next]_vars =>
        [\A s \in Listed(doc) \cap Listed(doc') :
           ~doc.shape[s].closed /\ doc'.shape[s].closed => Len(doc'.shape[s].pts) >= 2]_vars
  BY NextTwo, Zenon DEF TwoAtLeast
<1> QED
  BY <1>1, Invariance, PTL DEF Spec, FinishedWithTwo

\* The list of a document whose current index is out of range is empty.
LEMMA StaleIsEmpty ==
  ASSUME NEW d, DocOK(d), ~CurrentInRange(d)
  PROVE  d.list = <<>>
<1>1. d.cur \in Int /\ Len(d.list) \in Nat /\ (d.list # <<>> => d.cur = Len(d.list) - 1)
  BY DocTypes, ZenonT(30) DEF DocOK, NewestIsCurrent
<1> QED
  BY <1>1, SMTT(30) DEF CurrentInRange

\* The program ends only for want of an image, of a shape or of a second vertex.
THEOREM EndsOnlyForWant == Spec => []FaultsForWant
<1>1. Init => FaultsForWant
  BY Zenon DEF Init, FaultsForWant
<1>2. Inv /\ FaultsForWant /\ [Next]_vars => FaultsForWant'
  <2> SUFFICES ASSUME Inv, FaultsForWant, [Next]_vars PROVE FaultsForWant'
    BY SMTT(30)
  <2>1. CASE StaleCurrent
    <3>1. ~CurrentInRange(doc) /\ fault' = "outOfRange" /\ doc' = doc
      BY <2>1 DEF StaleCurrent, Fail
    <3>2. doc.list = <<>>
      BY <3>1, StaleIsEmpty, SMTT(30) DEF Inv, DocInv
    <3> QED
      BY <3>1, <3>2, SMTT(30) DEF FaultsForWant
  <2>2. CASE PaintPastEnd
    <3>1. PICK s \in Listed(doc) :
            DrawReadsPastEnd(doc.shape[s], operat = "draw" /\ ~doc.shape[s].closed)
      BY <2>2 DEF PaintPastEnd
    <3>2. Len(doc.shape[s].pts) = 1
      BY <3>1 DEF DrawReadsPastEnd
    <3>3. fault' = "outOfRange" /\ doc' = doc
      BY <2>2 DEF PaintPastEnd, Fail
    <3> QED
      BY <3>2, <3>3, SMTT(30) DEF FaultsForWant
  <2>3. CASE NoImage
    BY <2>3 DEF NoImage, Fail, FaultsForWant
  <2>4. CASE OpenNothing
    <3>1. ~doc'.image /\ fault' = "uncaught"
      BY <2>4, OpenQuiet, Zenon DEF OpenNothing
    <3> QED
      BY <3>1 DEF FaultsForWant
  <2>5. CASE \/ PressDraw \/ DoubleClickDraw \/ Enter \/ PressEdit \/ PressIgnored \/ MouseMove
             \/ MouseRelease \/ NewAnnotation \/ Undo \/ Redo \/ ChangeMode \/ OpenFile \/ LoadShape
    <3>1. fault = "none" /\ fault' = fault
      BY <2>5, Zenon DEF PressDraw, DoubleClickDraw, Enter, PressEdit, PressIgnored, MouseMove,
                         MouseRelease, NewAnnotation, Undo, Redo, ChangeMode, OpenFile, LoadShape,
                         Running, Keyboard
    <3> QED
      BY <3>1 DEF FaultsForWant
  <2>6. CASE UNCHANGED vars
    BY <2>6 DEF vars, FaultsForWant
  <2> QED
    BY <2>1, <2>2, <2>3, <2>4, <2>5, <2>6, Zenon DEF Next
<1> QED
  BY <1>1, <1>2, Invariance, PTL DEF Spec

-----------------------------------------------------------------------------
(* Without shortcuts while the button is down.                             *)

\* The button is down, and the canvas is in the mode in which it takes hold.
Holding == held /\ Editing /\ doc.image

\* What is held is held by the button: at most one shape, on the canvas, and the
\* index of a vertex that is dragged is one of its own.
HeldInv ==
  /\ pending # <<>> => ~held
  /\ mouseDrag => Holding
  /\ \A s \in ShapeIds : Grab(doc.shape[s]) => Holding /\ s \in Listed(doc)
  /\ \A s, t \in ShapeIds : Grab(doc.shape[s]) /\ Grab(doc.shape[t]) => s = t
  /\ \A s \in ShapeIds : mouseDrag /\ doc.shape[s].press =>
       VertexOK(doc.shape[s], insertPoint, activePoint)

\* With the button up nothing is held.
LEMMA UpIsFree ==
  ASSUME HeldInv, ~held
  PROVE  ~mouseDrag /\ \A s \in ShapeIds : ~Grab(doc.shape[s])
BY Zenon DEF HeldInv, Holding

\* A step after which nothing is held.
LEMMA FreeHeld ==
  ASSUME ~mouseDrag', \A s \in ShapeIds : ~Grab(doc'.shape[s]), pending' # <<>> => ~held'
  PROVE  HeldInv'
BY Zenon DEF HeldInv

\* A step that finds the button up and takes hold of nothing.
LEMMA QuietHeld ==
  ASSUME HeldInv, ~held, Quiet(doc, doc'), mouseDrag' = mouseDrag, pending' # <<>> => ~held'
  PROVE  HeldInv'
<1>1. ~mouseDrag /\ \A s \in ShapeIds : ~Grab(doc.shape[s])
  BY UpIsFree
<1>2. \A s \in ShapeIds : ~Grab(doc'.shape[s])
  BY <1>1, Zenon DEF Quiet
<1> QED
  BY <1>1, <1>2, FreeHeld, Zenon

\* A press in edit mode.
LEMMA PressHeld ==
  ASSUME Inv, HeldInv, PressEdit
  PROVE  HeldInv'
<1>1. ~mouseDrag /\ \A s \in ShapeIds : ~Grab(doc.shape[s])
  BY UpIsFree, Zenon DEF PressEdit
<1>2. Missed \/ \E s \in ShapeIds : Hit(s)
  BY PressEditStep
<1>3. pending' = <<>>
  BY Zenon DEF PressEdit, Running
<1>4. CASE Missed
  <2>1. \A s \in ShapeIds : ~Grab(doc'.shape[s])
    BY <1>1, <1>4 DEF Missed, Alike, Reshaped, Grab
  <2>2. ~mouseDrag'
    BY <1>1, <1>4, Zenon DEF Missed
  <2> QED
    BY <1>3, <2>1, <2>2, FreeHeld, Zenon
<1>5. ASSUME NEW s \in ShapeIds, Hit(s) PROVE HeldInv'
  <2>1. Handled(doc, doc') /\ s \in Listed(doc) /\ Taken(doc.shape[s], doc'.shape[s])
    BY <1>5, Zenon DEF Hit, TakenIn
  <2>2. \A r \in ShapeIds : r # s => ~Grab(doc'.shape[r])
    BY <1>1, <1>5 DEF Hit, TakenIn, Alike, Reshaped, Grab
  <2>3. Holding' /\ s \in Listed(doc')
    <3>1. held' = TRUE /\ Editing' /\ doc.image
      BY Zenon DEF PressEdit, Editing, mode
    <3>2. doc'.image = doc.image /\ Listed(doc') = Listed(doc)
      BY <2>1 DEF Handled, Listed
    <3> QED
      BY <2>1, <3>1, <3>2, Zenon DEF Holding
  <2>4. mouseDrag' => VertexOK(doc'.shape[s], insertPoint', activePoint')
    <3>1. mouseDrag' => VertexOK(doc.shape[s], insertPoint', activePoint')
      BY <1>1, <1>5, Zenon DEF Hit
    <3>2. doc'.shape[s].type = doc.shape[s].type /\ doc'.shape[s].pts = doc.shape[s].pts
      BY <2>1, Zenon DEF Taken
    <3> QED
      BY <3>1, <3>2, Zenon DEF VertexOK
  <2>5. \A r \in ShapeIds : doc'.shape[r].press => Grab(doc'.shape[r])
    BY Zenon DEF Grab
  <2> QED
    BY <1>3, <2>2, <2>3, <2>4, <2>5, Zenon DEF HeldInv
<1> QED
  BY <1>2, <1>4, <1>5, SMTT(30)

\* A move of the mouse.
LEMMA MoveHeld ==
  ASSUME Inv, HeldInv, MouseMove
  PROVE  HeldInv'
<1>1. mouseDrag' = mouseDrag /\ \E s \in ShapeIds : Dragged(s)
  BY MouseMoveStep
<1>2. PICK s \in ShapeIds : Dragged(s)
  BY <1>1
<1>3. /\ Handled(doc, doc') /\ Grab(doc.shape[s]) /\ Reshaped(doc.shape[s], doc'.shape[s])
      /\ \A r \in ShapeIds : r # s => doc'.shape[r] = doc.shape[r]
      /\ mouseDrag /\ doc.shape[s].press /\ VertexOK(doc.shape[s], insertPoint, activePoint) =>
           VertexOK(doc'.shape[s], insertPoint', activePoint')
  BY <1>2, Zenon DEF Dragged
<1>4. \A r \in ShapeIds : /\ doc'.shape[r].press = doc.shape[r].press
                          /\ Grab(doc'.shape[r]) => Grab(doc.shape[r])
  BY <1>3, SMTT(30) DEF Reshaped, Grab
<1>5. Holding' = Holding /\ Listed(doc') = Listed(doc)
  <2>1. held' = held /\ Editing' = Editing
    BY DEF MouseMove, Editing, mode, mouse
  <2> QED
    BY <1>3, <2>1, ZenonT(30) DEF Handled, Holding, Listed
<1>6. \A r \in ShapeIds : doc.shape[r].press => r = s
  <2>1. \A r \in ShapeIds : doc.shape[r].press => Grab(doc.shape[r])
    BY Zenon DEF Grab
  <2> QED
    BY <1>3, <2>1, Zenon DEF HeldInv
<1>7. pending' = <<>>
  BY Zenon DEF MouseMove, Running
<1>8. \A r \in ShapeIds : mouseDrag' /\ doc'.shape[r].press =>
        VertexOK(doc'.shape[r], insertPoint', activePoint')
  BY <1>1, <1>3, <1>4, <1>6, Zenon DEF HeldInv
<1> QED
  BY <1>1, <1>4, <1>5, <1>7, <1>8, Zenon DEF HeldInv

\* A release.
LEMMA ReleaseHeld ==
  ASSUME Inv, HeldInv, MouseRelease
  PROVE  HeldInv'
<1>1. pending' = <<>>
  BY Zenon DEF MouseRelease, Running
<1>2. CASE Editing /\ doc.image
  <2>1. Released
    BY <1>2, MouseReleaseStep
  <2>2. \A s \in ShapeIds : ~Grab(doc'.shape[s])
    BY <2>1, Zenon DEF Released, HeldInv
  <2>3. ~mouseDrag'
    BY <2>1, Zenon DEF Released
  <2> QED
    BY <1>1, <2>2, <2>3, FreeHeld, Zenon
<1>3. CASE ~(Editing /\ doc.image)
  <2>1. UNCHANGED <<doc, mouseDrag, activePoint, insertPoint>>
    BY <1>3, MouseReleaseStep
  <2>2. ~mouseDrag /\ \A s \in ShapeIds : ~Grab(doc.shape[s])
    BY <1>3, Zenon DEF HeldInv, Holding
  <2>3. ~mouseDrag' /\ \A s \in ShapeIds : ~Grab(doc'.shape[s])
    BY <2>1, <2>2, Zenon
  <2> QED
    BY <1>1, <2>3, FreeHeld, Zenon
<1> QED
  BY <1>2, <1>3

\* The quiet steps find the button up.
LEMMA QuietStepsUp ==
  ASSUME KeysWhileHeld = FALSE, HeldInv, QuietSteps
  PROVE  ~held /\ (pending' # <<>> => ~held')
<1>1. CASE LoadShape
  BY <1>1, Zenon DEF LoadShape, HeldInv, mouse
<1>2. CASE OpenFile
  BY <1>2, Zenon DEF OpenFile, Keyboard
<1>3. CASE ~LoadShape /\ ~OpenFile
  <2>1. Running /\ ~held /\ pending' = pending
    BY <1>3, Zenon DEF QuietSteps, PressDraw, DoubleClickDraw, Enter, NewAnnotation, Undo, Redo,
                       OpenNothing, Keyboard
  <2> QED
    BY <2>1, Zenon DEF Running
<1> QED
  BY <1>1, <1>2, <1>3, SMTT(30)

\* The invariant of the button is inductive, given the other.
LEMMA NextHeld ==
  ASSUME KeysWhileHeld = FALSE, Inv, HeldInv, [Next]_vars
  PROVE  HeldInv'
<1>1. CASE QuietSteps
  <2>1. Quiet(doc, doc') /\ mouseDrag' = mouseDrag
    BY <1>1, QuietStepsQuiet, QuietStepsRest, SMTT(30) DEF gesture
  <2>2. ~held /\ (pending' # <<>> => ~held')
    BY <1>1, QuietStepsUp, ZenonT(30)
  <2> QED
    BY <2>1, <2>2, QuietHeld, SMTT(30)
<1>2. CASE PressIgnored \/ ChangeMode
  <2>1. ~held /\ pending' = <<>> /\ doc' = doc /\ mouseDrag' = mouseDrag
    BY <1>2, Zenon DEF PressIgnored, ChangeMode, Running, gesture
  <2>2. Quiet(doc, doc')
    BY <2>1, QuietSame, SMTT(30) DEF Inv, DocInv
  <2> QED
    BY <2>1, <2>2, QuietHeld, SMTT(30)
<1>3. CASE UNCHANGED <<doc, mode, gesture, mouse, pending>>
  BY <1>3 DEF HeldInv, Holding, Editing, mode, gesture, mouse
<1>4. CASE StaleCurrent \/ PaintPastEnd \/ NoImage \/ UNCHANGED vars
  BY <1>3, <1>4, Zenon DEF StaleCurrent, PaintPastEnd, NoImage, Fail, vars
<1> QED
  BY <1>1, <1>2, <1>4, PressHeld, MoveHeld, ReleaseHeld, Zenon DEF Next, QuietSteps

\* So it holds throughout.
LEMMA HeldInvariance ==
  ASSUME KeysWhileHeld = FALSE
  PROVE  Spec => []HeldInv
<1>1. Init => HeldInv
  <2> SUFFICES ASSUME Init PROVE HeldInv
    OBVIOUS
  <2>1. \A s \in ShapeIds : ~Grab(doc.shape[s])
    BY EmptyOK, Zenon DEF Init
  <2>2. mouseDrag = FALSE /\ pending = <<>>
    BY Zenon DEF Init
  <2> QED
    BY <2>1, <2>2, Zenon DEF HeldInv
<1>2. Inv /\ HeldInv /\ [Next]_vars => HeldInv'
  BY NextHeld, ZenonT(30)
<1> QED
  BY <1>1, <1>2, Invariance, PTL DEF Spec

\* Without shortcuts between a press and its release, what is held follows the
\* button.
THEOREM ButtonHoldsOne ==
  ASSUME KeysWhileHeld = FALSE
  PROVE  Spec => []GrabFollowsButton
<1>1. Inv /\ HeldInv => GrabFollowsButton
  <2> SUFFICES ASSUME Inv, HeldInv PROVE GrabFollowsButton
    BY SMTT(30)
  <2>1. \A s \in Listed(doc) : s \in ShapeIds
    BY DocTypes DEF Inv, DocInv, DocOK, Listed
  <2>2. \A s \in HeldShapes : held
    BY <2>1, Zenon DEF HeldShapes, HeldInv, Holding
  <2>3. \A s, t \in HeldShapes : s = t
    BY <2>1, Zenon DEF HeldShapes, HeldInv
  <2>4. CASE HeldShapes = {}
    <3>1. Cardinality(HeldShapes) = 0
      BY <2>4, FS_EmptySet
    <3>2. Cardinality(HeldShapes) <= IF held THEN 1 ELSE 0
      BY <3>1
    <3> QED
      BY <3>2, UpIsFree, Zenon DEF GrabFollowsButton
  <2>5. ASSUME NEW s \in HeldShapes PROVE GrabFollowsButton
    <3>1. HeldShapes = {s} /\ held
      BY <2>2, <2>3
    <3>2. Cardinality(HeldShapes) = 1
      BY <3>1, FS_Singleton
    <3>3. Cardinality(HeldShapes) <= IF held THEN 1 ELSE 0
      BY <3>1, <3>2, SMTT(30)
    <3> QED
      BY <3>1, <3>3, Zenon DEF GrabFollowsButton
  <2> QED
    BY <2>4, <2>5
<1> QED
  BY <1>1, Invariance, HeldInvariance, PTL

\* And a vertex that is dragged exists.
THEOREM DraggedVertexExists ==
  ASSUME KeysWhileHeld = FALSE
  PROVE  Spec => []GrabbedVertexExists
<1>1. Inv /\ HeldInv => GrabbedVertexExists
  <2> SUFFICES ASSUME Inv, HeldInv PROVE GrabbedVertexExists
    OBVIOUS
  <2>1. \A s \in Listed(doc) : s \in ShapeIds
    BY DocTypes DEF Inv, DocInv, DocOK, Listed
  <2> QED
    BY <2>1, Zenon DEF HeldInv, VertexOK, GrabbedVertexExists
<1> QED
  BY <1>1, Invariance, HeldInvariance, PTL
=============================================================================
