------------------------------ MODULE Canvas2D ------------------------------
(***************************************************************************)
(* Drawing and editing with the mouse: class Canvas2D (canvas/canvas2d)    *)
(* on top of the document of CanvasBase, with the property dialog that     *)
(* Window::slotSetProperty runs and the shortcuts that change the document *)
(* while a gesture is under way.                                           *)
(*                                                                         *)
(* What the hit tests answer for a mouse position is a choice among the    *)
(* answers the shape allows, and a drag moves a shape by one of Shifts,    *)
(* the identity among them (isCloseToEdge may reduce a drag to nothing).   *)
(* The dialog is modal: its outcome is a choice within the handler, and    *)
(* the release of the button that was down when it opened never arrives.   *)
(***************************************************************************)
EXTENDS CanvasBase

CONSTANTS
  Modes,        \* bound: the draw modes that are tried
  Shifts,       \* the translations a drag can make
  LabelFiles,   \* label files: the shapes in them
  MaxCommands,  \* bound: commands on the undo stack
  MaxPoints,    \* bound: vertices of a shape
  KeysWhileHeld \* whether shortcuts are used while the button is down

ASSUME Canvas2DAssumption ==
  /\ Modes \subseteq DrawModes
  /\ Shifts \subseteq [Points -> Points]
  /\ LabelFiles \subseteq Seq(FileShapes)
  /\ MaxCommands \in Nat
  /\ MaxPoints \in Nat
  /\ KeysWhileHeld \in BOOLEAN

VARIABLES
  doc,          \* the document of CanvasBase
  task,         \* m_task
  operat,       \* m_operat
  drawMode,     \* m_draw
  mouseDrag,    \* m_mouseDrag
  activePoint,  \* m_activePoint
  insertPoint,  \* m_insertPoint
  held,         \* the canvas has the mouse: the left button is down
  clicked,      \* the next press can be the second one of a double click
  pending,      \* shapes of a label file that are still to be added
  fault         \* "none", "uncaught" or "outOfRange"

mode    == <<task, operat, drawMode>>
gesture == <<mouseDrag, activePoint, insertPoint>>
mouse   == <<held, clicked>>
vars    == <<doc, mode, gesture, mouse, pending, fault>>

Init ==
  /\ doc = EmptyDocument
  /\ task = "segmentation" /\ operat = "draw" /\ drawMode = "Polygon"
  /\ mouseDrag = FALSE /\ activePoint = -1 /\ insertPoint = -1
  /\ held = FALSE /\ clicked = FALSE
  /\ pending = <<>>
  /\ fault = "none"

Running == fault = "none" /\ pending = <<>>

\* The keyboard reaches the window, the button being up or not.
Keyboard == Running /\ (held => KeysWhileHeld)

Drawing == task = "segmentation" /\ operat = "draw"
Editing == task = "segmentation" /\ operat = "edit"

Fail(how) ==
  /\ fault' = how
  /\ UNCHANGED <<doc, mode, gesture, mouse, pending>>

-----------------------------------------------------------------------------
(* Drawing.                                                                *)

\* Room for what a press pushes: a shape and a point.
Room(d) ==
  /\ d.idx + 2 <= MaxCommands
  /\ \A s \in Listed(d) : Len(d.shape[s].pts) < MaxPoints

\* Mutant: isClosed() is not asked.
NothingListed(d) == d.cur = -1 \/ d.list = <<>>

\* No shape is being drawn: the next press starts one.
NothingOpen(d) ==
  d.cur = -1 \/ d.list = <<>> \/ d.shape[CurrentShape(d)].closed

\* Window::slotSetProperty: the label dialog accepted with a text, or not.
Property(shape) ==
  {shape} \cup {[shape EXCEPT !.label = l] : l \in Labels}

\* setIsClosed and sigSetProperty for the current shape.
Finished(d) ==
  LET s == CurrentShape(d)
  IN  {SetShape(d, s, shape) :
         shape \in Property([d.shape[s] EXCEPT !.closed = TRUE])}

\* The drawing branch of mousePressEvent: the documents it can lead to.
Drawn(d, p) ==
  LET started == IF NothingOpen(d)
                 THEN {PushAddShape(d, s, drawMode) :
                         s \in ShapeIds \ Referenced(d)}
                 ELSE {d}
      extended == {PushAddPoint(e, p) : e \in started}
      Full(e) == /\ drawMode \in {"Rectangle", "Line"}
                 /\ Len(e.shape[CurrentShape(e)].pts) > 1
  IN  UNION {IF Full(e) THEN Finished(e) ELSE {e} : e \in extended}

\* The dialog ran if the press finished a shape.
DialogRan(d, e) ==
  \E s \in Listed(e) : e.shape[s].closed /\ (s \in Listed(d) => ~d.shape[s].closed)

PressDraw ==
  /\ Running /\ ~held /\ Drawing
  /\ doc.image /\ CurrentInRange(doc) /\ Room(doc)
  /\ \E p \in Points : doc' \in Drawn(doc, p)
  /\ held' = ~DialogRan(doc, doc')
  /\ clicked' = FALSE
  /\ UNCHANGED <<mode, gesture, pending, fault>>

\* Mutant: two vertices are enough.
EnoughWithTwo(pts) == Len(pts) > 1

\* Vertices enough to finish a shape, the last click of a double click included.
Enough(pts) == Len(pts) > 2

\* mouseDoubleClickEvent while drawing.  The base class treats the double
\* click as a press, so mousePressEvent runs after the shape is finished;
\* without a current shape the handler returns before that.
DoubleClickDraw ==
  /\ Running /\ ~held /\ clicked /\ Drawing
  /\ doc.image /\ CurrentInRange(doc) /\ Room(doc)
  /\ LET s == CurrentShape(doc)
         pts == doc.shape[s].pts
         cut == SetShape(doc, s, DeletePoint(doc.shape[s], Len(pts) - 1))
         done == IF Enough(pts) THEN Finished(cut) ELSE {doc}
     IN  IF doc.cur = -1
         THEN doc' = doc /\ held' = TRUE
         ELSE /\ \E p \in Points : \E e \in done : doc' \in Drawn(e, p)
              /\ held' = ~(Enough(pts) \/ DialogRan(doc, doc'))
  /\ clicked' = FALSE
  /\ UNCHANGED <<mode, gesture, pending, fault>>

\* keyPressEvent with Return or Enter.
Enter ==
  /\ Keyboard /\ Drawing
  /\ doc.cur # -1 /\ CurrentInRange(doc)
  /\ Enough(doc.shape[CurrentShape(doc)].pts)
  /\ doc' \in Finished(doc)
  /\ held' = FALSE
  /\ clicked' = FALSE
  /\ UNCHANGED <<mode, gesture, pending, fault>>

\* A press, a double click, a move of the mouse or Enter looks up the current
\* shape of a list that was emptied behind its back.
StaleCurrent ==
  /\ Running /\ Drawing
  /\ ~CurrentInRange(doc)
  /\ Fail("outOfRange")

\* Canvas2D::drawShape, run whenever the canvas is painted: draw() reads the
\* second vertex of a shape that has one.  Each shape that is not closed gets
\* its rubber-band point while drawing.
PaintPastEnd ==
  /\ Running /\ task = "segmentation"
  /\ \E s \in Listed(doc) :
       DrawReadsPastEnd(doc.shape[s], operat = "draw" /\ ~doc.shape[s].closed)
  /\ Fail("outOfRange")

\* mousePressEvent and Ctrl+N call getImage() outside any try block.
NoImage ==
  /\ Running
  /\ ~doc.image
  /\ Fail("uncaught")

-----------------------------------------------------------------------------
(* Editing.                                                                *)

\* A hit on shape i of the list: the shapes before it are not hit and lose
\* their selection.  Shapes that are not closed do not take part.
Deselect(d, n) ==
  [d EXCEPT !.shape = [s \in ShapeIds |->
     IF d.shape[s].closed /\ \E i \in 1 .. n : d.list[i] = s
     THEN [d.shape[s] EXCEPT !.select = FALSE]
     ELSE d.shape[s]]]

PressEdge(i, pos) ==
  /\ drawMode \in {"Polygon", "Polyline"}
  /\ pos \in EdgeHits(doc.shape[doc.list[i]])
  /\ doc' = LET d == Deselect(doc, i - 1) IN
            SetShape(d, d.list[i], [d.shape[d.list[i]] EXCEPT !.press = TRUE])
  /\ mouseDrag' = TRUE /\ insertPoint' = pos /\ activePoint' = -1

\* Mutant: m_insertPoint is not reset by the press.
PressPointOnly(i, pos) ==
  /\ pos \in PointHits(doc.shape[doc.list[i]])
  /\ doc' = LET d == Deselect(doc, i) IN
            SetShape(d, d.list[i], [d.shape[d.list[i]] EXCEPT !.press = TRUE])
  /\ mouseDrag' = TRUE /\ activePoint' = pos
  /\ UNCHANGED insertPoint

PressPoint(i, pos) ==
  /\ pos \in PointHits(doc.shape[doc.list[i]])
  /\ doc' = LET d == Deselect(doc, i) IN
            SetShape(d, d.list[i], [d.shape[d.list[i]] EXCEPT !.press = TRUE])
  /\ mouseDrag' = TRUE /\ activePoint' = pos /\ insertPoint' = -1

PressArea(i) ==
  /\ AreaHit(doc.shape[doc.list[i]])
  /\ doc' = LET d == Deselect(doc, i - 1) IN
            SetShape(d, d.list[i], [d.shape[d.list[i]] EXCEPT
                                      !.drag = TRUE, !.select = TRUE])
  /\ activePoint' = -1 /\ insertPoint' = -1
  /\ UNCHANGED mouseDrag

PressNothing ==
  /\ doc' = Deselect(doc, Len(doc.list))
  /\ activePoint' = -1 /\ insertPoint' = -1
  /\ UNCHANGED mouseDrag

\* The editing branch of mousePressEvent; the base class makes a press of a
\* double click here as well.
PressEdit ==
  /\ Running /\ ~held /\ Editing
  /\ doc.image
  /\ ~mouseDrag
  /\ \/ PressNothing
     \/ \E i \in DOMAIN doc.list :
          /\ doc.shape[doc.list[i]].closed
          /\ \/ \E pos \in 0 .. MaxPoints : PressEdge(i, pos) \/ PressPoint(i, pos)
             \/ PressArea(i)
  /\ held' = TRUE /\ clicked' = FALSE
  /\ UNCHANGED <<mode, pending, fault>>

\* A press that changes nothing: m_mouseDrag is still set, or the task is
\* detection.
PressIgnored ==
  /\ Running /\ ~held
  /\ doc.image
  /\ task = "detection" \/ (Editing /\ mouseDrag)
  /\ held' = TRUE /\ clicked' = FALSE
  /\ UNCHANGED <<doc, mode, gesture, pending, fault>>

\* The shapes a move of the mouse can act on; the loop takes the first.
Grabbed ==
  {i \in DOMAIN doc.list :
     LET shape == doc.shape[doc.list[i]]
     IN  /\ shape.closed
         /\ \/ shape.press /\ (insertPoint >= 0 \/ mouseDrag)
            \/ shape.drag}

DragNewVertex(s) ==
  LET shape == doc.shape[s] IN
  /\ shape.press /\ insertPoint >= 0
  /\ Len(shape.pts) < MaxPoints
  /\ \E p \in Points :
       doc' = SetShape(doc, s, InsertPoint(shape, p, insertPoint))
  /\ activePoint' = insertPoint /\ insertPoint' = -1

DragVertex(s) ==
  LET shape == doc.shape[s] IN
  /\ shape.press /\ insertPoint < 0 /\ mouseDrag
  /\ \E p \in Points :
       doc' = SetShape(doc, s, UpdatePoint(shape, p, activePoint))
  /\ UNCHANGED <<activePoint, insertPoint>>

DragShape(s) ==
  LET shape == doc.shape[s] IN
  /\ ~(shape.press /\ (insertPoint >= 0 \/ mouseDrag))
  /\ \E f \in Shifts : doc' = SetShape(doc, s, Move(shape, f))
  /\ UNCHANGED <<activePoint, insertPoint>>

\* mouseMoveEvent.  Some button is down: the left one, or another one, whose
\* press changes nothing.
MouseMove ==
  /\ Running /\ Editing
  /\ Grabbed # {}
  /\ LET s == doc.list[Min(Grabbed)]
     IN  DragNewVertex(s) \/ DragVertex(s) \/ DragShape(s)
  /\ UNCHANGED <<mode, mouseDrag, mouse, pending, fault>>

\* Mutants: a dragged shape is not let go; only the current shape is let go.
ReleasePressed(d) ==
  [d EXCEPT !.shape = [s \in ShapeIds |->
     IF s \in Listed(d) /\ d.shape[s].closed
     THEN [d.shape[s] EXCEPT !.press = FALSE]
     ELSE d.shape[s]]]

ReleaseCurrent(d) ==
  IF d.list = <<>> THEN d
  ELSE SetShape(d, Last(d.list),
                [d.shape[Last(d.list)] EXCEPT !.press = FALSE, !.drag = FALSE])

\* Every closed shape is let go.
ReleaseAll(d) ==
  [d EXCEPT !.shape = [s \in ShapeIds |->
     IF s \in Listed(d) /\ d.shape[s].closed
     THEN [d.shape[s] EXCEPT !.press = FALSE, !.drag = FALSE]
     ELSE d.shape[s]]]

\* mouseReleaseEvent does not ask which button it was: held' = held is the
\* release of another button.
MouseRelease ==
  /\ Running
  /\ held' \in {FALSE, held}
  /\ clicked' = (held /\ ~held')
  /\ IF Editing /\ doc.image
     THEN /\ doc' = ReleaseAll(doc)
          /\ mouseDrag' = FALSE
          /\ activePoint' = IF mouseDrag THEN -1 ELSE activePoint
          /\ UNCHANGED insertPoint
     ELSE UNCHANGED <<doc, gesture>>
  /\ UNCHANGED <<mode, pending, fault>>

-----------------------------------------------------------------------------
(* The rest of the window.                                                 *)

\* Ctrl+N.
NewAnnotation ==
  /\ Keyboard
  /\ doc.image
  /\ doc.idx < MaxCommands
  /\ \E s \in ShapeIds \ Referenced(doc) : doc' = PushAddShape(doc, s, drawMode)
  /\ UNCHANGED <<mode, gesture, mouse, pending, fault>>

Undo ==
  /\ Keyboard
  /\ CanUndo(doc)
  /\ doc' = UndoStep(doc)
  /\ UNCHANGED <<mode, gesture, mouse, pending, fault>>

Redo ==
  /\ Keyboard
  /\ CanRedo(doc)
  /\ doc' = RedoStep(doc)
  /\ \A s \in ShapeIds : Len(doc'.shape[s].pts) <= MaxPoints
  /\ UNCHANGED <<mode, gesture, mouse, pending, fault>>

\* The combo boxes are operated with the mouse.
ChangeMode ==
  /\ Running /\ ~held
  /\ task' \in {"detection", "segmentation"}
  /\ operat' \in {"draw", "edit"}
  /\ drawMode' \in Modes
  /\ clicked' = FALSE
  /\ UNCHANGED <<doc, gesture, held, pending, fault>>

\* Ctrl+O with no image that can be loaded, with an image, and with a label
\* file.  The file dialog takes the release.
OpenNothing ==
  /\ Keyboard
  /\ doc' = Clean(doc)
  /\ fault' = "uncaught"
  /\ held' = FALSE /\ clicked' = FALSE
  /\ UNCHANGED <<mode, gesture, pending>>

OpenFile ==
  /\ Keyboard
  /\ doc' = [Clean(doc) EXCEPT !.image = TRUE]
  /\ pending' \in LabelFiles \cup {<<>>}
  /\ held' = FALSE /\ clicked' = FALSE
  /\ UNCHANGED <<mode, gesture, fault>>

LoadShape ==
  /\ fault = "none"
  /\ pending # <<>>
  /\ \E s \in ShapeIds \ Referenced(doc) :
       doc' = AddLoaded(doc, s, drawMode, Head(pending))
  /\ pending' = Tail(pending)
  /\ UNCHANGED <<mode, gesture, mouse, fault>>

-----------------------------------------------------------------------------

Next ==
  \/ PressDraw \/ DoubleClickDraw \/ Enter
  \/ StaleCurrent \/ PaintPastEnd \/ NoImage
  \/ PressEdit \/ PressIgnored \/ MouseMove \/ MouseRelease
  \/ NewAnnotation \/ Undo \/ Redo
  \/ ChangeMode \/ OpenNothing \/ OpenFile \/ LoadShape

Spec == Init /\ [][Next]_vars

-----------------------------------------------------------------------------
(* Properties.                                                             *)

\* Undo and redo find the shapes they delete, also after vertices were moved,
\* inserted or removed behind the back of the undo stack.
CommandFindsItsShape == CommandsResolve(doc)

HeldShapes == {s \in Listed(doc) : Grab(doc.shape[s])}

\* When the button is up, no shape on the canvas is held and no vertex drag is
\* under way: moving the mouse changes nothing.  When it is down, one shape at
\* most is held, so the first one mouseMoveEvent finds is the one that was
\* pressed.  It rests on the mode not changing between a press and its release,
\* and on no shortcut taking the shape off the canvas in between.
GrabFollowsButton ==
  /\ Cardinality(HeldShapes) <= IF held THEN 1 ELSE 0
  /\ ~held => ~mouseDrag

\* While a vertex is dragged, its index is one of the held shape: updatePoint
\* does not throw and insertPoint does not lose the point.  A Rectangle is
\* different: its edges can be held, and insertPoint() does nothing for it.
GrabbedVertexExists ==
  \A s \in Listed(doc) :
    LET shape == doc.shape[s]
    IN  mouseDrag /\ shape.press /\ shape.type # "Rectangle" =>
          \/ insertPoint \in 1 .. Len(shape.pts)
          \/ insertPoint = -1 /\ activePoint \in 0 .. Len(shape.pts) - 1

\* A press while drawing adds one vertex to the newest shape and leaves every
\* other shape alone, and it never touches a shape that is finished.
PressExtendsNewest ==
  [][PressDraw =>
       LET newest == Last(doc'.list)
           before == IF newest \in Listed(doc) THEN doc.shape[newest].pts ELSE <<>>
       IN  /\ \A s \in Listed(doc) :
                s # newest \/ doc.shape[s].closed => doc'.shape[s] = doc.shape[s]
           /\ Front(doc'.shape[newest].pts) = before]_vars

\* A shape that a press, a double click or Enter finishes has at least two
\* vertices, in whatever draw mode it was begun: draw() of a finished Rectangle
\* or Line reads the second one.
FinishedWithTwo ==
  [][\A s \in Listed(doc) \cap Listed(doc') :
       ~doc.shape[s].closed /\ doc'.shape[s].closed => Len(doc'.shape[s].pts) >= 2]_vars

\* Undo changes no shape but that of its command and takes at most one vertex
\* from it, also when a double click or a drag changed the vertices without a
\* command and the index the command remembers is that of another one.
UndoTakesOne ==
  [][Undo =>
       \A s \in ShapeIds :
         \/ doc'.shape[s] = doc.shape[s]
         \/ /\ s = doc.cmds[doc.idx].shape
            /\ Len(doc'.shape[s].pts) = Len(doc.shape[s].pts) - 1]_vars

\* Releasing a button in edit mode lets everything on the canvas go, also what
\* undo, redo or another file left held in the middle of a gesture: what a
\* shortcut spoils, the next click repairs.
ReleaseEndsAll ==
  [][MouseRelease /\ Editing /\ doc.image =>
       ~mouseDrag' /\ \A s \in Listed(doc') : ~Grab(doc'.shape[s])]_vars

\* The program ends only for want of something: an exception leaves a handler
\* uncaught when there is no image (before the first file, or when openFile
\* cleaned the canvas and could not load one); a container is read outside its
\* range when the list is empty, or when a shape has one vertex, as undo leaves
\* a finished Rectangle.
FaultsForWant ==
  /\ fault = "uncaught" => ~doc.image
  /\ fault = "outOfRange" =>
       doc.list = <<>> \/ \E s \in Listed(doc) : Len(doc.shape[s].pts) = 1
=============================================================================
