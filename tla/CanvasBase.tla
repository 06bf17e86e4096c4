----------------------------- MODULE CanvasBase -----------------------------
(***************************************************************************)
(* The annotation document that class CanvasBase keeps (canvas/canvasbase) *)
(* and the undo commands that change it (controllers/commands).            *)
(*                                                                         *)
(* A document is a record:                                                 *)
(*   image  whether m_image holds an image                                 *)
(*   list   m_shapeList, the identities of the shapes on the canvas        *)
(*   cur    m_currentIndex                                                 *)
(*   shape  the shape objects; the list and the commands share them, so a  *)
(*          shape taken off the list lives on in the undo stack            *)
(*   cmds   the commands of m_undoStack                                    *)
(*   idx    QUndoStack::index(), the number of commands that are done      *)
(***************************************************************************)
EXTENDS Shape, FiniteSets

CONSTANT ShapeIds

Commands ==
       [op : {"AddShape"},    shape : ShapeIds, name : Names]
  \cup [op : {"RemoveShape"}, shape : ShapeIds, name : Names]
  \cup [op : {"AddPoint"},    shape : ShapeIds, name : Nat, point : Points]

Documents ==
  [image : BOOLEAN,
   list  : Seq(ShapeIds),
   cur   : Int,
   shape : [ShapeIds -> ShapeRecords],
   cmds  : Seq(Commands),
   idx   : Nat]

\* No object is referenced: what the record holds for each does not matter.
NoObjects == [s \in ShapeIds |-> NewShape("Polygon")]

EmptyDocument ==
  [image |-> FALSE, list |-> <<>>, cur |-> -1, shape |-> NoObjects,
   cmds  |-> <<>>, idx |-> 0]

-----------------------------------------------------------------------------
(* Looking shapes up.                                                      *)

Listed(d) == {d.list[i] : i \in DOMAIN d.list}

\* Shape objects that a shared pointer still refers to.
Referenced(d) == Listed(d) \cup {d.cmds[i].shape : i \in DOMAIN d.cmds}

ListedNames(d) == {d.shape[s].name : s \in Listed(d)}

Positions(d, name) == {i \in DOMAIN d.list : d.shape[d.list[i]].name = name}

\* The shapes on the canvas as the user sees them.
Entries == [id : ShapeIds, shape : ShapeRecords]
Content(d) ==
  [i \in DOMAIN d.list |-> [id |-> d.list[i], shape |-> d.shape[d.list[i]]]]

IndexOf(d, name) ==
  IF Positions(d, name) = {} THEN -1 ELSE Min(Positions(d, name)) - 1

\* m_shapeList.at(m_currentIndex) stays inside the list.
CurrentInRange(d) == d.cur < Len(d.list)

CurrentShape(d) == d.list[d.cur + 1]

\* CanvasBase::uniqueName: the first number whose name is free.  One of the
\* first Cardinality(taken) + 1 numbers is, so the unbounded loop ends.
UniqueName(taken, text) ==
  <<text, Min({i \in 0 .. Cardinality(taken) : <<text, i>> \notin taken})>>

-----------------------------------------------------------------------------
(* Changing the list.                                                      *)

AddShape(d, s) ==
  LET name == UniqueName(ListedNames(d), TypeToString(d.shape[s].type))
  IN  [d EXCEPT !.list     = Append(@, s),
                !.shape[s] = [@ EXCEPT !.name = name],
                !.cur      = Len(d.list)]

DeleteShape(d, name) ==
  LET index == IndexOf(d, name)
      left  == RemoveAt(d.list, index + 1)
  IN  IF index = -1
      THEN d
      ELSE [d EXCEPT !.list = left,
                     !.cur  = IF index > @ THEN @
                              ELSE IF index = Len(left) THEN index - 1
                              ELSE index]

SetShape(d, s, shape) == [d EXCEPT !.shape[s] = shape]

\* Mutant: the image is not reset.
CleanKeepingImage(d) == [EmptyDocument EXCEPT !.cur = d.cur, !.image = d.image]

\* CanvasBase::clean frees every shape and leaves m_currentIndex as it is.
Clean(d) == [EmptyDocument EXCEPT !.cur = d.cur]

-----------------------------------------------------------------------------
(* The commands: redo() and undo() of command i of the stack.              *)

\* Mutant: the command keeps the name it had.
AddAndForget(d, i) == AddShape(d, d.cmds[i].shape)

\* The shape of command i goes (back) on the canvas, and the command remembers
\* the name it gets there.
AddAndRemember(d, i) ==
  LET c == d.cmds[i]
      added == AddShape(d, c.shape)
  IN  [added EXCEPT !.cmds[i] = [@ EXCEPT !.name = added.shape[c.shape].name]]

\* Mutant: a point whose index is taken after it was appended.
RedoCountingAfter(d, i) ==
  LET c == d.cmds[i]
  IN  CASE c.op = "AddShape"    -> AddAndRemember(d, i)
        [] c.op = "RemoveShape" -> DeleteShape(d, c.name)
        [] c.op = "AddPoint"    ->
             [d EXCEPT !.shape[c.shape] = AppendPoint(@, c.point),
                       !.cmds[i] = [@ EXCEPT !.name = Len(d.shape[c.shape].pts) + 1]]

RedoCommand(d, i) ==
  LET c == d.cmds[i]
  IN  CASE c.op = "AddShape"    -> AddAndRemember(d, i)
        [] c.op = "RemoveShape" -> DeleteShape(d, c.name)
        [] c.op = "AddPoint"    ->
             [d EXCEPT !.shape[c.shape] = AppendPoint(@, c.point),
                       !.cmds[i] = [@ EXCEPT !.name = Len(d.shape[c.shape].pts)]]

\* Mutant: undoing a removal puts the shape back as a new one, without its
\* vertices.
UndoWithNewShape(d, i) ==
  LET c == d.cmds[i]
  IN  CASE c.op = "AddShape"    -> DeleteShape(d, c.name)
        [] c.op = "RemoveShape" ->
             AddAndRemember(SetShape(d, c.shape, NewShape(d.shape[c.shape].type)), i)
        [] c.op = "AddPoint"    ->
             [d EXCEPT !.shape[c.shape] = DeletePoint(@, c.name)]

\* Mutant: undoing a point cuts the vertices off at its index.
UndoCutting(d, i) ==
  LET c == d.cmds[i]
  IN  CASE c.op = "AddShape"    -> DeleteShape(d, c.name)
        [] c.op = "RemoveShape" -> AddAndRemember(d, i)
        [] c.op = "AddPoint"    ->
             [d EXCEPT !.shape[c.shape] = [@ EXCEPT !.pts = SubSeq(@, 1, c.name)]]

UndoCommand(d, i) ==
  LET c == d.cmds[i]
  IN  CASE c.op = "AddShape"    -> DeleteShape(d, c.name)
        [] c.op = "RemoveShape" -> AddAndRemember(d, i)
        [] c.op = "AddPoint"    ->
             [d EXCEPT !.shape[c.shape] = DeletePoint(@, c.name)]

\* Mutant: the index is taken before the undone commands are dropped.
PushBeforeDropping(d, c) ==
  LET pushed == [d EXCEPT !.cmds = Append(SubSeq(@, 1, d.idx), c),
                          !.idx  = Len(d.cmds) + 1]
  IN  RedoCommand(pushed, Len(pushed.cmds))

\* QUndoStack (external): push drops the undone commands and runs redo().
Push(d, c) ==
  LET pushed == [d EXCEPT !.cmds = Append(SubSeq(@, 1, d.idx), c),
                          !.idx  = @ + 1]
  IN  RedoCommand(pushed, pushed.idx)

CanUndo(d) == d.idx > 0
CanRedo(d) == d.idx < Len(d.cmds)

UndoStep(d) == [UndoCommand(d, d.idx) EXCEPT !.idx = d.idx - 1]
RedoStep(d) == [RedoCommand(d, d.idx + 1) EXCEPT !.idx = d.idx + 1]

-----------------------------------------------------------------------------
(* The slots of CanvasView and of the window that change the document.     *)

\* CanvasView::addShape for the new object s; the caller has an image.
PushAddShape(d, s, type) ==
  Push(SetShape(d, s, NewShape(type)),
       [op |-> "AddShape", shape |-> s, name |-> EmptyName])

\* CanvasView::addPoint; nothing happens without a current shape.
PushAddPoint(d, p) ==
  IF d.cur = -1
  THEN d
  ELSE Push(d, [op |-> "AddPoint", shape |-> CurrentShape(d), name |-> 0,
                point |-> p])

\* CanvasView::removeShape; the command looks its shape up by name.
PushRemoveShape(d) ==
  LET name == IF d.cur = -1 THEN EmptyName ELSE d.shape[CurrentShape(d)].name
  IN  IF name = EmptyName
      THEN d
      ELSE Push(d, [op |-> "RemoveShape",
                    shape |-> d.list[IndexOf(d, name) + 1], name |-> name])

\* One round of the loop of openFile over root.shapes; s is the new object,
\* which does not go through the undo stack.
AddLoaded(d, s, type, f) == AddShape(SetShape(d, s, LoadedShape(type, f)), s)

-----------------------------------------------------------------------------
(* What a document should satisfy.                                         *)

\* Two shapes of the list never have the same name.  indexOf() finds a shape
\* by its name alone: undo would otherwise take the wrong shape away.
UniquelyNamed(d) ==
  \A i, j \in DOMAIN d.list :
    d.shape[d.list[i]].name = d.shape[d.list[j]].name => i = j

\* The name a command remembers leads to the shape the command is about.
FindsItsShape(d, c) ==
  /\ IndexOf(d, c.name) >= 0
  /\ d.list[IndexOf(d, c.name) + 1] = c.shape

\* What undo would delete next is there, and what redo would delete next is.
CommandsResolve(d) ==
  /\ CanUndo(d) /\ d.cmds[d.idx].op = "AddShape" =>
       FindsItsShape(d, d.cmds[d.idx])
  /\ CanRedo(d) /\ d.cmds[d.idx + 1].op = "RemoveShape" =>
       FindsItsShape(d, d.cmds[d.idx + 1])

\* While there is a shape on the canvas, m_currentIndex is the newest one.
NewestIsCurrent(d) == d.list # <<>> => d.cur = Len(d.list) - 1
=============================================================================
