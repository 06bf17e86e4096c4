------------------------------ MODULE Document ------------------------------
(***************************************************************************)
(* The life of an annotation document: CanvasView's slots push commands on *)
(* the undo stack, the undo and redo actions walk along it, and            *)
(* Window::openFile throws the document away and loads another one.        *)
(*                                                                         *)
(* Everything runs in the one GUI thread, so a handler is one step.  The   *)
(* exception is the loop of openFile that adds the shapes of a label file  *)
(* one by one: it is a step per shape, and pending holds the shapes it has *)
(* still to add; nothing else runs while pending is not empty.             *)
(*                                                                         *)
(* fault is how the program ended: an exception that no handler catches,   *)
(* or m_shapeList.at() with an index outside the list.                     *)
(***************************************************************************)
EXTENDS CanvasBase

CONSTANTS
  Modes,        \* bound: the draw modes that are tried
  LabelFiles,   \* label files: the shapes in them
  MaxCommands,  \* bound: commands on the undo stack
  MaxPoints     \* bound: vertices of a shape

ASSUME DocumentAssumption ==
  /\ Modes \subseteq DrawModes
  /\ MaxCommands \in Nat
  /\ MaxPoints \in Nat
  /\ LabelFiles \subseteq Seq(FileShapes)

VARIABLES
  doc,       \* the document of CanvasBase
  drawMode,  \* m_draw
  pending,   \* root.shapes that openFile has not added yet
  fault,     \* "none", "uncaught" or "outOfRange"
  versions   \* history variable: the documents undo and redo should show

vars == <<doc, drawMode, pending, fault, versions>>

TypeOK ==
  /\ doc \in Documents
  /\ doc.idx <= Len(doc.cmds)
  /\ drawMode \in DrawModes
  /\ pending \in Seq(FileShapes)
  /\ fault \in {"none", "uncaught", "outOfRange"}
  /\ versions \in Seq(Seq(Entries))

Init ==
  /\ doc = EmptyDocument
  /\ drawMode = "Polygon"
  /\ pending = <<>>
  /\ fault = "none"
  /\ versions = << <<>> >>

Running == fault = "none" /\ pending = <<>>

-----------------------------------------------------------------------------
(* The history variable.                                                   *)

\* An edit made at version idx: the versions after it are gone.
RecordEdit ==
  versions' = IF doc'.cmds = doc.cmds /\ doc'.idx = doc.idx
              THEN versions
              ELSE Append(SubSeq(versions, 1, doc.idx + 1), Content(doc'))

RecordOpen == versions' = <<Content(doc')>>

-----------------------------------------------------------------------------
(* CanvasView and the undo actions.                                        *)

\* CanvasView::addShape, run by Ctrl+N and by sigAddShape.
NewAnnotation ==
  /\ Running
  /\ doc.image
  /\ doc.idx < MaxCommands
  /\ \E s \in ShapeIds \ Referenced(doc) : doc' = PushAddShape(doc, s, drawMode)
  /\ RecordEdit
  /\ UNCHANGED <<drawMode, pending, fault>>

\* Without an image getImage() throws, and no handler catches it.
NewAnnotationWithoutImage ==
  /\ Running
  /\ ~doc.image
  /\ fault' = "uncaught"
  /\ UNCHANGED <<doc, drawMode, pending, versions>>

\* CanvasView::addPoint.
NewPoint ==
  /\ Running
  /\ CurrentInRange(doc)
  /\ doc.idx < MaxCommands
  /\ doc.cur # -1 => Len(doc.shape[CurrentShape(doc)].pts) < MaxPoints
  /\ \E p \in Points : doc' = PushAddPoint(doc, p)
  /\ RecordEdit
  /\ UNCHANGED <<drawMode, pending, fault>>

\* CanvasView::removeShape, a slot that no action of the window is bound to.
RemoveAnnotation ==
  /\ Running
  /\ CurrentInRange(doc)
  /\ doc.idx < MaxCommands
  /\ doc' = PushRemoveShape(doc)
  /\ RecordEdit
  /\ UNCHANGED <<drawMode, pending, fault>>

\* currentShape() and currentShapeName() read past the end of the list.
ReadStaleCurrent ==
  /\ Running
  /\ ~CurrentInRange(doc)
  /\ fault' = "outOfRange"
  /\ UNCHANGED <<doc, drawMode, pending, versions>>

Undo ==
  /\ Running
  /\ CanUndo(doc)
  /\ doc' = UndoStep(doc)
  /\ UNCHANGED <<drawMode, pending, fault, versions>>

Redo ==
  /\ Running
  /\ CanRedo(doc)
  /\ doc' = RedoStep(doc)
  /\ UNCHANGED <<drawMode, pending, fault, versions>>

ChangeDrawMode ==
  /\ Running
  /\ drawMode' \in Modes
  /\ UNCHANGED <<doc, pending, fault, versions>>

-----------------------------------------------------------------------------
(* Window::openFile: the canvas is cleaned first, whatever is then chosen. *)

\* No image can be loaded: the dialog was cancelled, or the file is broken.
OpenNothing ==
  /\ Running
  /\ doc' = Clean(doc)
  /\ fault' = "uncaught"
  /\ RecordOpen
  /\ UNCHANGED <<drawMode, pending>>

OpenImage ==
  /\ Running
  /\ doc' = [Clean(doc) EXCEPT !.image = TRUE]
  /\ RecordOpen
  /\ UNCHANGED <<drawMode, pending, fault>>

OpenLabels ==
  /\ Running
  /\ doc' = [Clean(doc) EXCEPT !.image = TRUE]
  /\ pending' \in LabelFiles
  /\ RecordOpen
  /\ UNCHANGED <<drawMode, fault>>

\* One round of the loop over root.shapes.
LoadShape ==
  /\ fault = "none"
  /\ pending # <<>>
  /\ \E s \in ShapeIds \ Referenced(doc) :
       doc' = AddLoaded(doc, s, drawMode, Head(pending))
  /\ pending' = Tail(pending)
  /\ RecordOpen
  /\ UNCHANGED <<drawMode, fault>>

-----------------------------------------------------------------------------

Next ==
  \/ NewAnnotation
  \/ NewAnnotationWithoutImage
  \/ NewPoint
  \/ RemoveAnnotation
  \/ ReadStaleCurrent
  \/ Undo
  \/ Redo
  \/ ChangeDrawMode
  \/ OpenNothing
  \/ OpenImage
  \/ OpenLabels
  \/ LoadShape

Spec == Init /\ [][Next]_vars

-----------------------------------------------------------------------------
(* Properties.                                                             *)

\* Two shapes on the canvas never have the same name, whatever mixture of
\* edits, undo, redo and loading put them there.  indexOf() finds a shape by
\* its name alone, so undo would otherwise take the wrong shape away.
NamesDistinct == UniquelyNamed(doc)

\* No shape object is on the canvas twice, although undo and redo append
\* objects again that were taken off before.
ShapesDistinct ==
  \A i, j \in DOMAIN doc.list : doc.list[i] = doc.list[j] => i = j

\* The name a command remembers leads to the shape it is about: undoing the
\* next AddShapeCommand deletes the shape it added and redoing the next
\* RemoveShapeCommand deletes the shape it was made for.
CommandFindsItsShape == CommandsResolve(doc)

\* As long as there is a shape on the canvas, m_currentIndex is the newest
\* one.  It can point outside the list only when the list is empty.
CurrentIsNewest == NewestIsCurrent(doc)

\* A point command that is done belongs to a shape on the canvas: undo never
\* edits a shape that the user cannot see.
PointCommandOnCanvas ==
  /\ CanUndo(doc) /\ doc.cmds[doc.idx].op = "AddPoint" =>
       doc.cmds[doc.idx].shape \in Listed(doc)
  /\ CanRedo(doc) /\ doc.cmds[doc.idx + 1].op = "AddPoint" =>
       doc.cmds[doc.idx + 1].shape \in Listed(doc)

\* Undo and redo show exactly the documents that were there before: the
\* document and its undo stack implement the linear history.
History == INSTANCE LinearHistory
  WITH Contents <- Seq(Entries), content <- Content(doc), cursor <- doc.idx

LinearUndo == History!Spec

-----------------------------------------------------------------------------
(* The invariant that makes undo and redo work: it relates the commands of *)
(* the stack, the shape objects they hold on to, and the versions between  *)
(* them.                                                                   *)

Ids(v) == {v[j].id : j \in DOMAIN v}

NamesBefore(v, j) == {v[k].shape.name : k \in 1 .. j - 1}

\* Objects occur once, and each has the name uniqueName() gives it when it is
\* added after the ones before it.
VersionOK(v) ==
  /\ \A j, k \in DOMAIN v : v[j].id = v[k].id => j = k
  /\ \A j \in DOMAIN v :
       v[j].shape.name =
         UniqueName(NamesBefore(v, j), TypeToString(v[j].shape.type))

\* Version w is version v with the shape of command c added at its end.
Grows(v, c, w) ==
  /\ w # <<>>
  /\ v = Front(w)
  /\ Last(w).id = c.shape
  /\ Last(w).shape.name = c.name

\* Version v with the object at place k in state x.
Changed(v, k, x) == [v EXCEPT ![k].shape = x]

\* Command c leads from version v to version w.
Leads(v, c, w) ==
  \/ c.op = "AddShape" /\ Grows(v, c, w)
  \/ c.op = "RemoveShape" /\ Grows(w, c, v)
  \/ /\ c.op = "AddPoint"
     /\ \E k \in DOMAIN v :
          /\ v[k].id = c.shape
          /\ c.name = Len(v[k].shape.pts)
          /\ w = Changed(v, k, AppendPoint(v[k].shape, c.point))

\* An object is on the canvas from the version after the command that adds it
\* to the version before the command that removes it.
Lifetime(cmds, vs) ==
  \A i \in DOMAIN cmds : \A k \in DOMAIN vs :
    /\ cmds[i].op = "AddShape" /\ k <= i => cmds[i].shape \notin Ids(vs[k])
    /\ cmds[i].op = "RemoveShape" /\ k > i => cmds[i].shape \notin Ids(vs[k])

\* Every object of a version is either still there in a later one or held by
\* a command in between.
Accounted(cmds, vs) ==
  \A m \in DOMAIN vs : \A k \in 1 .. m : \A s \in Ids(vs[k]) :
    s \in Ids(vs[m]) \/ \E i \in 1 .. m - 1 : cmds[i].shape = s

\* A shape that is off the canvas waits in the state in which it left.
Kept(shape, cmds, idx, vs) ==
  \A i \in DOMAIN cmds :
    /\ cmds[i].op = "AddShape" /\ i > idx =>
         shape[cmds[i].shape] = Last(vs[i + 1]).shape
    /\ cmds[i].op = "RemoveShape" /\ i <= idx =>
         shape[cmds[i].shape] = Last(vs[i]).shape

Hist(content, shape, cmds, idx, vs) ==
  /\ Len(vs) = Len(cmds) + 1
  /\ content = vs[idx + 1]
  /\ \A k \in DOMAIN vs : VersionOK(vs[k])
  /\ \A i \in DOMAIN cmds : Leads(vs[i], cmds[i], vs[i + 1])
  /\ Lifetime(cmds, vs)
  /\ Accounted(cmds, vs)
  /\ Kept(shape, cmds, idx, vs)

\* The inductive invariant behind undo and redo (commands.cpp): each command
\* leads from the version before it to the one after it, the canvas shows the
\* version at the index of the stack, objects that are off the canvas wait
\* unchanged, and the current shape is the newest one.
HistoryInv ==
  /\ Hist(Content(doc), doc.shape, doc.cmds, doc.idx, versions)
  /\ doc.cur >= -1
  /\ doc.cur = Len(doc.list) - 1 \/ (doc.list = <<>> /\ doc.cmds = <<>>)
  /\ pending # <<>> => doc.cmds = <<>>
=============================================================================
