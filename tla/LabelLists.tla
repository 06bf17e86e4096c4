----------------------------- MODULE LabelLists -----------------------------
(***************************************************************************)
(* Labels and the lists that show them: the label dialog (ui/labeldialog), *)
(* Window::slotSetProperty, and the lists of labels and of annotations     *)
(* (ui/customlistwidget), to which sigLabelAdded appends an item each.     *)
(*                                                                         *)
(* A shape is drawn in one step; its vertices and their commands are left  *)
(* out.  Rows count from 1, and 0 is none.                                 *)
(***************************************************************************)
EXTENDS CanvasBase

CONSTANTS
  LabelFiles,   \* label files: the labels of the shapes in them
  MaxCommands,  \* bound: commands on the undo stack
  MaxRows       \* bound: items of a list

ASSUME LabelListsAssumption ==
  /\ NoLabel \notin Labels
  /\ LabelFiles \subseteq Seq(Labels \cup {NoLabel})
  /\ MaxCommands \in Nat /\ MaxRows \in Nat

VARIABLES
  doc,       \* the document of CanvasBase
  pending,   \* labels of a file whose shapes are still to be added
  labelRows, \* labelListWidget: the texts of its items,
  sel, cur,  \* the row that is selected and the current one
  annoRows,  \* annoListWidget
  dialog     \* the label dialog
vars == <<doc, pending, labelRows, sel, cur, annoRows, dialog>>

\* NoLabel is the empty text.
Texts == Labels \cup {NoLabel, UnknownLabel}

NoShape == "no shape"

NoDialog ==
  [open |-> FALSE, shape |-> NoShape, rows |-> <<>>, row |-> 0, text |-> NoLabel]

Init ==
  /\ doc = EmptyDocument /\ pending = <<>>
  /\ labelRows = <<>> /\ sel = 0 /\ cur = 0 /\ annoRows = <<>>
  /\ dialog = NoDialog

\* Mutant: the dialog is not modal.
RunningBeside == pending = <<>>

\* The dialog is modal.
Running == ~dialog.open /\ pending = <<>>

-----------------------------------------------------------------------------
(* The lists.                                                              *)

\* Mutant: a label that is listed already gets no item.
LabelAddedOnce(text) ==
  /\ Len(labelRows) < MaxRows
  /\ labelRows' = IF text \in Range(labelRows) THEN labelRows ELSE Append(labelRows, text)
  /\ annoRows' = Append(annoRows, text)
  /\ UNCHANGED <<sel, cur>>

\* sigLabelAdded: addCustomItem of both lists.
LabelAdded(text) ==
  /\ Len(labelRows) < MaxRows
  /\ labelRows' = Append(labelRows, text)
  /\ annoRows' = Append(annoRows, text)
  /\ UNCHANGED <<sel, cur>>

\* clean() of both.
ListsCleaned == labelRows' = <<>> /\ annoRows' = <<>> /\ sel' = 0 /\ cur' = 0

\* mousePressEvent: on an item, or beside all of them.
PressRow ==
  /\ Running
  /\ \/ \E i \in DOMAIN labelRows : sel' = i /\ cur' = i
     \/ sel' = 0 /\ UNCHANGED cur
  /\ UNCHANGED <<doc, pending, labelRows, annoRows, dialog>>

\* The row below and the row above.
Beside(row, rows) ==
  {IF row < Len(rows) THEN row + 1 ELSE Len(rows), IF row > 1 THEN row - 1 ELSE 1}

\* keyPressEvent, Up or Down: the selection moves and the current row stays;
\* without a selection QListWidget moves and selects the current one.
KeyInList ==
  /\ Running /\ labelRows # <<>>
  /\ IF sel # 0
     THEN sel' \in Beside(sel, labelRows) /\ UNCHANGED cur
     ELSE cur' \in Beside(cur, labelRows) /\ sel' = cur'
  /\ UNCHANGED <<doc, pending, labelRows, annoRows, dialog>>

-----------------------------------------------------------------------------
(* The dialog.                                                             *)

\* LabelDialog for shape s, with an item for every shape of d.
Dialog(d, s) ==
  [open |-> TRUE, shape |-> s,
   rows |-> [i \in DOMAIN d.list |-> d.shape[d.list[i]].label],
   row |-> 0, text |-> NoLabel]

\* LabelLineEdit::keyPressEvent, Up or Down.
KeyInDialog ==
  /\ dialog.open /\ dialog.rows # <<>>
  /\ \E row \in Beside(dialog.row, dialog.rows) :
       dialog' = [dialog EXCEPT !.row = row, !.text = dialog.rows[row]]
  /\ UNCHANGED <<doc, pending, labelRows, sel, cur, annoRows>>

\* A click on an item; currentItemChanged comes only when the row changes.
ClickInDialog ==
  /\ dialog.open
  /\ \E row \in DOMAIN dialog.rows \ {dialog.row} :
       dialog' = [dialog EXCEPT !.row = row, !.text = dialog.rows[row]]
  /\ UNCHANGED <<doc, pending, labelRows, sel, cur, annoRows>>

\* Typing, with or without the completer.
Type ==
  /\ dialog.open
  /\ \E text \in Labels \cup {NoLabel} : dialog' = [dialog EXCEPT !.text = text]
  /\ UNCHANGED <<doc, pending, labelRows, sel, cur, annoRows>>

\* slotSetProperty after the dialog was accepted.
Accept ==
  /\ dialog.open
  /\ dialog' = NoDialog
  /\ IF dialog.text = NoLabel
     THEN UNCHANGED <<doc, labelRows, sel, cur, annoRows>>
     ELSE /\ doc' = SetShape(doc, dialog.shape,
                             [doc.shape[dialog.shape] EXCEPT !.label = dialog.text])
          /\ LabelAdded(dialog.text)
  /\ UNCHANGED pending

Cancel ==
  /\ dialog.open
  /\ dialog' = NoDialog
  /\ UNCHANGED <<doc, pending, labelRows, sel, cur, annoRows>>

-----------------------------------------------------------------------------
(* The canvas and the window.                                              *)

\* A shape is drawn and closed.
Draw ==
  /\ Running /\ doc.image /\ doc.idx < MaxCommands
  /\ \E s \in ShapeIds \ Referenced(doc) :
       LET drawn == PushAddShape(doc, s, "Polygon")
       IN  /\ doc' = SetShape(drawn, s, [drawn.shape[s] EXCEPT !.closed = TRUE])
           /\ dialog' = Dialog(doc', s)
  /\ UNCHANGED <<pending, labelRows, sel, cur, annoRows>>

\* Enter once more for the current shape, if there is one.
EnterAgain ==
  /\ Running /\ CurrentInRange(doc) /\ doc.cur # -1
  /\ dialog' = Dialog(doc, CurrentShape(doc))
  /\ UNCHANGED <<doc, pending, labelRows, sel, cur, annoRows>>

Undo ==
  /\ Running /\ CanUndo(doc)
  /\ doc' = UndoStep(doc)
  /\ UNCHANGED <<pending, labelRows, sel, cur, annoRows, dialog>>

Redo ==
  /\ Running /\ CanRedo(doc)
  /\ doc' = RedoStep(doc)
  /\ UNCHANGED <<pending, labelRows, sel, cur, annoRows, dialog>>

\* openFile and the action that opens a directory: an image without shapes,
\* or a label file.
Open ==
  /\ Running
  /\ doc' = [Clean(doc) EXCEPT !.image = TRUE]
  /\ pending' \in {<<>>} \cup LabelFiles
  /\ ListsCleaned
  /\ UNCHANGED dialog

\* One round of the loop over root.shapes.
LoadShape ==
  /\ pending # <<>>
  /\ \E s \in ShapeIds \ Referenced(doc) :
       /\ doc' = AddLoaded(doc, s, "Polygon", [pts |-> <<>>, label |-> Head(pending)])
       /\ LabelAdded(doc'.shape[s].label)
  /\ pending' = Tail(pending)
  /\ UNCHANGED dialog

Next ==
  \/ PressRow \/ KeyInList
  \/ KeyInDialog \/ ClickInDialog \/ Type \/ Accept \/ Cancel
  \/ Draw \/ EnterAgain \/ Undo \/ Redo \/ Open \/ LoadShape

Spec == Init /\ [][Next]_vars

-----------------------------------------------------------------------------
(* Properties.                                                             *)

RowsOf(rows, text) == {i \in DOMAIN rows : rows[i] = text}
ShapesOf(text) == {s \in Referenced(doc) : doc.shape[s].label = text}

\* Both lists have an item for every shape with a label, also for one that
\* undo took off the canvas and redo can bring back: a label is shown as
\* often as it is in use, through drawing, relabelling, undo, redo and
\* opening.  Items of shapes that are gone stay.
RowForEachShape ==
  \A text \in Labels \cup {UnknownLabel}, rows \in {labelRows, annoRows} :
    Cardinality(RowsOf(rows, text)) >= Cardinality(ShapesOf(text))

\* The dialog is about a shape that is on the canvas, and offers an item for
\* every one: nothing runs between sigSetProperty and setLabel that could
\* take the shape away.
DialogShapeListed ==
  dialog.open => dialog.shape \in Listed(doc) /\ Len(dialog.rows) = Len(doc.list)
=============================================================================
