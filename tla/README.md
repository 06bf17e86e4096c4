# XY-Annotation: a TLA+ model of the program and its log

XY-Annotation (`src/XY-Annotation-new`) is a Qt program for labelling images:
the user opens an image, a directory of images or a label file, draws shapes on
the image, gives them labels and saves a label file. This directory models the
program's state and handlers, its settings file and its asynchronous log, checks
them with TLC on small instances, and proves with TLAPS, for all instances, the
main facts about the undo history, drawing and editing with the mouse, the
geometry of editing and zooming, a working session with its files, the label
dialog and the lists, the log queue with its threads, and the daily log file.

Paths below are relative to `src/XY-Annotation-new/src`, those that begin with
`3rd/` to `src/XY-Annotation-new`.

## The parts of the system

| Part | Source | Modules |
| --- | --- | --- |
| Shapes: types, vertices, flags, hit tests, painting | `annotations/` | `Shape`, `Geometry` |
| The document: shape list, current shape, names | `canvas/canvasbase.*` | `CanvasBase` |
| Undo commands | `controllers/commands.*` | `CanvasBase`, `Document` |
| The view: slots that push commands, fitting | `ui/CanvasView.*` | `CanvasBase`, `Document`, `View` |
| Drawing and editing with the mouse | `canvas/canvas2d.*` | `Canvas2D`, `EditGeometry` |
| Edge of the image, zoom, brightness and contrast | `canvas/canvasbase.*` | `Geometry`, `View`, `Settings` |
| Window: modes, shortcuts, property dialog | `ui/window.*` | `Document`, `Canvas2D`, `LabelLists` |
| Window: open, save, directory, file list; file manager | `ui/window.*`, `controllers/filemanager.*` | `Session` |
| Label file format | `controllers/jsonManager.*` | `Shape`, `Session` |
| Label dialog, list widgets | `ui/labeldialog.*`, `ui/customlistwidget.*` | `LabelLists` |
| Sliders for brightness and contrast | `ui/ImageAdj.*` | `Settings` |
| Start-up, end and settings of the program | `main.cpp`, `global/` | `Settings` |
| Parser of the settings file | `3rd/Hv/utils/iniparser.cpp` | `IniParser`, `Settings` |
| Asynchronous log | `3rd/spdlog/` | `CircularQ`, `AsyncLog`, `AsyncLogHistory`, `FifoLog` |
| Daily log file | `3rd/spdlog/spdlog/sinks/daily_file_sink.h` | `DailyFile` |

All of the program but the log runs in one GUI thread. The canvas (`Canvas2D`, a `CanvasBase`)
receives mouse and key events; while drawing it emits `sigAddShape` and
`sigAddPoint`, on which `CanvasView` pushes commands on the `QUndoStack`; the
commands call back into `CanvasBase`. When a shape is finished the canvas emits
`sigSetProperty` and `Window::slotSetProperty` runs a modal dialog. Opening a
file cleans the canvas and loads an image and, from a label file, shapes that do
not go through the undo stack.

The log has three threads: the one that logs, spdlog's worker and the periodic
flusher. The program logs from its main thread only (the Qt message handler that
would log from others is commented out in `main.cpp`); the model has a second
logging thread, since the logger that `YLog::initLog` makes is one for many.

`res/` and `bin/` hold resources; the directories `新建文件夹` and
`ui/labellineedit.*` are not part of the build.

## The modules

`Shape` holds the shapes as records, with the operations on their vertices.
Indices keep the code's values, from 0. A name is a pair of the type's text and
a number, since `uniqueName` never appends anything else. A hit test is a set of
possible answers; a translation is a map of positions. Colours, ids, the active
flags and the rubber-band point are left out: only painting reads them.

`CanvasBase` holds the document as one record (`image`, `list`, `cur`, `shape`,
`cmds`, `idx`) and the operations of `CanvasBase`, of the commands and of
`CanvasView` as operators on it. Shape objects have an identity, because the list
and the commands share them through `shared_ptr`: a shape that undo takes off the
list keeps its vertices in the command. `QUndoStack` is a library class, modelled
by what it does: `push` drops the undone commands and runs `redo()`.

`Document` is the state machine of the document alone: the slots of `CanvasView`,
undo, redo, a change of the draw mode and opening. The history variable
`versions` records the documents that undo and redo should show.

`LinearHistory` is the abstract specification of an undo stack: versions on a
line, undo and redo walk along it, an edit cuts off what is ahead.

`Canvas2D` is the state machine of the mouse: press, double click, move, release
and Enter in both modes, interleaved with Ctrl+N, Ctrl+O, undo and redo. Its
`held` is the button, `clicked` says that a press can be the second of a double
click. It reuses the operators of `CanvasBase`.

`Session` is the state machine of a working session: the file manager (`fm`), the
list of files on the screen (`rows`), the picture on the canvas (`shown`), the
document of `CanvasBase` and a disk of label files. Its actions open pictures,
directories and label files (readable to the end, in part, or not at all), choose
a file of the list, save, fail to save, are killed while saving, restart, and edit.
A picture stands for its contents; a path is a directory and a name. Positions are
one-dimensional and in half pixels, which is enough to tell the exact half of an
odd width from the integer half. A shape is drawn in one step: what happens during
a gesture is the subject of `Canvas2D`. `source` and `unsaved` are history
variables, `writes` counts writes for the bound.

`Geometry` is the geometry of the canvas in two dimensions: the map between canvas
and image, `bindImgEdge`, `isCloseToEdge`, and the hit tests of `shape.cc`. The
unit is a sixth of a pixel, in which the constants of the code are whole numbers;
a quotient is compared by its numerator. `EditGeometry` plays the gestures of edit
mode on one polygon with it, where `Canvas2D` leaves the hit tests open.

`View` is zooming and fitting. The canvas keeps its scale twice, in `m_scaleValue`
and in the graphics item. Scales and positions are whole multiples of 1/`Unit`. Its
specification is `ViewSpec`: one module has the proofs about it and `EditGeometry`.

`LabelLists` is the label dialog with `slotSetProperty` and the two lists of the
window, around the document of `CanvasBase`.

`IniParser` is libhv's parser, on texts that are sequences of lines. `Settings`
uses it over several runs of the program: `load_config`, the window's geometry,
the sliders, the canvas with the loop of `lightContrastImage` over the bytes of
the image, and the save at the end of `main()`, with a kill between any two steps.
Its operator `TextValue` is the reference for the parser: what a reader of the
text takes a key to mean.

`CircularQ` is spdlog's circular buffer with its reserved slot. `AsyncLog` is the
queue with its mutex and condition variables, the posters, the worker, the
flusher, and the destructor of the registry at the end of the program. A section
under the mutex is one step, a notification is another, and a waiting thread may
wake for no reason. `FifoLog` is the abstract specification: a bounded queue.
`AsyncLogHistory` adds the history that the refinement needs. `DailyFile` is the
sink: the name of a file comes from the time of a message, the next rotation from
a later look at the clock, and time passes in between; opening, writing and
removing may fail, and the program may stop and start again. `max_files` is fixed
at the start; the history variable `late` says that a midnight found the sink at
work.

`fault` is how the program ended: an exception that no handler
catches, an access outside a Qt container, or, in `Session`, a kill. Qt does not
check the latter in a release build; each such action may or may not be taken, so
behaviours in which the program survives the read are covered as well.

The modules whose names begin with `MC` give the instances for TLC. Definitions
marked
*Mutant* are wrong versions of the definition that follows them. Replacing that
definition by its mutant makes TLC report the property named in `PROJECT.json`,
which shows that the property depends on it.

### Correspondence with the code

| Model | Code |
| --- | --- |
| `doc.list`, `doc.cur`, `doc.image` | `m_shapeList`, `m_currentIndex`, `!m_image.isNull()` |
| `doc.cmds`, `doc.idx` | the commands of `m_undoStack` and its `index()` |
| `UniqueName`, `AddShape`, `DeleteShape`, `Clean` | the methods of `CanvasBase` of these names |
| `RedoCommand`, `UndoCommand` | `redo()` and `undo()` of the three commands |
| `NewAnnotation`, `NewPoint`, `RemoveAnnotation` | `CanvasView::addShape`, `addPoint`, `removeShape` |
| `OpenNothing`, `OpenImage`, `OpenLabels`, `LoadShape` | the outcomes of `Window::openFile` and its loop |
| `PressDraw`, `PressEdit`, `PressIgnored` | the branches of `mousePressEvent` |
| `DoubleClickDraw`, `MouseMove`, `MouseRelease`, `Enter` | the other handlers |
| `PaintPastEnd` | `drawShape` and the `draw` of `YRectangle` and `yLine` |
| `fm` | the members of `FileManager` (`path` is `m_path`, `root` the image of `root`) |
| `SetSingleImage`, `SetMultiImage`, `ReadLabels`, `SelectFile`, `GetLabelFile` | the methods of `FileManager` (`ReadLabels` is `openFile`) |
| `Resolve` | `m_path + imageFiles[curIdx]` as a path |
| `OpenImage`, `OpenLabels`, `OpenLabelsInPart`, `OpenNothing` of `Session` | `Window::openFile` by what was chosen and read |
| `OpenDir`, `OpenEmptyDir`, `ClickFile` | the handlers of the directory action and of the file list |
| `SaveFile`, `SaveNothing`, `SaveFails`, `SaveOutOfRange`, `KilledWhileSaving` | `Window::saveFile` by its outcome |
| `mouseDrag`, `activePoint`, `insertPoint` | `m_mouseDrag`, `m_activePoint`, `m_insertPoint` |
| `Judge`, `IsEdgeHavPt`, `IsPtsHavPt` | the hit tests of `shape.cc` |
| `Stopped` | the loop of `CanvasBase::isCloseToEdge` over the vertices |
| `scaleValue`, `scale`, `itemPos` of `View` | `m_scaleValue`, `scale()`, `pos()` of the item |
| `Fit`, `FitNothing` | `setSize` with an image, and up to its exception |
| `conf`, `root` of `Settings` | the settings file, `IniParser::root_` |
| `LoadFromMem`, `DumpString`, `GetValue`, `SetValue` | the methods of `IniParser` |
| `q` | `mpmc_blocking_queue::q_`, with `head_`, `tail_`, `overrun_counter_` |
| `EnqueueOk`, `EnqueueWaits`, `PostDone` | `enqueue`, its wait, and its notification |
| `Dequeue`, `DequeueWaits`, `NotifyPoster`, `NotifyNobody` | `dequeue` and its notification |
| `SinkIt`, `BackendFlush`, `Terminate` of `AsyncLog` | `process_next_msg_` by the type of the item |
| `StopFlusher`, `JoinFlusher`, `ResetPool`, `Unload` | the destructors of the registry's members |
| `Construct`, `SetRotation`, `InitFilenamesQ`, `SinkIt`, `Rotate`, `DeleteOld` | the constructor and `sink_it_` of `daily_file_sink` in their steps |

What Qt does around the handlers is taken from its documented behaviour: the
default `QGraphicsItem::mouseDoubleClickEvent` calls `mousePressEvent`; a modal
dialog takes the release of the button that was down when it opened; an exception
that leaves an event handler ends the program.

`CanvasView::removeShape` is a public slot that no menu entry is connected to. It
is an action of `Document`, so that the undo history is right with it as well.

## The runs

| Run | Instance | Properties | What it shows |
| --- | --- | --- | --- |
| `document` | 3 shape objects, 2 types (one with the empty name), 5 commands, 2 vertices | `TypeOK`, `HistoryInv`, `LinearUndo` | the document implements `LinearHistory`, and the inductive invariant of the proof holds |
| `gesture` | 2 objects, 4 commands, 4 vertices, label files, no shortcut while the button is down | `GrabFollowsButton`, `GrabbedVertexExists`, `FaultsForWant`, `UndoTakesOne` | a grab ends with the button and holds one shape; the dragged vertex exists; the program ends only for want of an image, a list entry or a second vertex; after edits without commands undo takes at most one vertex, of its own shape |
| `shortcuts` | 3 objects, 6 commands, 3 vertices, shortcuts at any time | `CommandFindsItsShape`, `PressExtendsNewest`, `ReleaseEndsAll`, `FinishedWithTwo` | the lookups of the undo stack survive edits by mouse; a press extends the newest shape only; a release ends every grab; a shape is finished with two vertices at least |
| `session` | 2 directories, 3 pictures of even and odd width, a label file that is whole or readable in part, 2 objects, 1 write | `RowsLeadToPictures`, `ShownIsSelected`, `EndsForWant`, `ReloadKeepsShapes`, `SavedImageIsShown`, `SavedUnderItsName` | the list on the screen leads to pictures; the canvas shows what is selected; a save writes the picture shown, under its name; what a load followed by a save changes, and that it changes nothing else |
| `edit_geometry` | triangles and segments on a grid of 3 by 3 that goes past the image, 2 moves | `VertexNotItsEdge`, `EdgeHitIsNear`, `TwoVertices`, `LeavesAtTwoEdges` | an edge hit is near its edge and away from its ends; of two vertices the first edge is hit; a vertex leaves the image only when two vertices meet different sides |
| `zoom` | 2 images, 2 sizes of the view, 2 zooms after a fit | `ImageStaysUnderMouse` | the point under the mouse stays, although the scale is kept twice |
| `label_lists` | 3 objects, 2 labels, 2 commands, 4 rows | `RowForEachShape`, `DialogShapeListed` | a row for every labelled shape; the dialog's shape is on the canvas |
| `settings` | 5 files, 2 sizes of the image, 2 runs of the program | `LinesKept`, `AdjustAgree`, `SettingsReadAsText`, `ShownFollows`, `SettingsSurvive` | settings survive runs and mean what a reader of the file finds; other lines are kept; sliders, canvas and settings agree; the image shown was made with their levels, each byte once |
| `log` | 2 threads with 1 message each, a queue of 1, policy `block` | `NobodyLeftBehind`, `ExitKeepsMessages`, `CallsReturn`, `MessagesReachDisk`, `ExitEnds` | the worker outlives those who need it; an orderly end loses nothing; calls return, messages reach the file, the program ends |
| `log_order` | 2 threads, a queue of 2, 4 items, policy `overrun_oldest` | `QueueInv`, `InOrder` | the queue implements `FifoLog`, also when it is overrun |
| `daily_file` | 4 days of 2 ticks, 4 messages, `max_files` 0 or 2 | `FileIsOpen`, `FilesInOrder`, `OwnDay`, `NewestKept` | no write to a closed file; files read by date give the messages in order, each in the file of its day unless a midnight found the sink at work; retention keeps the newest |
| `unsaved` | as `session` | `UnsavedIsAskedFor` | violated: the file list switches over unsaved shapes without asking |

Bounds. Three shapes are needed for a name to be freed and taken again beside
two others; `uniqueName` compares all names, so more shapes add nothing new. Five
commands leave room for a shape with points, a removal and a branch after undo.
Positions matter only in being kept, so one point is enough. Two shapes are enough
for `gesture`: one that is held and another that must not be; four vertices let an
insertion and a removal meet. `shortcuts` has three, so that an undone shape lies
between two others, and six commands for them. In `session` two of the three
pictures have the same base name in different directories, so that a label file can
be mistaken for another; one write is enough, since each property is about one save
after an arbitrary history. `Points` is wide enough that no vertex of these
instances leaves it.

The grids of `EditGeometry` have points inside the image, near its sides and
beyond them; a drag needs two moves to reach a side and to leave. The images of
`zoom` are fitted at scales on both sides of each limit, so that two zooms meet
it; zooms after a fit are counted because the exact scales need ever finer units.
The settings start without a file, with an empty one or with one of three that have
repeated keys and sections, notes, limits, texts that are not numbers and lines that
are no setting; one image has padding and one has none. Two runs of the program show what one of them leaves to the next. A
queue of one slot makes every second item wait, and two threads and the flusher
compete for it; a queue of two makes the indices wrap within four items. Four days
are enough for `max_files` of two to delete and for a day without a log.

Symmetry permutes shape objects, which are interchangeable; it is not used in
`document`, which checks the refinement. Deadlock is not checked: a program that has ended
takes no step, and neither does one whose bounded user does nothing more.

`gesture` excludes shortcuts while the button is down. With them
`GrabFollowsButton` is false: undo in the middle of a drag takes the held shape
away, so that the release does not reach it, and redo brings it back held.
`ReleaseEndsAll` shows that the next release then lets go of it.

Fairness. The handlers of the GUI react to the user, who may stop: nothing is
assumed there. In `AsyncLog` a thread that can go on does so (`WF`). Strong fairness is assumed of
what competes for a mutex or for a notification: a poster gets the queue's mutex
when the queue has room again and again, a waiting poster is notified when
notifications keep coming, and the flusher and the end of `main()` get the
flusher's mutex in turn. C++ does not promise that of `std::mutex`; the systems the
program runs on do in practice, and without it no call into a full queue is sure to
return. No spurious wake-up is assumed to happen. `TimerIsSlow` says that, from some
time on, the worker has gone through the queue when the flusher, which waits three
seconds, comes again; without it the flusher alone could keep the queue full. Logging and exit are not fair: a thread
may never log, and the user may never leave. The loop of `uniqueName` ends by the
theorem `UniqueNameIsFree`.

## What is proved

### The undo history

These theorems are about `Document`, for every set of shapes, points, labels and
label files and for every bound (`DocumentAssumption` says only that the
constants have their types).

* `UniqueNameIsFree` (`CanvasBaseProofs`): among the first n + 1 numbers one is
  free when n names are taken, so the loop ends, and the name it finds is free.
* `DocumentProofs`: first what the operations do to the content of the canvas and
  to the versions, then that `TypeOK` and `HistoryInv` are inductive. From them
  `NamesDistinct`, `ShapesDistinct`, `CommandFindsItsShape`, `CurrentIsNewest`,
  `PointCommandOnCanvas` and the refinement `LinearUndo` follow. TLC checks `TypeOK`,
  `HistoryInv` and `LinearUndo`; the other five are consequences, stated as theorems
  only.

`CanvasBaseProofs` has the facts about the operators of the document on which the
proofs about `Canvas2D`, `Session` and `LabelLists` rest. `DocumentProofs` does not
extend it but repeats the facts it shares with them: the time of every proof step
grows with the number of facts in scope, and the lemmas about `DocOK` below are of no
use to the history.

The argument. That names are distinct is not inductive: a redo gives a shape its
name anew, and why it gets the one it had before depends on everything that was
on the canvas then. `HistoryInv` therefore speaks about all versions at once.

1. In each version every shape has the name that `uniqueName` gives it after the
   shapes before it (`VersionOK`). Hence names are distinct, and adding a shape
   again at the end gives it its old name.
2. Each command leads from the version before it to the version after it
   (`Leads`): the commands only ever add and take at the end of the list.
   `CanvasView::removeShape` removes the current shape, which is the newest.
3. A shape object is on the canvas exactly between the commands that add and
   remove it (`Lifetime`, `Accounted`), so a new object is not in any version.
4. An object that is off the canvas waits in the state in which it left
   (`Kept`), so putting it back gives the version that was there.

Undo and redo then move `content` by one version; a push keeps the versions up to
the index and appends one; opening starts again with one version.

### Drawing and editing with the mouse

`Canvas2DProofs`, with the lemmas about `DocOK` in `CanvasBaseProofs`, for every set of shape objects, points,
labels and label files, every bound and every translation of a drag. The mouse
changes shapes without commands, so `HistoryInv` is false here and another
invariant is needed. `Inv` has three parts.

1. `DocOK`: no name and no shape object is listed twice; the current shape is the
   newest one; and `Stacked`: the
   commands that put shapes on the canvas lie over each other like the shapes
   themselves. A shape whose command is done is listed under the command's name, and
   after it in the list come only shapes of later commands. So the command that undo
   takes back has its shape at the end of the list, undo takes that one, and the
   name that a redo makes up is free. Nothing is said about vertices: this is what
   edits by mouse leave alone.
2. `GrabInv`: a shape that is held is finished.
3. `IndexInv`: the types of `m_mouseDrag`, `m_activePoint` and `m_insertPoint`.

From `Inv` follow `UndoFindsItsShape`, `PressesExtend`, `UndoIsSmall`,
`ReleaseRepairs`, `TwoVerticesToFinish` and `EndsOnlyForWant`, with shortcuts at
any time. `ButtonHoldsOne` and `DraggedVertexExists` assume `KeysWhileHeld = FALSE`,
no shortcut while the button is down, without which they are false (see the run
`gesture`). Their invariant `HeldInv` adds to `Inv` that a shape that is held is
listed, alone, in edit mode, with the button down, and that the vertex of a drag is
one of that shape (`VertexOK`). TLC checked both invariants on the instances of
`gesture` and `shortcuts` before they were proved.

### A working session

`SessionProofs`, for every finite set of pictures, every set of directories, label
files, positions and shape objects, every disk to begin with and every bound
(`SessionAssumption`; that the pictures are finitely many makes the list of a
directory a sequence). Every safety property of the run `session` is proved:
`RowsAlwaysLeadToPictures`, `ShownIsAlwaysSelected`, `AlwaysEndsForWant`,
`SavedImageIsAlwaysShown`, `AlwaysSavedUnderItsName` and `ReloadAlwaysKeepsShapes`.

The file manager keeps members from one picture, directory or label file to the
next, and no member says which of them are valid. The history variable `source`
says what was opened last, and `SInv` is by cases on it.

1. `Leads`: the selected index is in range, every name of the file manager's list
   leads to a picture, and `isOpenJsonFile` is set only when there is an embedded image.
2. `Tells`: what was opened last decides which members are the valid ones. After a
   picture or a directory the canvas shows the selected entry and the screen lists the
   same names; after a label file the list is empty, and the save path and the
   name are those of that file; after one that was read in part nothing is known
   but that a picture is shown.
3. `Loading`: shapes are added only to a document without commands, so a load
   never meets an undo stack.
4. `Reading`: while a label file is being read without an edit, the canvas has the
   first shapes of the file in their order, each with the vertices, the label and the
   offset that loading gives it, the others are still to come, and all have one
   type. `ReloadKeepsShapes` needs it: a save comes after any number of steps.
5. `Typed`, with `DocOK` for the document, which the edits between two openings
   keep by the lemmas of `CanvasBaseProofs`.

`EndsForWant` is part of `SInv`, since the other parts speak of a program that runs.
`AlwaysSavedUnderItsName` rests on `Tells`: `getLabelFile` makes the name of the selected
picture whenever the file manager has a list, and reading a label file to its end
empties the list, so that the name an earlier label file left is used for that
file only.

### The label dialog and the lists

`LabelListsProofs`, for every set of labels, label files and shape objects and every
bound (`LabelListsAssumption`: the empty text is not a label):
`AlwaysRowForEachShape` and `DialogShapeAlwaysListed`. `LInv` has `DocOK`; that the two
lists are equal; that the dialog is about a listed shape and has as many items as
there are shapes (`About`); that neither a command nor a dialog is there while a
label file is being read; and that each label has as many items as shapes that
are referenced by the list or by a command (`Enough`). Counting referenced shapes and
not listed ones is what makes it inductive: undo and redo do not touch the lists, so
the items must be there before a redo brings the shape back.

TLC checked `SInv` and `LInv` on the instances of `session` and `label_lists` before
they were proved.

### The geometry of editing and zooming

`GeometryProofs`, for every size of the image, every sense distance and every
set of positions of the mouse: `PositionsExist` (a vertex position that is held
exists), `VertexIsNotItsEdge`, `GrabbedEdgeIsNear`, `FirstOfTwoEdges`,
`LeavesOnlyAtTwoEdges`, and `BoundIsInImage` for
images of at least two pixels each way (a smaller one is narrower than the margin
of `bindImgEdge`). `PositionsExist` and `BoundIsInImage` have no run of their own.
The invariant adds to `TypeOK` that the press that grabbed an
edge passed `Judge` and the test of the foot of the perpendicular for it, and
`TwoVertices`: the two tests give the same answer for an edge and for the same edge
from its other end. `GrabbedEdgeIsNear` is arithmetic on the two tests: `Judge` puts
the foot between the ends, the other test bounds how far it is along each axis.
The drag is argued by cases on the first vertex that
comes close to a side: it stops the axes along which it is close, so another one
can leave only along an axis that the first does not stop.

`ImageAlwaysStaysUnderMouse` is about `View`, for every set of images, views and
positions of the mouse. A wheel step sets the item's scale and moves the item
by a product with the old `m_scaleValue`, so the point stays only if the two agreed.
`ViewInv` says that they do while there is an image. A resize without an image sets them
apart, and loading an image brings them together again.

### The log queue and its threads

`AsyncLogProofs` is about every number of threads and every size of the queue
(`AsyncLogAssumption`). Its first lemmas, which `DailyFileProofs` has for its own queue
as well, say what `push_back` and `pop_front` do to the items of a `circular_q` when
the indices wrap around. It proves `QueueInvariant`,
`LossCounted`, and `LogInOrder`, that the
queue implements `FifoLog` under either policy (TLC checks it for `overrun_oldest`,
the policy with the harder case; for `block` there is the proof). That items come
out in order does not follow from the indices alone. `QueueInv` says that the slots
from head to tail hold the newest items that were posted, in their order, and that
what is missing was counted.

`NobodyIsLeftBehind` and `ExitKeepsEveryMessage` are about the end of the program,
the latter for the policy `block`, which is spdlog's default and the one
`YLog::initLog` gets. The worker ends on the item that the destructor of the pool
posts, and the destructor runs when nobody else holds the pool. `TerminateInv`
follows this item: only a pool without an owner has one, it is the last in the queue,
and while it is there no other thread is on its way into the queue; `StageInv` is the
order in which the registry takes its members down. `KeptInv` says where
each message is between the call that logs it and the disk.

### The daily log file

`DailyFileProofs`, for every number of days, ticks and messages, with failures,
crashes and restarts: `FileAlwaysOpen`, `FilesAlwaysInOrder`, `EachDayItsFile`, and
`NewestFilesKept` for rotation at midnight (`RotationTick = 0`, what
`3rd/spdlog/ylog.cpp:12` asks for). The invariants build on each other. `OrderInv` and
`OpenInv`: messages come to the sink in their order, and the open file is the newest
that has anything in it and not newer than a message to come. `MidnightInv`: the next
rotation is the end of the day of the open file, unless a midnight found the sink at
work. `RetentionInv` with `ExistsInv`: the queue of file names holds existing files,
the oldest first and all older than the file that is opened next, so that `max_files`
newer ones are there when the front is deleted.

### Model-checked only

Liveness (`CallsReturn`, `MessagesReachDisk`, `ExitEnds`), under the fairness above.
The five properties of `Settings` with its `IniParser`: the parser builds a tree by
recursion over the text, what it computes for every text needs an induction over the
text, and the window's geometry needs bitwise operators.

## Disagreements between comments and code

The run `unsaved` shows one: `window.cpp:58-59` asks whether to save when another
file is chosen, but the flag that the question depends on is never set.

The others were met while translating the code. They are in the model as the code
has them, and no run is about them.

* `canvas2d.cpp:39` counts the empty list among the cases a press handles, but
  the current shape is looked up before the test, with an index that `clean()`
  did not reset. `FaultsForWant` names the case.
* `canvas2d.cpp:39` says that a new shape is started when all are closed; only
  the newest is asked.
* `canvas2d.cpp:151` says that a double click ends the drawing; the base class
  handler then delivers a press that starts a new shape.
* `shape.h:39` says that the origin of image points is the upper left corner of
  the image; the exact half of an odd size is half a pixel off.
  `ReloadKeepsShapes` has the half pixel.
* `canvasbase.cpp:217` says that zooming looks centred on the mouse; without an
  image a resize changes `m_scaleValue` alone. `ImageStaysUnderMouse` is about a
  canvas with an image.
* `canvasbase.cpp:267` says that an image is enlarged up to 50 times; the limit on
  that line is 10.
* `daily_file_sink.h:71` speaks of a sink "which rotates on given time"; the next
  rotation is computed from a second look at the clock, so that a rotation that
  straddles midnight is a day late. `OwnDay` excludes it by `late`.
* `daily_file_sink.h:65` says that only the last `max_files` files are retained; the
  search for older files stops at a day that has none. `NewestKept` is the half
  that holds.
* `log_remain_days = 3` in the settings file; nothing reads it.

Some properties name exceptions, which are behaviours of the code that no text of
the repository speaks about. `Session`: a label file that fails late is shown
although the file manager did not take it over; a directory opened after a label
file leaves `isOpenJsonFile` on, so that a save embeds the old image; a load
followed by a save changes type, empty labels, description and group id.
`Settings`: a window whose width and height have no bit in common is not placed
(`w&h`), each run moves the window by its frame, and images whose width is not a
multiple of four are adjusted in part. `EditGeometry`: a drag that
meets two sides at once leaves the image.

## Not modelled

* The label manager (`controllers/labelmanager.*`), the YAML stub and the members of
  `FileManager` and `CustomListWidget` that nothing calls.
* Layout: menus, docks, styles, fonts, the about box; colours and text of painting.
* The levels that `lightContrastImage` computes, and image formats: data without
  control.
* The text of label files: the characters are written and read by nlohmann json.
* The rest of the vendored libraries, which is by far the most of the source tree:
  libhv's event loop, network protocols and their examples, of which the program
  uses the ini parser and a few helpers only; spdlog's formatting (fmt) and the
  sinks that the program does not make; nlohmann json, yaml-cpp and magic_enum,
  which are parsers, generic containers and compile-time tables. The program holds
  no state in them and depends on no order of their steps; what it takes from them
  is modelled where it is used.
* Changes of the clock by hand and summer time in `DailyFile`; a log file that
  another program removes.
