------------------------------ MODULE Session ------------------------------
(***************************************************************************)
(* Working with files: class FileManager (controllers/filemanager), the    *)
(* reading and writing of label files (controllers/jsonManager) and the    *)
(* handlers of the window that open, choose and save files, composed with  *)
(* the document of CanvasBase and a disk.  The program can end at any time *)
(* and be started again; only the disk stays.                              *)
(*                                                                         *)
(* A picture is known by its directory, base name and suffix, and stands   *)
(* for its own contents; a label file by its directory and the base name b *)
(* of b_labels.json.  Positions are one-dimensional and in half pixels: on *)
(* the canvas from the middle of the image, in a label file from the       *)
(* origin of YPolygonPoints::m_imgPoints.                                  *)
(*                                                                         *)
(* A shape is drawn in one step here; Canvas2D is about the steps between. *)
(***************************************************************************)
EXTENDS CanvasBase

CONSTANTS
  Modes,        \* bound: the draw modes that are tried
  Dirs,         \* directories
  Bases,        \* base names of files
  Pictures,     \* the pictures on the disk
  Width,        \* the width of each, in pixels
  FirstDisks,   \* the label files there can be before the first start
  Clicks,       \* bound: the positions at which vertices are drawn
  MaxCommands,  \* bound: commands on the undo stack
  MaxWrites     \* bound: writes to the disk

NoDir  == "no directory"
NoName == "no name"

\* labelFile as setSingleImage and setMultiImage leave it: the name of a
\* directory with the ending of label files.
PathName == "named after the path"

\* What imageFiles holds: a whole path, or a name relative to m_path.
ImageNames == [dir : Dirs \cup {NoDir}, base : Bases, suffix : {"jpg", "png"}]

NoPicture == [dir |-> NoDir, base |-> NoName, suffix |-> NoName]

LabelFiles == Dirs \X Bases
NoLabelFile == <<NoDir, NoName>>

\* shape_s; note stands for description and group_id, own or as the program
\* writes them.
SavedShapes ==
  [type  : {"rectangle", "line", "curve", "polygon", "none", ""},
   label : Labels \cup {NoLabel, UnknownLabel},
   note  : {"own", "default"},
   pts   : Seq(Int)]

\* A label file.  "whole": from_json reads it to its end; "part": it throws
\* after imageData, at a height or a width that is no number; "broken": it is
\* no json, or is cut off.
Contents ==
  [state  : {"whole", "part", "broken"},
   image  : Pictures,
   shapes : Seq(SavedShapes)]
Absent == [state |-> "absent", image |-> NoPicture, shapes |-> <<>>]

Disks == [LabelFiles -> Contents \cup {Absent}]

ASSUME SessionAssumption ==
  /\ Modes \subseteq DrawModes
  /\ NoDir \notin Dirs
  /\ Pictures \subseteq ImageNames /\ IsFiniteSet(Pictures)
  /\ \A p \in Pictures : p.dir # NoDir
  /\ Width \in [Pictures -> Nat]
  /\ FirstDisks \subseteq Disks
  /\ Points \subseteq Int
  /\ Clicks \subseteq Points
  /\ MaxCommands \in Nat
  /\ MaxWrites \in Nat

VARIABLES
  doc,       \* the document of CanvasBase
  offset,    \* YPolygonPoints::offset of each shape object
  drawMode,  \* m_draw
  shown,     \* the picture in m_image
  fm,        \* m_fileManager
  rows,      \* the items of fileListWidget
  pending,   \* root.shapes that openFile has not added yet
  fault,     \* "none", "uncaught", "outOfRange" or "killed"
  disk,      \* the label files
  writes,    \* how often one was written
  source,    \* history variable: what was opened last
  unsaved    \* history variable: shapes were changed since the last save

files == <<disk, writes>>
ghosts == <<source, unsaved>>
vars == <<doc, offset, drawMode, shown, fm, rows, pending, fault,
          files, ghosts>>

\* The curIdx of a new FileManager has no value; it is set before it is read.
NewFileManager ==
  [imageFiles |-> <<>>, curIdx |-> 0, path |-> NoDir, savePath |-> NoDir,
   labelFile |-> NoName, isOpenJsonFile |-> FALSE, changeNotSaved |-> FALSE,
   root |-> NoPicture]

Opened(kind, file, shapes) == [kind |-> kind, file |-> file, shapes |-> shapes]
OpenedNothing == Opened("nothing", NoLabelFile, <<>>)

\* No shape object is referenced.
NoOffsets == [s \in ShapeIds |-> 0]

Init ==
  /\ doc = EmptyDocument
  /\ offset = NoOffsets
  /\ drawMode = "Polygon"
  /\ shown = NoPicture
  /\ fm = NewFileManager
  /\ rows = <<>>
  /\ pending = <<>>
  /\ fault = "none"
  /\ disk \in FirstDisks
  /\ writes = 0
  /\ source = OpenedNothing
  /\ unsaved = FALSE

Running == fault = "none" /\ pending = <<>>

-----------------------------------------------------------------------------
(* FileManager.                                                            *)

\* entryList and sort: the pictures of a directory, in the order of names,
\* for which any fixed order stands.
DirFiles(d) ==
  LET entries == {[p EXCEPT !.dir = NoDir] : p \in {q \in Pictures : q.dir = d}}
  IN  CHOOSE seq \in [1 .. Cardinality(entries) -> entries] : IsInjective(seq)

\* The picture a path leads to: m_path is put before the name, which gives no
\* file when the name is a whole path itself.
Resolve(path, name) ==
  CASE path = NoDir     -> name
    [] name.dir = NoDir -> [name EXCEPT !.dir = path]
    [] OTHER            -> NoPicture

\* getCurrentImageFile reads outside imageFiles unless this holds.
CurIdxInRange(f) == f.curIdx < Len(f.imageFiles)

CurrentImageFile(f) == Resolve(f.path, f.imageFiles[f.curIdx + 1])

\* Mutant: the flag of the label file opened before is left on.
SetSingleImageKeepingFlag(f, name) ==
  [f EXCEPT !.imageFiles = <<name>>, !.curIdx = 0, !.labelFile = PathName,
            !.changeNotSaved = FALSE]

SetSingleImage(f, name) ==
  [f EXCEPT !.imageFiles = <<name>>, !.curIdx = 0, !.labelFile = PathName,
            !.changeNotSaved = FALSE, !.isOpenJsonFile = FALSE]

\* setMultiImage leaves isOpenJsonFile as it is.
SetMultiImage(f, d) ==
  [f EXCEPT !.imageFiles = DirFiles(d), !.curIdx = 0, !.path = d,
            !.labelFile = IF DirFiles(d) = <<>> THEN NoName ELSE PathName,
            !.changeNotSaved = FALSE]

\* Mutant: the pictures of the directory opened before are kept.
ReadLabelsKeepingImages(f, file, content) ==
  [f EXCEPT !.root = content.image, !.isOpenJsonFile = TRUE,
            !.savePath = file[1], !.labelFile = file[2]]

\* openFile(root, fileName) after a complete read.
ReadLabels(f, file, content) ==
  [f EXCEPT !.root = content.image, !.isOpenJsonFile = TRUE,
            !.imageFiles = <<>>, !.savePath = file[1], !.labelFile = file[2]]

SelectFile(f, idx) == [f EXCEPT !.curIdx = idx]

\* getLabelFile: named after the selected picture if there is one.
GetLabelFile(f) ==
  IF f.imageFiles # <<>> THEN f.imageFiles[f.curIdx + 1].base ELSE f.labelFile

-----------------------------------------------------------------------------
(* Shapes on their way to a file and back.                                 *)

\* drawModeToStr has no text for Polyline.
DrawModeToStr(type) ==
  CASE type = "Rectangle" -> "rectangle"
    [] type = "Line"      -> "line"
    [] type = "Curve"     -> "curve"
    [] type = "Polygon"   -> "polygon"
    [] OTHER              -> ""

\* setImgWH: half the width, exactly.
ImgOffset(picture) == Width[picture]

\* mapFromImg: half the width, as an integer number of pixels.
MapFromImg(picture, x) == x - 2 * (Width[picture] \div 2)

\* Mutant: the canvas positions are written.
SavedShapeFromCanvas(s) ==
  [type |-> DrawModeToStr(doc.shape[s].type), label |-> doc.shape[s].label,
   note |-> "default", pts |-> doc.shape[s].pts]

\* One round of the loop of saveFile.  The label of a shape never takes over
\* description and group_id, so the defaults are written.
SavedShape(s) ==
  [type |-> DrawModeToStr(doc.shape[s].type), label |-> doc.shape[s].label,
   note |-> "default",
   pts  |-> [i \in DOMAIN doc.shape[s].pts |->
               doc.shape[s].pts[i] + offset[s]]]

\* What saveFile writes.
Root ==
  [state  |-> "whole",
   image  |-> IF fm.isOpenJsonFile THEN fm.root ELSE CurrentImageFile(fm),
   shapes |-> [i \in DOMAIN doc.list |-> SavedShape(doc.list[i])]]

\* The vertices of a saved shape on the canvas of the picture.
OnCanvas(f, picture) ==
  [pts   |-> [i \in DOMAIN f.pts |-> MapFromImg(picture, f.pts[i])],
   label |-> f.label]

-----------------------------------------------------------------------------
(* Opening.  Every handler cleans the canvas and the lists first.          *)

\* loadImage after a clean; without a picture setImage throws, and no handler
\* catches it.
LoadOnCleanCanvas(p) ==
  /\ shown' = p
  /\ doc' = [Clean(doc) EXCEPT !.image = p \in Pictures]
  /\ fault' = IF p \in Pictures THEN "none" ELSE "uncaught"
  /\ offset' = NoOffsets
  /\ unsaved' = FALSE
  /\ UNCHANGED <<drawMode, files>>

\* openFile with a picture.
OpenImage ==
  /\ Running
  /\ \E p \in Pictures :
       /\ fm' = SelectFile(SetSingleImage(fm, p), 0)
       /\ rows' = <<p>>
       /\ LoadOnCleanCanvas(CurrentImageFile(fm'))
  /\ source' = Opened("image", NoLabelFile, <<>>)
  /\ UNCHANGED pending

\* Mutant: the list of files keeps its items.
OpenLabelsKeepingRows ==
  /\ Running
  /\ \E file \in LabelFiles :
       /\ disk[file].state = "whole"
       /\ fm' = ReadLabels(fm, file, disk[file])
       /\ LoadOnCleanCanvas(disk[file].image)
       /\ pending' = disk[file].shapes
       /\ source' = Opened("labels", file, disk[file].shapes)
  /\ UNCHANGED rows

\* openFile with a label file.
OpenLabels ==
  /\ Running
  /\ \E file \in LabelFiles :
       /\ disk[file].state = "whole"
       /\ fm' = ReadLabels(fm, file, disk[file])
       /\ LoadOnCleanCanvas(disk[file].image)
       /\ pending' = disk[file].shapes
       /\ source' = Opened("labels", file, disk[file].shapes)
  /\ rows' = <<>>

\* readJson fails late: the file manager stays as it was, and openFile goes on
\* with what has been read.
OpenLabelsInPart ==
  /\ Running
  /\ \E file \in LabelFiles :
       /\ disk[file].state = "part"
       /\ LoadOnCleanCanvas(disk[file].image)
       /\ pending' = disk[file].shapes
       /\ source' = Opened("part", file, disk[file].shapes)
  /\ rows' = <<>>
  /\ UNCHANGED fm

\* readJson fails early, or the dialog is cancelled: there is no image.  What
\* setSingleImage makes of a cancelled dialog is not looked at any more.
OpenNothing ==
  /\ Running
  /\ LoadOnCleanCanvas(NoPicture)
  /\ rows' = <<>>
  /\ source' = OpenedNothing
  /\ UNCHANGED <<fm, pending>>

\* One round of the loop over root.shapes.  Bound: the vertices are in Points.
LoadShape ==
  /\ fault = "none"
  /\ pending # <<>>
  /\ LET f == OnCanvas(Head(pending), shown)
     IN  /\ Range(f.pts) \subseteq Points
         /\ \E s \in ShapeIds \ Referenced(doc) :
              /\ doc' = AddLoaded(doc, s, drawMode, f)
              /\ offset' = [offset EXCEPT ![s] = ImgOffset(shown)]
  /\ pending' = Tail(pending)
  /\ UNCHANGED <<drawMode, shown, fm, rows, fault, files, ghosts>>

\* The handler of the action that opens a directory.
OpenDir ==
  /\ Running
  /\ \E d \in Dirs :
       /\ DirFiles(d) # <<>>
       /\ fm' = SelectFile(SetMultiImage(fm, d), 0)
       /\ rows' = DirFiles(d)
       /\ LoadOnCleanCanvas(CurrentImageFile(fm'))
  /\ source' = Opened("directory", NoLabelFile, <<>>)
  /\ UNCHANGED pending

\* A directory without pictures, or a cancelled dialog: getCurrentImageFile
\* reads the first of no names.
OpenEmptyDir ==
  /\ Running
  /\ \E d \in Dirs \cup {NoDir} :
       /\ DirFiles(d) = <<>>
       /\ fm' = SetMultiImage(fm, d)
  /\ doc' = Clean(doc)
  /\ shown' = NoPicture
  /\ rows' = <<>>
  /\ fault' = "outOfRange"
  /\ source' = OpenedNothing
  /\ offset' = NoOffsets
  /\ unsaved' = FALSE
  /\ UNCHANGED <<drawMode, pending, files>>

-----------------------------------------------------------------------------
(* Choosing another picture of the list.                                   *)

\* Mutant: the picture is loaded before it is selected.
ClickFileLoadingFirst ==
  /\ Running
  /\ ~fm.changeNotSaved
  /\ \E i \in DOMAIN rows : fm' = SelectFile(fm, i - 1)
  /\ shown' = CurrentImageFile(fm)
  /\ UNCHANGED <<doc, offset, drawMode, rows, pending, fault, files, ghosts>>

\* The shapes stay on the canvas.  changeNotSaved is never set, so the branch
\* that asks whether to save is never taken and is left out.
ClickFile ==
  /\ Running
  /\ ~fm.changeNotSaved
  /\ \E i \in DOMAIN rows : fm' = SelectFile(fm, i - 1)
  /\ shown' = CurrentImageFile(fm')
  /\ UNCHANGED <<doc, offset, drawMode, rows, pending, fault, files, ghosts>>

-----------------------------------------------------------------------------
(* Saving.                                                                 *)

\* getSavePath: asked for once, then kept; a cancelled dialog changes nothing.
SavePaths == IF fm.savePath = NoDir THEN Dirs ELSE {fm.savePath}

\* getSavePath and getLabelFile also set the members they return.
Named(d) == [fm EXCEPT !.savePath = d, !.labelFile = GetLabelFile(fm)]

\* With no shape saveFile returns before it writes.
SaveNothing ==
  /\ Running
  /\ doc.list = <<>>
  /\ \E d \in SavePaths : fm' = Named(d)
  /\ UNCHANGED <<doc, offset, drawMode, shown, rows, pending, fault>>
  /\ UNCHANGED <<files, ghosts>>

\* Mutant: the name after the selected one is read.
RootKnownPast == fm.isOpenJsonFile \/ fm.curIdx + 1 < Len(fm.imageFiles)

\* getCurrentImageFile finds a name, or is not called.
RootKnown == fm.isOpenJsonFile \/ CurIdxInRange(fm)

SaveFile ==
  /\ Running
  /\ doc.list # <<>>
  /\ RootKnown
  /\ writes < MaxWrites
  /\ writes' = writes + 1
  /\ \E d \in SavePaths :
       /\ fm' = Named(d)
       /\ disk' = [disk EXCEPT ![<<d, GetLabelFile(fm)>>] = Root]
  /\ unsaved' = FALSE
  /\ UNCHANGED <<doc, offset, drawMode, shown, rows, pending, fault, source>>

\* The ofstream cannot be opened: writeJson does not notice.
SaveFails ==
  /\ Running
  /\ doc.list # <<>>
  /\ RootKnown
  /\ \E d \in SavePaths : fm' = Named(d)
  /\ UNCHANGED <<doc, offset, drawMode, shown, rows, pending, fault>>
  /\ UNCHANGED <<files, ghosts>>

\* Shapes of a file that was read in part, and no picture was opened before.
SaveOutOfRange ==
  /\ Running
  /\ doc.list # <<>>
  /\ ~RootKnown
  /\ \E d \in SavePaths : fm' = Named(d)
  /\ fault' = "outOfRange"
  /\ UNCHANGED <<doc, offset, drawMode, shown, rows, pending, files, ghosts>>

\* The program is killed after the ofstream has emptied the file.
KilledWhileSaving ==
  /\ Running
  /\ doc.list # <<>>
  /\ RootKnown
  /\ writes < MaxWrites
  /\ writes' = writes + 1
  /\ \E d \in SavePaths :
       /\ fm' = Named(d)
       /\ disk' = [disk EXCEPT ![<<d, GetLabelFile(fm)>>] =
                     [Root EXCEPT !.state = "broken"]]
  /\ fault' = "killed"
  /\ UNCHANGED <<doc, offset, drawMode, shown, rows, pending, ghosts>>

\* The program ends, in whatever state, and is started again.
Restart ==
  /\ doc' = EmptyDocument
  /\ offset' = NoOffsets
  /\ drawMode' = "Polygon"
  /\ shown' = NoPicture
  /\ fm' = NewFileManager
  /\ rows' = <<>>
  /\ pending' = <<>>
  /\ fault' = "none"
  /\ source' = OpenedNothing
  /\ unsaved' = FALSE
  /\ UNCHANGED files

-----------------------------------------------------------------------------
(* Editing.                                                                *)

\* A shape with one vertex is drawn, closed and given a label or none.
Annotate ==
  /\ Running
  /\ doc.image
  /\ doc.idx + 2 <= MaxCommands
  /\ \E s \in ShapeIds \ Referenced(doc),
        p \in Clicks, label \in Labels \cup {NoLabel} :
       LET drawn == PushAddPoint(PushAddShape(doc, s, drawMode), p)
       IN  /\ doc' = [drawn EXCEPT !.shape[s] =
                        [@ EXCEPT !.closed = TRUE, !.label = label]]
           /\ offset' = [offset EXCEPT ![s] = ImgOffset(shown)]
  /\ unsaved' = TRUE
  /\ UNCHANGED <<drawMode, shown, fm, rows, pending, fault, files, source>>

Undo ==
  /\ Running
  /\ CanUndo(doc)
  /\ doc' = UndoStep(doc)
  /\ unsaved' = TRUE
  /\ UNCHANGED <<offset, drawMode, shown, fm, rows, pending, fault>>
  /\ UNCHANGED <<files, source>>

Redo ==
  /\ Running
  /\ CanRedo(doc)
  /\ doc' = RedoStep(doc)
  /\ unsaved' = TRUE
  /\ UNCHANGED <<offset, drawMode, shown, fm, rows, pending, fault>>
  /\ UNCHANGED <<files, source>>

ChangeDrawMode ==
  /\ Running
  /\ drawMode' \in Modes
  /\ UNCHANGED <<doc, offset, shown, fm, rows, pending, fault, files, ghosts>>

Next ==
  \/ OpenImage
  \/ OpenLabels
  \/ OpenLabelsInPart
  \/ OpenNothing
  \/ LoadShape
  \/ OpenDir
  \/ OpenEmptyDir
  \/ ClickFile
  \/ SaveNothing
  \/ SaveFile
  \/ SaveFails
  \/ SaveOutOfRange
  \/ KilledWhileSaving
  \/ Restart
  \/ Annotate
  \/ Undo
  \/ Redo
  \/ ChangeDrawMode

Spec == Init /\ [][Next]_vars

-----------------------------------------------------------------------------
(* Properties.                                                             *)

\* The list of files on the screen and the one of the file manager agree, so
\* the handler of a click, which passes a row of the first as an index of the
\* second, never reads outside it and always finds a picture: after any order
\* of opening pictures, directories and (unreadable) label files.
RowsLeadToPictures ==
  fault = "none" =>
    /\ rows \in {<<>>, fm.imageFiles}
    /\ fm.imageFiles # <<>> => CurIdxInRange(fm)
    /\ \A i \in DOMAIN rows : Resolve(fm.path, rows[i]) \in Pictures

\* The picture on the canvas is the one the file manager has selected, or the
\* one of the label file it has read.  A label file that was read in part is
\* the exception: openFile shows its image and ignores the failure.
ShownIsSelected ==
  fault = "none" /\ shown # NoPicture /\ source.kind # "part" =>
    shown = IF fm.imageFiles # <<>> THEN CurrentImageFile(fm) ELSE fm.root

\* saveFile embeds the picture on the canvas.  Two exceptions: a label file
\* read in part, and a directory that was opened after a label file, where
\* setMultiImage leaves isOpenJsonFile on and the old image is written.
SavedImageIsShown ==
  [][SaveFile =>
       \/ Root.image = shown
       \/ source.kind = "part"
       \/ source.kind = "directory" /\ fm.isOpenJsonFile]_vars

\* A save, also one that the program does not survive, changes no label file
\* but the one named after the picture on the canvas or, after a label file
\* was opened, that file itself: getLabelFile and getSavePath keep values from
\* earlier pictures, directories and files.
\* After a label file was read in part nothing is claimed.
SavedUnderItsName ==
  [][SaveFile \/ KilledWhileSaving =>
       \A file \in LabelFiles : disk'[file] # disk[file] =>
         CASE source.kind = "labels" -> file = source.file
           [] source.kind = "part"   -> TRUE
           [] OTHER -> file[2] = shown.base]_vars

\* The program ends by itself only for want of something: an exception is
\* uncaught when no image could be loaded, and a list is read outside its range
\* when it is empty.  A picture opened after a directory is one that cannot be
\* loaded: m_path is put before its whole path.
EndsForWant ==
  /\ fault = "uncaught" => ~doc.image
  /\ fault = "outOfRange" => fm.imageFiles = <<>>

\* What opening a label file and saving it makes of its shapes: they get the
\* type of the draw mode, an empty label becomes UnknownLabel, description and
\* group_id are lost, and on an image of odd width every vertex moves by half
\* a pixel.
Reloaded(f, type) ==
  [type  |-> type,
   label |-> IF f.label = NoLabel THEN UnknownLabel ELSE f.label,
   note  |-> "default",
   pts   |-> [i \in DOMAIN f.pts |-> f.pts[i] + (Width[shown] % 2)]]

\* A label file that was opened and is saved without an edit keeps its shapes,
\* their order, labels and vertices, up to the changes of Reloaded.
ReloadKeepsShapes ==
  [][SaveFile /\ source.kind = "labels" /\ doc.cmds = <<>> =>
       \E type \in DrawModes :
         disk'[source.file].shapes =
           [i \in DOMAIN source.shapes |->
              Reloaded(source.shapes[i], DrawModeToStr(type))]]_vars

\* window.cpp:59 asks whether to save when there is a file that is not saved:
\* the list of files never switches over unsaved shapes unasked.
UnsavedIsAskedFor == [][ClickFile /\ unsaved => fm.changeNotSaved]_vars
=============================================================================
