--------------------------- MODULE SessionProofs ---------------------------
(***************************************************************************)
(* What the window shows, what it has selected and what it writes agree,   *)
(* however often pictures, directories and label files are opened, chosen  *)
(* and saved, and whenever the program ends: proofs for Session.           *)
(***************************************************************************)
EXTENDS Session, CanvasBaseProofs

-----------------------------------------------------------------------------
(* The inductive invariant.                                                *)

FileManagers ==
  [imageFiles : Seq(ImageNames), curIdx : Nat, path : Dirs \cup {NoDir},
   savePath : Dirs \cup {NoDir}, labelFile : Bases \cup {NoName, PathName},
   isOpenJsonFile : BOOLEAN, changeNotSaved : BOOLEAN, root : Pictures \cup {NoPicture}]

Sources ==
  [kind : {"nothing", "image", "directory", "labels", "part"},
   file : LabelFiles \cup {NoLabelFile}, shapes : Seq(SavedShapes)]

\* The types of the variables; of the document more, by CanvasBaseProofs.
Typed ==
  /\ DocOK(doc)
  /\ offset \in [ShapeIds -> Int]
  /\ drawMode \in DrawModes
  /\ shown \in Pictures \cup {NoPicture}
  /\ fm \in FileManagers
  /\ pending \in Seq(SavedShapes)
  /\ disk \in Disks
  /\ source \in Sources

\* Every name of file manager f leads to a picture, and one of them is selected;
\* the root it has read is one with a picture.
Leads(f) ==
  /\ f.imageFiles # <<>> => CurIdxInRange(f)
  /\ \A i \in DOMAIN f.imageFiles : Resolve(f.path, f.imageFiles[i]) \in Pictures
  /\ f.isOpenJsonFile => f.root \in Pictures

\* What was opened last tells what the window shows, what the file manager f has
\* selected or read, and which items r the list of files has.
Tells(src, p, f, r) ==
  /\ src.kind = "nothing" => p = NoPicture /\ r = <<>>
  /\ src.kind \in {"image", "directory"} =>
       /\ f.imageFiles # <<>> /\ r = f.imageFiles
       /\ p = CurrentImageFile(f)
  /\ src.kind = "image" => ~f.isOpenJsonFile
  /\ src.kind = "labels" =>
       /\ f.imageFiles = <<>> /\ r = <<>>
       /\ f.isOpenJsonFile /\ p = f.root
       /\ src.file \in LabelFiles /\ f.savePath = src.file[1] /\ f.labelFile = src.file[2]
  /\ src.kind = "part" => p \in Pictures /\ r = <<>>

\* Shapes are loaded only on a canvas without commands, and without a picture
\* there are neither shapes nor commands.
Loading(src, d, todo) ==
  /\ todo # <<>> => d.cmds = <<>> /\ src.kind \in {"labels", "part"}
  /\ src.kind = "nothing" => ~d.image /\ d.list = <<>> /\ d.cmds = <<>>

\* Shape object x with offset o is shape f of a label file on the canvas of
\* picture p.
IsLoaded(x, o, f, p) ==
  /\ x.pts = OnCanvas(f, p).pts
  /\ x.label = IF f.label = NoLabel THEN UnknownLabel ELSE f.label
  /\ o = ImgOffset(p)

\* The canvas has the first shapes of the file in their order, those still to be
\* added are the others, and all have one type: the draw mode cannot change
\* before the last one is there.
Reading(shapes, p, d, off, todo, mode) ==
  /\ Len(shapes) = Len(d.list) + Len(todo)
  /\ \A j \in 1 .. Len(todo) : todo[j] = shapes[Len(d.list) + j]
  /\ \A i \in DOMAIN d.list : IsLoaded(d.shape[d.list[i]], off[d.list[i]], shapes[i], p)
  /\ \E type \in DrawModes :
       /\ \A i \in DOMAIN d.list : d.shape[d.list[i]].type = type
       /\ todo # <<>> => type = mode

SInv ==
  /\ Typed
  /\ EndsForWant
  /\ fault = "none" =>
       /\ Leads(fm)
       /\ Tells(source, shown, fm, rows)
       /\ Loading(source, doc, pending)
       /\ source.kind = "labels" /\ doc.cmds = <<>> =>
            Reading(source.shapes, shown, doc, offset, pending, drawMode)

-----------------------------------------------------------------------------
(* The file manager.                                                       *)

\* The fields of a file manager, for the provers.
LEMMA Fields ==
  ASSUME NEW f \in FileManagers
  PROVE  /\ f.imageFiles \in Seq(ImageNames) /\ f.curIdx \in Nat
         /\ f.path \in Dirs \cup {NoDir} /\ f.savePath \in Dirs \cup {NoDir}
         /\ f.labelFile \in Bases \cup {NoName, PathName}
         /\ f.isOpenJsonFile \in BOOLEAN /\ f.changeNotSaved \in BOOLEAN
         /\ f.root \in Pictures \cup {NoPicture}
BY Zenon DEF FileManagers

\* The picture that is no picture.
LEMMA NoPictureIsNone == NoPicture \notin Pictures /\ NoPicture.dir = NoDir
BY SessionAssumption DEF NoPicture

\* The pictures of a directory, in some order, as names without the directory.
LEMMA DirFilesFacts ==
  ASSUME NEW d
  PROVE  /\ DirFiles(d) \in Seq(ImageNames)
         /\ \A i \in DOMAIN DirFiles(d) :
              /\ Resolve(d, DirFiles(d)[i]) \in Pictures
              /\ Resolve(d, DirFiles(d)[i]).base = DirFiles(d)[i].base
<1> DEFINE here == {q \in Pictures : q.dir = d}
           bare == [p \in here |-> [p EXCEPT !.dir = NoDir]]
           entries == {[p EXCEPT !.dir = NoDir] : p \in here}
           n == Cardinality(entries)
           seq == DirFiles(d)
<1>1. IsFiniteSet(here)
  BY SessionAssumption, FS_Subset
<1>2. bare \in Surjection(here, entries)
  BY Zenon DEF Surjection
<1>3. IsFiniteSet(entries)
  <2> HIDE DEF here, bare, entries
  <2> QED
    BY <1>1, <1>2, FS_Surjection
<1>4. seq = CHOOSE f \in [1 .. n -> entries] : IsInjective(f)
  BY DEF DirFiles
<1> HIDE DEF entries
<1>5. n \in Nat /\ ExistsBijection(1 .. n, entries)
  BY <1>3, FS_CardinalityType
<1> HIDE DEF n
<1>6. \E f \in [1 .. n -> entries] : IsInjective(f)
  BY <1>5 DEF ExistsBijection, Bijection, Injection, IsInjective
<1> HIDE DEF seq
<1>7. seq \in [1 .. n -> entries]
  BY <1>4, <1>6
<1>8. ASSUME NEW e \in entries
      PROVE  e \in ImageNames /\ Resolve(d, e) \in Pictures /\ Resolve(d, e).base = e.base
  <2>1. PICK p \in here : e = [p EXCEPT !.dir = NoDir]
    BY DEF entries
  <2>2. p \in Pictures /\ p.dir = d /\ p \in ImageNames /\ d # NoDir
    BY SessionAssumption
  <2>3. e \in ImageNames /\ e.dir = NoDir /\ e.base = p.base /\ [e EXCEPT !.dir = d] = p
    BY <2>1, <2>2, ZenonT(30) DEF ImageNames
  <2> QED
    BY <2>2, <2>3, Zenon DEF Resolve
<1>9. seq \in Seq(ImageNames) /\ DOMAIN seq = 1 .. n
  <2>1. seq \in [1 .. n -> ImageNames]
    BY <1>7, <1>8
  <2> QED
    BY <1>5, <2>1
<1> QED
  BY <1>7, <1>8, <1>9 DEF seq

\* A picture opened by itself.
LEMMA SingleImage ==
  ASSUME NEW f \in FileManagers, NEW p \in Pictures,
         NEW g, g = SelectFile(SetSingleImage(f, p), 0)
  PROVE  /\ g \in FileManagers /\ g.imageFiles = <<p>> /\ ~g.isOpenJsonFile
         /\ CurrentImageFile(g) \in Pictures \cup {NoPicture}
         /\ CurrentImageFile(g) \in Pictures => Leads(g)
<1>1. p \in ImageNames /\ p.dir # NoDir
  BY SessionAssumption
<1>2. <<p>> \in Seq(ImageNames) /\ <<p>> # <<>> /\ <<p>>[1] = p /\ DOMAIN <<p>> = {1} /\ Len(<<p>>) = 1
  BY <1>1
<1>3. /\ g \in FileManagers /\ g.imageFiles = <<p>> /\ g.curIdx = 0 /\ g.path = f.path
      /\ g.isOpenJsonFile = FALSE
  BY <1>2, ZenonT(30) DEF SelectFile, SetSingleImage, FileManagers
<1>4. CurrentImageFile(g) = Resolve(f.path, p)
  BY <1>2, <1>3 DEF CurrentImageFile
<1>5. Resolve(f.path, p) \in {p, NoPicture}
  <2>1. CASE f.path = NoDir
    BY <1>1, <2>1, Zenon DEF Resolve
  <2>2. CASE f.path # NoDir
    BY <1>1, <2>2, Zenon DEF Resolve
  <2> QED
    BY <2>1, <2>2
<1>6. CurIdxInRange(g)
  <2>1. 0 < 1
    OBVIOUS
  <2> QED
    BY <1>2, <1>3, <2>1, Zenon DEF CurIdxInRange
<1> QED
  BY <1>2, <1>3, <1>4, <1>5, <1>6, Zenon DEF Leads

\* A directory.
LEMMA MultiImage ==
  ASSUME NEW f \in FileManagers, NEW d \in Dirs \cup {NoDir}, NEW g, g = SetMultiImage(f, d)
  PROVE  /\ g \in FileManagers /\ g.imageFiles = DirFiles(d) /\ g.curIdx = 0 /\ g.path = d
         /\ g.isOpenJsonFile = f.isOpenJsonFile /\ g.root = f.root
<1>1. DirFiles(d) \in Seq(ImageNames)
  BY DirFilesFacts
<1>2. (IF DirFiles(d) = <<>> THEN NoName ELSE PathName) \in Bases \cup {NoName, PathName}
  OBVIOUS
<1> QED
  BY <1>1, <1>2, ZenonT(30) DEF SetMultiImage, FileManagers

\* The first picture of it is selected.
LEMMA FirstOfDir ==
  ASSUME NEW f \in FileManagers, NEW d \in Dirs, DirFiles(d) # <<>>,
         f.isOpenJsonFile => f.root \in Pictures,
         NEW g, g = SelectFile(SetMultiImage(f, d), 0)
  PROVE  /\ g \in FileManagers /\ g.imageFiles = DirFiles(d) /\ Leads(g)
         /\ CurrentImageFile(g) \in Pictures
<1> DEFINE h == SetMultiImage(f, d)
<1>1. /\ h \in FileManagers /\ h.imageFiles = DirFiles(d) /\ h.curIdx = 0 /\ h.path = d
      /\ h.isOpenJsonFile = f.isOpenJsonFile /\ h.root = f.root
  BY MultiImage, Zenon
<1> HIDE DEF h
<1>2. g = [h EXCEPT !.curIdx = 0]
  BY DEF SelectFile, h
<1>3. /\ g \in FileManagers /\ g.imageFiles = DirFiles(d) /\ g.curIdx = 0 /\ g.path = d
      /\ g.isOpenJsonFile = f.isOpenJsonFile /\ g.root = f.root
  BY <1>1, <1>2, ZenonT(30) DEF FileManagers
<1>4. 1 \in DOMAIN DirFiles(d) /\ Len(DirFiles(d)) > 0
  BY DirFilesFacts
<1>5. CurIdxInRange(g)
  BY <1>3, <1>4 DEF CurIdxInRange
<1>6. CurrentImageFile(g) = Resolve(d, DirFiles(d)[1])
  BY <1>3 DEF CurrentImageFile
<1> QED
  BY <1>3, <1>4, <1>5, <1>6, DirFilesFacts, Zenon DEF Leads

\* A label file that is read to its end.
LEMMA LabelsRead ==
  ASSUME NEW f \in FileManagers, NEW file \in LabelFiles, NEW c \in Contents,
         NEW g, g = ReadLabels(f, file, c)
  PROVE  /\ g \in FileManagers /\ g.imageFiles = <<>> /\ g.isOpenJsonFile
         /\ g.root = c.image /\ g.savePath = file[1] /\ g.labelFile = file[2]
         /\ Leads(g)
<1>1. c.image \in Pictures /\ file[1] \in Dirs /\ file[2] \in Bases
  BY DEF Contents, LabelFiles
<1>2. <<>> \in Seq(ImageNames) /\ DOMAIN <<>> = {}
  OBVIOUS
<1>3. /\ g \in FileManagers /\ g.imageFiles = <<>> /\ g.isOpenJsonFile = TRUE
      /\ g.root = c.image /\ g.savePath = file[1] /\ g.labelFile = file[2]
  BY <1>1, <1>2, ZenonT(30) DEF ReadLabels, FileManagers
<1> QED
  BY <1>1, <1>2, <1>3, Zenon DEF Leads

\* Another picture of the list.
LEMMA Selected ==
  ASSUME NEW f \in FileManagers, Leads(f), NEW i \in DOMAIN f.imageFiles,
         NEW g, g = SelectFile(f, i - 1)
  PROVE  /\ g \in FileManagers /\ g.imageFiles = f.imageFiles /\ Leads(g)
         /\ g.isOpenJsonFile = f.isOpenJsonFile
         /\ CurrentImageFile(g) \in Pictures
<1>1. i \in 1 .. Len(f.imageFiles) /\ i - 1 \in Nat /\ (i - 1) + 1 = i
  BY Fields, SeqLen
<1>2. /\ g \in FileManagers /\ g.imageFiles = f.imageFiles /\ g.curIdx = i - 1 /\ g.path = f.path
      /\ g.isOpenJsonFile = f.isOpenJsonFile /\ g.root = f.root
  BY <1>1, ZenonT(30) DEF SelectFile, FileManagers
<1>3. CurIdxInRange(g)
  BY <1>1, <1>2 DEF CurIdxInRange
<1>4. CurrentImageFile(g) = Resolve(f.path, f.imageFiles[i])
  BY <1>1, <1>2 DEF CurrentImageFile
<1> QED
  BY <1>2, <1>3, <1>4, Zenon DEF Leads

\* The picture that is selected, and the label file that is named after it.
LEMMA CurrentFacts ==
  ASSUME NEW f \in FileManagers, Leads(f), f.imageFiles # <<>>
  PROVE  /\ CurrentImageFile(f) \in Pictures
         /\ GetLabelFile(f) = CurrentImageFile(f).base /\ GetLabelFile(f) \in Bases
<1> DEFINE name == f.imageFiles[f.curIdx + 1]
<1>1. f.curIdx + 1 \in DOMAIN f.imageFiles
  BY Fields DEF Leads, CurIdxInRange
<1>2. name \in ImageNames
  BY <1>1, Fields
<1>3. CurrentImageFile(f) = Resolve(f.path, name) /\ GetLabelFile(f) = name.base
  BY DEF CurrentImageFile, GetLabelFile
<1>4. Resolve(f.path, name) \in Pictures
  BY <1>1 DEF Leads
<1> HIDE DEF name
<1>5. name.base \in Bases /\ [name EXCEPT !.dir = f.path].base = name.base
  BY <1>2 DEF ImageNames
<1>6. Resolve(f.path, name).base = name.base
  BY <1>4, <1>5, NoPictureIsNone DEF Resolve
<1> QED
  BY <1>3, <1>4, <1>5, <1>6

\* getSavePath and getLabelFile.
LEMMA NamedFacts ==
  ASSUME fm \in FileManagers, Leads(fm), NEW d \in SavePaths, NEW g, g = Named(d)
  PROVE  /\ d \in Dirs
         /\ g \in FileManagers /\ g.imageFiles = fm.imageFiles /\ g.curIdx = fm.curIdx
         /\ g.path = fm.path /\ g.isOpenJsonFile = fm.isOpenJsonFile /\ g.root = fm.root
         /\ g.savePath = d /\ g.labelFile = GetLabelFile(fm)
         /\ fm.savePath # NoDir => d = fm.savePath
         /\ fm.imageFiles = <<>> => GetLabelFile(fm) = fm.labelFile
         /\ Leads(g) /\ CurrentImageFile(g) = CurrentImageFile(fm)
<1>1. d \in Dirs /\ (fm.savePath # NoDir => d = fm.savePath)
  BY Fields DEF SavePaths
<1>2. fm.imageFiles = <<>> => GetLabelFile(fm) = fm.labelFile
  BY DEF GetLabelFile
<1>3. GetLabelFile(fm) \in Bases \cup {NoName, PathName}
  BY <1>2, CurrentFacts, Fields
<1>4. /\ g \in FileManagers /\ g.imageFiles = fm.imageFiles /\ g.curIdx = fm.curIdx
      /\ g.path = fm.path /\ g.isOpenJsonFile = fm.isOpenJsonFile /\ g.root = fm.root
      /\ g.savePath = d /\ g.labelFile = GetLabelFile(fm)
  BY <1>1, <1>3, ZenonT(30) DEF Named, FileManagers
<1>5. Leads(g) /\ CurrentImageFile(g) = CurrentImageFile(fm)
  BY <1>4 DEF Leads, CurIdxInRange, CurrentImageFile
<1> QED
  BY <1>1, <1>2, <1>4, <1>5

-----------------------------------------------------------------------------
(* Starting and opening.                                                   *)

\* The state in which the program starts.
LEMMA Fresh ==
  /\ DocOK(EmptyDocument) /\ NoOffsets \in [ShapeIds -> Int] /\ "Polygon" \in DrawModes
  /\ NewFileManager \in FileManagers /\ OpenedNothing \in Sources
  /\ Leads(NewFileManager)
  /\ Tells(OpenedNothing, NoPicture, NewFileManager, <<>>)
  /\ Loading(OpenedNothing, EmptyDocument, <<>>)
  /\ OpenedNothing.kind = "nothing"
<1>1. /\ <<>> \in Seq(ImageNames) /\ <<>> \in Seq(SavedShapes) /\ DOMAIN <<>> = {}
      /\ <<>> \in Seq(SavedShapes) /\ 0 \in Nat
  OBVIOUS
<1>2. DocOK(EmptyDocument)
  BY EmptyOK
<1>3. NoOffsets \in [ShapeIds -> Int] /\ "Polygon" \in DrawModes
  BY DEF NoOffsets, DrawModes
<1>4. /\ NewFileManager.imageFiles = <<>> /\ NewFileManager.isOpenJsonFile = FALSE
      /\ NewFileManager \in FileManagers
  BY <1>1, Zenon DEF NewFileManager, FileManagers
<1>5. OpenedNothing \in Sources /\ OpenedNothing.kind = "nothing"
  BY <1>1, Zenon DEF OpenedNothing, Opened, Sources
<1>6. EmptyDocument.image = FALSE /\ EmptyDocument.list = <<>> /\ EmptyDocument.cmds = <<>>
  BY DEF EmptyDocument
<1>7. Leads(NewFileManager)
  BY <1>1, <1>4, Zenon DEF Leads
<1>8. Tells(OpenedNothing, NoPicture, NewFileManager, <<>>)
  BY <1>5 DEF Tells
<1>9. Loading(OpenedNothing, EmptyDocument, <<>>)
  BY <1>5, <1>6 DEF Loading
<1> QED
  BY <1>2, <1>3, <1>4, <1>5, <1>7, <1>8, <1>9

\* The first start.
LEMMA InitInv == Init => SInv
<1> SUFFICES ASSUME Init PROVE SInv
  OBVIOUS
<1>1. Typed
  <2>1. disk \in Disks
    BY SessionAssumption DEF Init
  <2>2. pending \in Seq(SavedShapes)
    BY DEF Init
  <2> QED
    BY <2>1, <2>2, Fresh, Zenon DEF Init, Typed
<1>2. EndsForWant
  BY DEF Init, EndsForWant
<1>3. Leads(fm) /\ Tells(source, shown, fm, rows) /\ Loading(source, doc, pending)
  BY Fresh, Zenon DEF Init
<1>4. source.kind # "labels"
  BY Fresh DEF Init
<1> QED
  BY <1>1, <1>2, <1>3, <1>4, Zenon DEF SInv

\* Every other start.
LEMMA RestartInv == SInv /\ Restart => SInv'
<1> SUFFICES ASSUME SInv, Restart PROVE SInv'
  OBVIOUS
<1>1. Typed'
  <2>1. disk' \in Disks
    BY DEF Restart, SInv, Typed, files
  <2>2. pending' \in Seq(SavedShapes)
    BY DEF Restart
  <2> QED
    BY <2>1, <2>2, Fresh, Zenon DEF Restart, Typed
<1>2. EndsForWant'
  BY DEF Restart, EndsForWant
<1>3. (Leads(fm) /\ Tells(source, shown, fm, rows) /\ Loading(source, doc, pending))'
  BY Fresh, Zenon DEF Restart
<1>4. source'.kind # "labels"
  BY Fresh DEF Restart
<1> QED
  BY <1>1, <1>2, <1>3, <1>4, Zenon DEF SInv

\* The canvas after a clean and loadImage.
LEMMA CanvasLoaded ==
  ASSUME Typed, NEW p \in Pictures \cup {NoPicture}, LoadOnCleanCanvas(p)
  PROVE  /\ DocOK(doc') /\ doc'.list = <<>> /\ doc'.cmds = <<>> /\ doc'.image = (p \in Pictures)
         /\ offset' \in [ShapeIds -> Int] /\ drawMode' = drawMode /\ shown' = p /\ disk' = disk
         /\ fault' = IF p \in Pictures THEN "none" ELSE "uncaught"
<1>1. DocOK(doc) /\ (p \in Pictures) \in BOOLEAN
  BY DEF Typed
<1>2. doc' = [Clean(doc) EXCEPT !.image = (p \in Pictures)]
  BY DEF LoadOnCleanCanvas
<1>3. DocOK(doc') /\ doc'.list = <<>> /\ doc'.cmds = <<>> /\ doc'.image = (p \in Pictures)
  BY <1>1, <1>2, CleanOK, Zenon
<1> QED
  BY <1>3, Fresh, Zenon DEF LoadOnCleanCanvas, files

\* A handler that opens something keeps the invariant when what it tells the file
\* manager fits the picture it loads.
LEMMA AfterOpening ==
  ASSUME SInv, NEW p \in Pictures \cup {NoPicture}, LoadOnCleanCanvas(p),
         fm' \in FileManagers, source' \in Sources, pending' \in Seq(SavedShapes),
         p \in Pictures => /\ Leads(fm') /\ Tells(source', p, fm', rows')
                           /\ source'.kind # "nothing",
         pending' # <<>> => source'.kind \in {"labels", "part"},
         source'.kind = "labels" => pending' = source'.shapes
  PROVE  SInv'
<1>1. Typed /\ drawMode \in DrawModes
  BY DEF SInv, Typed
<1>2. /\ DocOK(doc') /\ doc'.list = <<>> /\ doc'.cmds = <<>> /\ doc'.image = (p \in Pictures)
      /\ offset' \in [ShapeIds -> Int] /\ drawMode' = drawMode /\ shown' = p /\ disk' = disk
      /\ fault' = IF p \in Pictures THEN "none" ELSE "uncaught"
  BY <1>1, CanvasLoaded, Zenon
<1>3. Typed'
  BY <1>1, <1>2, Zenon DEF Typed
<1>4. EndsForWant'
  BY <1>2, Zenon DEF EndsForWant
<1>5. ASSUME p \in Pictures PROVE Loading(source, doc, pending)'
  BY <1>2, <1>5, Zenon DEF Loading
<1>6. ASSUME source'.kind = "labels"
      PROVE  Reading(source.shapes, shown, doc, offset, pending, drawMode)'
  <2> DEFINE d == doc'
             todo == pending'
  <2>1. /\ todo \in Seq(SavedShapes) /\ todo = source'.shapes
        /\ Len(d.list) = 0 /\ DOMAIN d.list = {} /\ drawMode' \in DrawModes
    BY <1>1, <1>2, <1>6
  <2>2. Len(todo) = Len(d.list) + Len(todo)
    BY <2>1
  <2>3. \A j \in 1 .. Len(todo) : todo[j] = todo[Len(d.list) + j]
    BY <2>1
  <2> HIDE DEF d, todo
  <2>4. Reading(source'.shapes, shown', d, offset', todo, drawMode')
    BY <2>1, <2>2, <2>3, Zenon DEF Reading
  <2> QED
    BY <2>4 DEF d, todo
<1> QED
  BY <1>2, <1>3, <1>4, <1>5, <1>6, Zenon DEF SInv

\* A label file that can be read at least in part.
LEMMA Readable ==
  ASSUME disk \in Disks, NEW file \in LabelFiles, disk[file].state \in {"whole", "part"}
  PROVE  /\ disk[file] \in Contents /\ disk[file].image \in Pictures
         /\ disk[file].shapes \in Seq(SavedShapes)
<1>1. disk[file] \in Contents \cup {Absent}
  BY DEF Disks
<1>2. disk[file] # Absent
  BY DEF Absent
<1>3. disk[file] \in Contents
  BY <1>1, <1>2
<1> QED
  BY <1>3, Zenon DEF Contents

\* openFile with a picture; after a directory the picture is not found.
LEMMA OpenImageInv == SInv /\ OpenImage => SInv'
<1> SUFFICES ASSUME SInv, OpenImage PROVE SInv'
  OBVIOUS
<1>1. fm \in FileManagers /\ pending = <<>> /\ pending' = <<>> /\ pending' \in Seq(SavedShapes)
  BY DEF SInv, Typed, OpenImage, Running
<1>2. PICK p \in Pictures :
        /\ fm' = SelectFile(SetSingleImage(fm, p), 0) /\ rows' = <<p>>
        /\ LoadOnCleanCanvas(CurrentImageFile(fm'))
  BY Zenon DEF OpenImage
<1>3. /\ fm' \in FileManagers /\ fm'.imageFiles = <<p>> /\ ~fm'.isOpenJsonFile
      /\ CurrentImageFile(fm') \in Pictures \cup {NoPicture}
      /\ CurrentImageFile(fm') \in Pictures => Leads(fm')
  BY <1>1, <1>2, SingleImage, Zenon
<1>4. source' \in Sources /\ source'.kind = "image"
  <2>1. <<>> \in Seq(SavedShapes)
    OBVIOUS
  <2> QED
    BY <2>1, Zenon DEF OpenImage, Opened, Sources
<1>5. <<p>> # <<>>
  OBVIOUS
<1>6. Tells(source', CurrentImageFile(fm'), fm', rows')
  BY <1>2, <1>3, <1>4, <1>5, Zenon DEF Tells
<1> QED
  BY <1>1, <1>2, <1>3, <1>4, <1>6, AfterOpening, Zenon

\* openFile with a label file that is read to its end.
LEMMA OpenLabelsInv == SInv /\ OpenLabels => SInv'
<1> SUFFICES ASSUME SInv, OpenLabels PROVE SInv'
  OBVIOUS
<1>1. fm \in FileManagers /\ disk \in Disks
  BY DEF SInv, Typed
<1>2. PICK file \in LabelFiles :
        /\ disk[file].state = "whole" /\ fm' = ReadLabels(fm, file, disk[file])
        /\ LoadOnCleanCanvas(disk[file].image) /\ pending' = disk[file].shapes
        /\ source' = Opened("labels", file, disk[file].shapes)
  BY Zenon DEF OpenLabels
<1>3. /\ disk[file] \in Contents /\ disk[file].image \in Pictures
      /\ disk[file].shapes \in Seq(SavedShapes)
  BY <1>1, <1>2, Readable
<1>4. /\ fm' \in FileManagers /\ fm'.imageFiles = <<>> /\ fm'.isOpenJsonFile
      /\ fm'.root = disk[file].image /\ fm'.savePath = file[1] /\ fm'.labelFile = file[2]
      /\ Leads(fm')
  BY <1>1, <1>2, <1>3, LabelsRead
<1>5. /\ source' \in Sources /\ source'.kind = "labels" /\ source'.file = file
      /\ source'.shapes = disk[file].shapes
  BY <1>2, <1>3, Zenon DEF Opened, Sources
<1>6. rows' = <<>>
  BY DEF OpenLabels
<1>7. Tells(source', disk[file].image, fm', rows')
  BY <1>4, <1>5, <1>6 DEF Tells
<1>8. source'.kind # "nothing" /\ source'.kind \in {"labels", "part"} /\ pending' = source'.shapes
  BY <1>2, <1>5
<1> QED
  BY <1>2, <1>3, <1>4, <1>5, <1>7, <1>8, AfterOpening

\* openFile with a label file that is read in part.
LEMMA OpenLabelsInPartInv == SInv /\ OpenLabelsInPart => SInv'
<1> SUFFICES ASSUME SInv, OpenLabelsInPart PROVE SInv'
  OBVIOUS
<1>1. fm \in FileManagers /\ disk \in Disks /\ fm' = fm /\ rows' = <<>> /\ Leads(fm)
  BY DEF SInv, Typed, OpenLabelsInPart, Running
<1>2. PICK file \in LabelFiles :
        /\ disk[file].state = "part"
        /\ LoadOnCleanCanvas(disk[file].image) /\ pending' = disk[file].shapes
        /\ source' = Opened("part", file, disk[file].shapes)
  BY Zenon DEF OpenLabelsInPart
<1>3. disk[file].image \in Pictures /\ disk[file].shapes \in Seq(SavedShapes)
  BY <1>1, <1>2, Readable
<1>4. source' \in Sources /\ source'.kind = "part"
  BY <1>2, <1>3, Zenon DEF Opened, Sources
<1>5. Tells(source', disk[file].image, fm', rows')
  BY <1>1, <1>3, <1>4 DEF Tells
<1> QED
  BY <1>1, <1>2, <1>3, <1>4, <1>5, AfterOpening, ZenonT(30)

\* openFile with nothing to show ends the program.
LEMMA OpenNothingInv == SInv /\ OpenNothing => SInv'
<1> SUFFICES ASSUME SInv, OpenNothing PROVE SInv'
  OBVIOUS
<1>1. /\ fm \in FileManagers /\ fm' = fm /\ pending' = <<>> /\ pending' \in Seq(SavedShapes)
      /\ LoadOnCleanCanvas(NoPicture) /\ source' = OpenedNothing
  BY DEF SInv, Typed, OpenNothing, Running
<1>2. source' \in Sources /\ source'.kind = "nothing"
  BY <1>1, Fresh
<1> QED
  BY <1>1, <1>2, NoPictureIsNone, AfterOpening, Zenon

\* A directory with pictures.
LEMMA OpenDirInv == SInv /\ OpenDir => SInv'
<1> SUFFICES ASSUME SInv, OpenDir PROVE SInv'
  OBVIOUS
<1>1. /\ fm \in FileManagers /\ pending' = <<>> /\ pending' \in Seq(SavedShapes)
      /\ fm.isOpenJsonFile => fm.root \in Pictures
  BY DEF SInv, Typed, OpenDir, Running, Leads
<1>2. PICK d \in Dirs :
        /\ DirFiles(d) # <<>>
        /\ fm' = SelectFile(SetMultiImage(fm, d), 0) /\ rows' = DirFiles(d)
        /\ LoadOnCleanCanvas(CurrentImageFile(fm'))
  BY Zenon DEF OpenDir
<1>3. /\ fm' \in FileManagers /\ fm'.imageFiles = DirFiles(d) /\ Leads(fm')
      /\ CurrentImageFile(fm') \in Pictures
  BY <1>1, <1>2, FirstOfDir, Zenon
<1>4. source' \in Sources /\ source'.kind = "directory"
  <2>1. <<>> \in Seq(SavedShapes)
    OBVIOUS
  <2> QED
    BY <2>1, Zenon DEF OpenDir, Opened, Sources
<1>5. Tells(source', CurrentImageFile(fm'), fm', rows')
  BY <1>2, <1>3, <1>4, Zenon DEF Tells
<1> QED
  BY <1>1, <1>2, <1>3, <1>4, <1>5, AfterOpening, Zenon

\* A directory without pictures ends the program.
LEMMA OpenEmptyDirInv == SInv /\ OpenEmptyDir => SInv'
<1> SUFFICES ASSUME SInv, OpenEmptyDir PROVE SInv'
  OBVIOUS
<1>1. /\ Typed /\ fm \in FileManagers /\ DocOK(doc)
      /\ doc' = Clean(doc) /\ shown' = NoPicture /\ fault' = "outOfRange"
      /\ source' = OpenedNothing /\ offset' = NoOffsets /\ drawMode' = drawMode
      /\ pending' = pending /\ disk' = disk
  BY DEF SInv, Typed, OpenEmptyDir, files
<1>2. PICK d \in Dirs \cup {NoDir} : DirFiles(d) = <<>> /\ fm' = SetMultiImage(fm, d)
  BY Zenon DEF OpenEmptyDir
<1>3. fm' \in FileManagers /\ fm'.imageFiles = <<>>
  BY <1>1, <1>2, MultiImage, Zenon
<1>4. DocOK(doc')
  BY <1>1, CleanOK, Zenon
<1>5. Typed'
  BY <1>1, <1>3, <1>4, Fresh, Zenon DEF Typed
<1>6. EndsForWant'
  BY <1>1, <1>3 DEF EndsForWant
<1> QED
  BY <1>1, <1>5, <1>6, Zenon DEF SInv

-----------------------------------------------------------------------------
(* Choosing and saving.                                                    *)

\* Another picture of the list: the row is an index of imageFiles.
LEMMA ClickFileInv == SInv /\ ClickFile => SInv'
<1> SUFFICES ASSUME SInv, ClickFile PROVE SInv'
  OBVIOUS
<1>1. /\ Typed /\ fault = "none" /\ pending = <<>> /\ fm \in FileManagers /\ source \in Sources
      /\ Leads(fm) /\ Tells(source, shown, fm, rows) /\ Loading(source, doc, pending)
  BY DEF SInv, Typed, ClickFile, Running
<1>2. PICK i \in DOMAIN rows : fm' = SelectFile(fm, i - 1)
  BY Zenon DEF ClickFile
<1>3. /\ shown' = CurrentImageFile(fm') /\ doc' = doc /\ offset' = offset
      /\ drawMode' = drawMode /\ rows' = rows /\ pending' = pending /\ fault' = fault
      /\ disk' = disk /\ source' = source
  BY DEF ClickFile, files, ghosts
<1>4. rows # <<>>
  BY <1>2
<1>5. source.kind \in {"image", "directory"} /\ rows = fm.imageFiles
  BY <1>1, <1>4 DEF Tells, Sources
<1>6. /\ fm' \in FileManagers /\ fm'.imageFiles = fm.imageFiles /\ Leads(fm')
      /\ fm'.isOpenJsonFile = fm.isOpenJsonFile /\ CurrentImageFile(fm') \in Pictures
  BY <1>1, <1>2, <1>5, Selected
<1>7. Tells(source, shown, fm, rows)'
  BY <1>1, <1>3, <1>4, <1>5, <1>6 DEF Tells
<1>8. Typed'
  BY <1>1, <1>3, <1>6, Zenon DEF Typed
<1>9. EndsForWant'
  BY <1>1, <1>3 DEF EndsForWant
<1>10. source'.kind # "labels" /\ Loading(source, doc, pending)'
  BY <1>1, <1>3, <1>5, Zenon DEF Loading
<1> QED
  BY <1>6, <1>7, <1>8, <1>9, <1>10, Zenon DEF SInv

\* What saveFile writes for a shape.
LEMMA SavedShapeType ==
  ASSUME Typed, NEW s \in ShapeIds
  PROVE  SavedShape(s) \in SavedShapes
<1> DEFINE x == doc.shape[s]
           q == [i \in DOMAIN x.pts |-> x.pts[i] + offset[s]]
<1>1. doc.shape \in [ShapeIds -> ShapeRecords] /\ offset[s] \in Int
  BY DocTypes DEF Typed, DocOK
<1>2. x \in ShapeRecords
  BY <1>1
<1>3. /\ x.type \in DrawModes /\ x.pts \in Seq(Points)
      /\ x.label \in Labels \cup {NoLabel, UnknownLabel}
  BY <1>2, Zenon DEF ShapeRecords
<1> HIDE DEF x
<1>4. x.pts \in Seq(Int)
  <2>1. Points \subseteq Int
    BY SessionAssumption
  <2>2. Len(x.pts) \in Nat /\ x.pts \in [1 .. Len(x.pts) -> Points]
    BY <1>3
  <2>3. x.pts \in [1 .. Len(x.pts) -> Int]
    BY <2>1, <2>2, Zenon
  <2> QED
    BY <2>2, <2>3
<1>5. q \in Seq(Int)
  BY <1>1, <1>4
<1> DEFINE T == {"rectangle", "line", "curve", "polygon", "none", ""}
           L == Labels \cup {NoLabel, UnknownLabel}
           N == {"own", "default"}
<1>6. DrawModeToStr(x.type) \in T /\ x.label \in L /\ "default" \in N
  BY <1>3 DEF DrawModeToStr, DrawModes
<1>7. SavedShape(s) =
        [type |-> DrawModeToStr(x.type), label |-> x.label, note |-> "default", pts |-> q]
  BY DEF SavedShape, x
<1>8. SavedShapes = [type : T, label : L, note : N, pts : Seq(Int)]
  BY Zenon DEF SavedShapes
<1> HIDE DEF q, T, L, N
<1> QED
  BY <1>5, <1>6, <1>7, <1>8

\* What saveFile writes.
LEMMA RootType ==
  ASSUME Typed, Leads(fm), RootKnown
  PROVE  Root \in Contents /\ Root.image \in Pictures
<1> DEFINE q == [i \in DOMAIN doc.list |-> SavedShape(doc.list[i])]
           p == IF fm.isOpenJsonFile THEN fm.root ELSE CurrentImageFile(fm)
<1>1. q \in Seq(SavedShapes)
  <2>1. /\ Len(doc.list) \in Nat /\ DOMAIN doc.list = 1 .. Len(doc.list)
        /\ \A k \in DOMAIN doc.list : doc.list[k] \in ShapeIds
    BY DocTypes DEF Typed, DocOK
  <2>2. \A k \in DOMAIN doc.list : SavedShape(doc.list[k]) \in SavedShapes
    BY <2>1, SavedShapeType
  <2> QED
    BY <2>1, <2>2
<1>2. p \in Pictures
  <2>1. fm \in FileManagers /\ (fm.isOpenJsonFile => fm.root \in Pictures)
    BY DEF Typed, Leads
  <2>2. CASE ~fm.isOpenJsonFile
    <3>1. fm.imageFiles # <<>>
      BY <2>1, <2>2, Fields DEF RootKnown, CurIdxInRange
    <3> QED
      BY <2>1, <2>2, <3>1, CurrentFacts
  <2> QED
    BY <2>1, <2>2
<1>3. Root = [state |-> "whole", image |-> p, shapes |-> q]
  BY DEF Root
<1> HIDE DEF p, q
<1> QED
  BY <1>1, <1>2, <1>3, Zenon DEF Contents

\* A save changes the file manager and the disk, and may end the program.
LEMMA AfterSaving ==
  ASSUME SInv, fault = "none", NEW d \in SavePaths, fm' = Named(d), disk' \in Disks,
         doc' = doc, offset' = offset, drawMode' = drawMode, shown' = shown, rows' = rows,
         pending' = pending, source' = source,
         fault' \in {"none", "killed", "outOfRange"},
         fault' = "outOfRange" => fm.imageFiles = <<>>
  PROVE  SInv'
<1>1. /\ Typed /\ fm \in FileManagers /\ Leads(fm) /\ Tells(source, shown, fm, rows)
      /\ Loading(source, doc, pending)
  BY DEF SInv, Typed
<1> DEFINE g == fm'
<1>2. /\ g \in FileManagers /\ g.imageFiles = fm.imageFiles
      /\ g.isOpenJsonFile = fm.isOpenJsonFile /\ g.root = fm.root
      /\ g.savePath = d /\ g.labelFile = GetLabelFile(fm)
      /\ fm.savePath # NoDir => d = fm.savePath
      /\ fm.imageFiles = <<>> => GetLabelFile(fm) = fm.labelFile
      /\ Leads(g) /\ CurrentImageFile(g) = CurrentImageFile(fm)
  BY <1>1, NamedFacts
<1> HIDE DEF g
<1>3. Tells(source, shown, g, rows)
  <2>1. source.kind = "labels" => g.savePath = fm.savePath /\ g.labelFile = fm.labelFile
    BY <1>1, <1>2, SessionAssumption DEF Tells, LabelFiles
  <2> QED
    BY <1>1, <1>2, <2>1, Zenon DEF Tells
<1>4. Typed'
  BY <1>1, <1>2, Zenon DEF Typed, g
<1>5. EndsForWant'
  BY <1>2 DEF EndsForWant, g
<1> QED
  BY <1>1, <1>2, <1>3, <1>4, <1>5, Zenon DEF SInv, g

\* A save that writes nothing.
LEMMA SaveInv == SInv /\ (SaveNothing \/ SaveFails) => SInv'
<1> SUFFICES ASSUME SInv, SaveNothing \/ SaveFails PROVE SInv'
  OBVIOUS
<1>1. /\ fault = "none" /\ disk \in Disks /\ doc' = doc /\ offset' = offset
      /\ drawMode' = drawMode /\ shown' = shown /\ rows' = rows /\ pending' = pending
      /\ source' = source /\ fault' = "none" /\ disk' = disk
  BY DEF SaveNothing, SaveFails, Running, files, ghosts, SInv, Typed
<1>2. PICK d \in SavePaths : fm' = Named(d)
  BY Zenon DEF SaveNothing, SaveFails
<1> QED
  BY <1>1, <1>2, AfterSaving

\* A save without a name for the picture ends the program.
LEMMA SaveOutOfRangeInv == SInv /\ SaveOutOfRange => SInv'
<1> SUFFICES ASSUME SInv, SaveOutOfRange PROVE SInv'
  OBVIOUS
<1>1. /\ fault = "none" /\ disk \in Disks /\ doc' = doc /\ offset' = offset
      /\ drawMode' = drawMode /\ shown' = shown /\ rows' = rows /\ pending' = pending
      /\ source' = source /\ fault' = "outOfRange" /\ disk' = disk /\ Leads(fm)
  BY DEF SaveOutOfRange, Running, files, ghosts, SInv, Typed
<1>2. PICK d \in SavePaths : fm' = Named(d)
  BY Zenon DEF SaveOutOfRange
<1>3. fm.imageFiles = <<>>
  BY <1>1 DEF Leads, RootKnown, SaveOutOfRange
<1> QED
  BY <1>1, <1>2, <1>3, AfterSaving, SMTT(30)

\* saveFile to its end, and as far as the program gets.
LEMMA SaveFileInv == SInv /\ (SaveFile \/ KilledWhileSaving) => SInv'
<1> SUFFICES ASSUME SInv, SaveFile \/ KilledWhileSaving PROVE SInv'
  OBVIOUS
<1>1. /\ fault = "none" /\ disk \in Disks /\ doc' = doc /\ offset' = offset
      /\ drawMode' = drawMode /\ shown' = shown /\ rows' = rows /\ pending' = pending
      /\ source' = source /\ fault' \in {"none", "killed"} /\ Typed /\ Leads(fm) /\ RootKnown
  BY DEF SaveFile, KilledWhileSaving, Running, ghosts, SInv, Typed
<1>2. Root \in Contents
  BY <1>1, RootType
<1>3. [Root EXCEPT !.state = "broken"] \in Contents
  BY <1>2, Zenon DEF Contents
<1>4. PICK d \in SavePaths :
        /\ fm' = Named(d)
        /\ \E c \in Contents : disk' = [disk EXCEPT ![<<d, GetLabelFile(fm)>>] = c]
  BY <1>2, <1>3, Zenon DEF SaveFile, KilledWhileSaving
<1>5. disk' \in Disks
  BY <1>1, <1>4, Zenon DEF Disks
<1> QED
  BY <1>1, <1>4, <1>5, AfterSaving, Zenon

-----------------------------------------------------------------------------
(* Editing.                                                                *)

\* Something is opened and the program runs: a picture is shown.
LEMMA ShownIsPicture ==
  ASSUME SInv, fault = "none", source.kind # "nothing"
  PROVE  shown \in Pictures
<1>1. source \in Sources /\ fm \in FileManagers /\ Leads(fm) /\ Tells(source, shown, fm, rows)
  BY DEF SInv, Typed
<1>2. source.kind \in {"image", "directory", "labels", "part"}
  BY <1>1 DEF Sources
<1>3. CASE source.kind \in {"image", "directory"}
  BY <1>1, <1>3, CurrentFacts DEF Tells
<1>4. CASE source.kind \in {"labels", "part"}
  BY <1>1, <1>4 DEF Tells, Leads
<1> QED
  BY <1>2, <1>3, <1>4

\* The width of it.
LEMMA OffsetSet ==
  ASSUME Typed, shown \in Pictures, NEW s \in ShapeIds
  PROVE  [offset EXCEPT ![s] = ImgOffset(shown)] \in [ShapeIds -> Int]
<1>1. Width[shown] \in Int
  BY SessionAssumption
<1> QED
  BY <1>1 DEF ImgOffset, Typed

\* A command is on the stack, so nothing is claimed any more of how the shapes of
\* a file were read.
LEMMA AfterEditing ==
  ASSUME SInv, Running, source.kind # "nothing", DocOK(doc'), doc'.cmds # <<>>,
         offset' \in [ShapeIds -> Int], drawMode' = drawMode, shown' = shown, fm' = fm,
         rows' = rows, pending' = pending, fault' = fault, disk' = disk, source' = source
  PROVE  SInv'
<1>1. fault = "none" /\ pending = <<>>
  BY DEF Running
<1>2. Typed' /\ EndsForWant'
  <2>1. Typed'
    BY Zenon DEF SInv, Typed
  <2>2. EndsForWant'
    BY <1>1 DEF EndsForWant
  <2> QED
    BY <2>1, <2>2
<1>3. Loading(source, doc, pending)'
  BY <1>1 DEF Loading
<1> QED
  BY <1>1, <1>2, <1>3, Zenon DEF SInv

\* A shape is drawn.
LEMMA AnnotateInv == SInv /\ Annotate => SInv'
<1> SUFFICES ASSUME SInv, Annotate PROVE SInv'
  OBVIOUS
<1>1. /\ Running /\ doc.image /\ DocOK(doc) /\ drawMode \in DrawModes /\ Typed
      /\ fault = "none" /\ Loading(source, doc, pending)
  BY DEF SInv, Typed, Annotate, Running
<1>2. PICK s \in ShapeIds \ Referenced(doc), p \in Clicks, label \in Labels \cup {NoLabel} :
        LET drawn == PushAddPoint(PushAddShape(doc, s, drawMode), p)
        IN  /\ doc' = [drawn EXCEPT !.shape[s] = [@ EXCEPT !.closed = TRUE, !.label = label]]
            /\ offset' = [offset EXCEPT ![s] = ImgOffset(shown)]
  BY Zenon DEF Annotate
<1> DEFINE a == PushAddShape(doc, s, drawMode)
           b == PushAddPoint(a, p)
           x == [b.shape[s] EXCEPT !.closed = TRUE, !.label = label]
<1>3. ShapePushed(doc, s, drawMode, a)
  BY <1>1, <1>2, PushAddShapeOK, Zenon
<1> HIDE DEF a
<1>4. DocOK(a) /\ a.list # <<>>
  <2>1. DocOK(a) /\ a.list = Append(doc.list, s)
    BY <1>3, Zenon DEF ShapePushed
  <2>2. doc.list \in Seq(ShapeIds)
    BY <1>1, DocTypes DEF DocOK
  <2> QED
    BY <2>1, <2>2, SeqAppend
<1>5. p \in Points
  BY SessionAssumption
<1>6. DocOK(b) /\ b.cmds # <<>>
  <2>1. PointPushed(a, p, b)
    BY <1>4, <1>5, PushAddPointOK, Zenon
  <2> QED
    BY <2>1, Zenon DEF PointPushed
<1> HIDE DEF b
<1>7. b.shape[s] \in ShapeRecords
  BY <1>6, DocTypes DEF DocOK
<1>8. x \in ShapeRecords /\ x.name = b.shape[s].name
  BY <1>7, Zenon DEF ShapeRecords
<1>9. doc' = SetShape(b, s, x)
  BY <1>2 DEF SetShape, a, b
<1> HIDE DEF x
<1>10. DocOK(doc') /\ doc'.cmds # <<>>
  <2>1. Replaced(b, s, x, doc')
    <3>1. s \in ShapeIds /\ DocOK(b)
      BY <1>6
    <3> QED
      BY <1>8, <1>9, <3>1, ShapeSetOK, Zenon
  <2> QED
    BY <1>6, <2>1 DEF Handled, Replaced
<1>11. source.kind # "nothing"
  BY <1>1 DEF Loading
<1>12. offset' \in [ShapeIds -> Int]
  BY <1>1, <1>2, <1>11, ShownIsPicture, OffsetSet
<1>13. /\ drawMode' = drawMode /\ shown' = shown /\ fm' = fm /\ rows' = rows
       /\ pending' = pending /\ fault' = fault /\ disk' = disk /\ source' = source
  BY DEF Annotate, files
<1> QED
  BY <1>1, <1>10, <1>11, <1>12, <1>13, AfterEditing, Zenon

\* Undo and redo leave commands on the stack.
LEMMA WalkInv == SInv /\ (Undo \/ Redo) => SInv'
<1> SUFFICES ASSUME SInv, Undo \/ Redo PROVE SInv'
  OBVIOUS
<1>1. Running /\ DocOK(doc) /\ Loading(source, doc, pending) /\ offset \in [ShapeIds -> Int]
  BY DEF SInv, Typed, Undo, Redo, Running
<1>2. /\ Len(doc.cmds) \in Nat /\ doc.idx \in Nat /\ doc.idx <= Len(doc.cmds)
      /\ doc.cmds \in Seq(Commands)
  BY <1>1, DocTypes DEF DocOK
<1>3. Len(doc.cmds) # 0
  BY <1>2 DEF Undo, Redo, CanUndo, CanRedo
<1>4. DocOK(doc') /\ Walked(doc, doc')
  <2>1. CASE Undo
    BY <1>1, <2>1, UndoStepOK, Zenon DEF Undo
  <2>2. CASE Redo
    BY <1>1, <2>2, RedoStepOK, Zenon DEF Redo
  <2> QED
    BY <2>1, <2>2
<1>5. doc'.cmds # <<>> /\ doc.cmds # <<>>
  BY <1>2, <1>3, <1>4 DEF Walked
<1>6. source.kind # "nothing"
  BY <1>1, <1>5 DEF Loading
<1>7. /\ offset' = offset /\ drawMode' = drawMode /\ shown' = shown /\ fm' = fm /\ rows' = rows
      /\ pending' = pending /\ fault' = fault /\ disk' = disk /\ source' = source
  BY DEF Undo, Redo, files
<1> QED
  BY <1>1, <1>4, <1>5, <1>6, <1>7, AfterEditing, ZenonT(30)

\* The draw mode of the shapes that come next.
LEMMA ChangeDrawModeInv == SInv /\ ChangeDrawMode => SInv'
<1> SUFFICES ASSUME SInv, ChangeDrawMode PROVE SInv'
  OBVIOUS
<1>1. /\ pending = <<>> /\ drawMode' \in DrawModes
      /\ doc' = doc /\ offset' = offset /\ shown' = shown /\ fm' = fm /\ rows' = rows
      /\ pending' = pending /\ fault' = fault /\ disk' = disk /\ source' = source
  BY SessionAssumption DEF ChangeDrawMode, Running, files, ghosts
<1>2. Typed'
  BY <1>1, Zenon DEF SInv, Typed
<1>3. Reading(source.shapes, shown, doc, offset, pending, drawMode) =>
        Reading(source.shapes, shown, doc, offset, pending, drawMode)'
  BY <1>1, Zenon DEF Reading
<1> QED
  BY <1>1, <1>2, <1>3, Zenon DEF SInv, EndsForWant

\* Object x is of this type and has the vertices and the label of f.
LoadedAs(x, type, f) ==
  /\ x.type = type /\ x.pts = f.pts
  /\ x.label = IF f.label = NoLabel THEN UnknownLabel ELSE f.label

\* The object openFile builds for a shape of the file.
LEMMA LoadedFields ==
  ASSUME NEW type \in DrawModes, NEW f \in FileShapes, NEW nm \in Names,
         NEW x, x = [LoadedShape(type, f) EXCEPT !.name = nm]
  PROVE  LoadedAs(x, type, f)
<1>1. x = [LoadedShape(type, f) EXCEPT !.name = nm]
  OBVIOUS
<1> QED
  BY <1>1, Zenon DEF LoadedShape, NewShape, LoadedAs

\* One round of the loop of openFile.
LEMMA LoadShapeInv == SInv /\ LoadShape => SInv'
<1> SUFFICES ASSUME SInv, LoadShape PROVE SInv'
  OBVIOUS
<1> DEFINE h == Head(pending)
           f == OnCanvas(h, shown)
           l == Len(doc.list)
<1>1. /\ fault = "none" /\ pending # <<>> /\ Typed /\ Leads(fm) /\ Tells(source, shown, fm, rows)
      /\ Loading(source, doc, pending) /\ DocOK(doc) /\ drawMode \in DrawModes
      /\ pending \in Seq(SavedShapes) /\ offset \in [ShapeIds -> Int]
  BY DEF SInv, Typed, LoadShape
<1>2. doc.cmds = <<>> /\ source.kind \in {"labels", "part"}
  BY <1>1 DEF Loading
<1>3. shown \in Pictures
  BY <1>1, <1>2, ShownIsPicture
<1>4. /\ h \in SavedShapes /\ h = pending[1] /\ Tail(pending) \in Seq(SavedShapes)
      /\ Len(pending) \in Nat \ {0} /\ Len(Tail(pending)) = Len(pending) - 1
      /\ \A j \in 1 .. Len(pending) - 1 : Tail(pending)[j] = pending[j + 1]
  BY <1>1
<1>5. /\ Range(f.pts) \subseteq Points /\ pending' = Tail(pending)
      /\ drawMode' = drawMode /\ shown' = shown /\ fm' = fm /\ rows' = rows
      /\ fault' = fault /\ disk' = disk /\ source' = source
  BY Zenon DEF LoadShape, files, ghosts
<1>6. PICK s \in ShapeIds \ Referenced(doc) :
        /\ doc' = AddLoaded(doc, s, drawMode, f)
        /\ offset' = [offset EXCEPT ![s] = ImgOffset(shown)]
  BY Zenon DEF LoadShape
<1>7. f \in FileShapes /\ f.label = h.label
  <2> DEFINE q == [i \in DOMAIN h.pts |-> MapFromImg(shown, h.pts[i])]
  <2>1. h.pts \in Seq(Int) /\ h.label \in Labels \cup {NoLabel, UnknownLabel}
    BY <1>4, Zenon DEF SavedShapes
  <2>2. f = [pts |-> q, label |-> h.label]
    BY DEF OnCanvas
  <2>3. /\ Len(h.pts) \in Nat /\ DOMAIN q = 1 .. Len(h.pts)
        /\ q = [i \in 1 .. Len(h.pts) |-> q[i]]
    BY <2>1
  <2>4. \A i \in DOMAIN q : q[i] \in Points
    BY <1>5, <2>2 DEF Range
  <2> HIDE DEF q
  <2>5. \A i \in 1 .. Len(h.pts) : q[i] \in Points
    BY <2>3, <2>4, Zenon
  <2>6. q \in [1 .. Len(h.pts) -> Points]
    BY <2>3, <2>5
  <2>7. q \in Seq(Points)
    BY <2>3, <2>6
  <2> HIDE DEF f
  <2> QED
    BY <2>1, <2>2, <2>7 DEF FileShapes
<1> HIDE DEF f, h
<1>8. s \in ShapeIds /\ s \notin Listed(doc)
  BY <1>6 DEF Referenced
<1>9. /\ DocOK(doc') /\ doc'.image = doc.image /\ doc'.cmds = <<>> /\ doc'.list = Append(doc.list, s)
      /\ \A t \in ShapeIds : t # s => doc'.shape[t] = doc.shape[t]
      /\ \E nm \in Names : doc'.shape[s] = [LoadedShape(drawMode, f) EXCEPT !.name = nm]
  <2>1. DocOK(doc) /\ doc.cmds = <<>> /\ drawMode \in DrawModes
    BY <1>1, <1>2
  <2>2. ShapeLoaded(doc, s, drawMode, f, doc')
    BY <1>6, <1>7, <1>8, <2>1, LoadedOK, Zenon
  <2> QED
    BY <2>2, Zenon DEF ShapeLoaded
<1>10. /\ doc'.shape[s].type = drawMode /\ doc'.shape[s].pts = f.pts
       /\ doc'.shape[s].label = IF h.label = NoLabel THEN UnknownLabel ELSE h.label
  <2>1. PICK nm \in Names : doc'.shape[s] = [LoadedShape(drawMode, f) EXCEPT !.name = nm]
    BY <1>9, Zenon
  <2>2. drawMode \in DrawModes /\ f \in FileShapes
    BY <1>1, <1>7
  <2>3. LoadedAs(doc'.shape[s], drawMode, f)
    BY <2>1, <2>2, LoadedFields, Zenon
  <2> QED
    BY <1>7, <2>3, Zenon DEF LoadedAs
<1>11. /\ offset' \in [ShapeIds -> Int] /\ offset'[s] = ImgOffset(shown)
       /\ \A t \in ShapeIds : t # s => offset'[t] = offset[t]
  <2>1. ImgOffset(shown) \in Int
    BY <1>3, SessionAssumption DEF ImgOffset
  <2> QED
    BY <1>1, <1>6, <1>8, <2>1
<1>12. Typed'
  BY <1>1, <1>4, <1>5, <1>9, <1>11, Zenon DEF Typed
<1>13. EndsForWant'
  BY <1>1, <1>5 DEF EndsForWant
<1>14. Loading(source, doc', pending')
  BY <1>2, <1>9, ZenonT(30) DEF Loading
<1>15. ASSUME source.kind = "labels"
       PROVE  Reading(source.shapes, shown, doc', offset', pending', drawMode)
  <2> DEFINE all == source.shapes
  <2>1. Reading(all, shown, doc, offset, pending, drawMode)
    BY <1>1, <1>2, <1>15, SMTT(30) DEF SInv
  <2>2. /\ doc.list \in Seq(ShapeIds) /\ l \in Nat /\ DOMAIN doc.list = 1 .. l
        /\ \A i \in 1 .. l : doc.list[i] \in ShapeIds /\ doc.list[i] # s
    BY <1>1, <1>8 DEF DocOK, Documents, Listed, Range
  <2>3. /\ Len(doc'.list) = l + 1 /\ DOMAIN doc'.list = 1 .. l + 1 /\ doc'.list[l + 1] = s
        /\ \A i \in 1 .. l : doc'.list[i] = doc.list[i]
    BY <1>8, <1>9, <2>2
  <2>4. /\ Len(all) = l + Len(pending)
        /\ \A j \in 1 .. Len(pending) : pending[j] = all[l + j]
        /\ \A i \in 1 .. l : IsLoaded(doc.shape[doc.list[i]], offset[doc.list[i]], all[i], shown)
        /\ \E type \in DrawModes :
             /\ \A i \in 1 .. l : doc.shape[doc.list[i]].type = type
             /\ pending # <<>> => type = drawMode
    BY <2>1, <2>2, Zenon DEF Reading
  <2> HIDE DEF all, l
  <2>5. Len(all) = Len(doc'.list) + Len(pending')
    BY <1>4, <1>5, <2>2, <2>3, <2>4
  <2>6. ASSUME NEW j \in 1 .. Len(pending')
        PROVE  pending'[j] = all[Len(doc'.list) + j]
    <3>1. j \in 1 .. Len(pending) - 1 /\ j + 1 \in 1 .. Len(pending)
      BY <1>4, <1>5
    <3>2. pending'[j] = pending[j + 1] /\ pending[j + 1] = all[l + (j + 1)]
      BY <1>4, <1>5, <2>4, <3>1
    <3>3. l + (j + 1) = (l + 1) + j
      BY <2>2, <3>1
    <3> QED
      BY <2>3, <3>2, <3>3
  <2>7. h = all[l + 1]
    BY <1>4, <2>4
  <2>8. ASSUME NEW i \in DOMAIN doc'.list
        PROVE  /\ IsLoaded(doc'.shape[doc'.list[i]], offset'[doc'.list[i]], all[i], shown)
               /\ doc'.shape[doc'.list[i]].type = drawMode
    <3>1. CASE i = l + 1
      <4>1. doc'.list[i] = s /\ all[i] = h
        BY <2>3, <2>7, <3>1
      <4>2. doc'.shape[s].pts = OnCanvas(h, shown).pts
        BY <1>10, SMTT(30) DEF f
      <4> QED
        BY <1>10, <1>11, <4>1, <4>2 DEF IsLoaded
    <3>2. CASE i # l + 1
      <4>1. i \in 1 .. l
        BY <2>2, <2>3, <3>2
      <4>2. /\ doc'.list[i] = doc.list[i] /\ doc'.shape[doc.list[i]] = doc.shape[doc.list[i]]
            /\ offset'[doc.list[i]] = offset[doc.list[i]]
        BY <1>9, <1>11, <2>2, <2>3, <4>1
      <4> QED
        BY <1>1, <2>4, <4>1, <4>2
    <3> QED
      BY <3>1, <3>2
  <2> QED
    BY <1>1, <2>5, <2>6, <2>8, ZenonT(30) DEF Reading, all
<1> QED
  BY <1>1, <1>5, <1>12, <1>13, <1>14, <1>15, SMTT(30) DEF SInv

-----------------------------------------------------------------------------
(* What is promised.                                                       *)

\* A step that changes nothing.
LEMMA StutterInv == SInv /\ UNCHANGED vars => SInv'
<1> SUFFICES ASSUME SInv, UNCHANGED vars PROVE SInv'
  OBVIOUS
<1>1. /\ doc' = doc /\ offset' = offset /\ drawMode' = drawMode /\ shown' = shown /\ fm' = fm
      /\ rows' = rows /\ pending' = pending /\ fault' = fault /\ disk' = disk /\ source' = source
  BY DEF vars, files, ghosts
<1> QED
  BY <1>1, Zenon DEF SInv, Typed, EndsForWant

\* The inductive invariant holds of every step.
LEMMA NextInv == SInv /\ [Next]_vars => SInv'
BY OpenImageInv, OpenLabelsInv, OpenLabelsInPartInv, OpenNothingInv, LoadShapeInv, OpenDirInv,
   OpenEmptyDirInv, ClickFileInv, SaveInv, SaveFileInv, SaveOutOfRangeInv, RestartInv,
   AnnotateInv, WalkInv, ChangeDrawModeInv, StutterInv, Zenon DEF Next

\* The inductive invariant holds always: of the window, the file manager and the
\* disk, after any order of opening, choosing, saving, editing and ending.
THEOREM SessionInvariant == Spec => []SInv
<1>1. Init => SInv
  BY InitInv
<1>2. SInv /\ [Next]_vars => SInv'
  BY NextInv
<1> QED
  BY <1>1, <1>2, PTL DEF Spec

\* A row of the list of files is an index of the file manager's list, and leads to
\* a picture, whatever was opened before (window.cpp, the handler of a click).
THEOREM RowsAlwaysLeadToPictures == Spec => []RowsLeadToPictures
<1>1. SInv => RowsLeadToPictures
  <2> SUFFICES ASSUME SInv, fault = "none"
               PROVE  /\ rows \in {<<>>, fm.imageFiles}
                      /\ fm.imageFiles # <<>> => CurIdxInRange(fm)
                      /\ \A i \in DOMAIN rows : Resolve(fm.path, rows[i]) \in Pictures
    BY DEF RowsLeadToPictures
  <2>1. Leads(fm) /\ Tells(source, shown, fm, rows)
    BY DEF SInv
  <2>2. source.kind \in {"nothing", "image", "directory", "labels", "part"}
    BY DEF SInv, Typed, Sources
  <2>3. rows = <<>> \/ rows = fm.imageFiles
    BY <2>1, <2>2 DEF Tells
  <2> QED
    BY <2>1, <2>3 DEF Leads
<1> QED
  BY <1>1, SessionInvariant, PTL

\* The canvas shows the picture that is selected, or that of the label file.
THEOREM ShownIsAlwaysSelected == Spec => []ShownIsSelected
<1>1. SInv => ShownIsSelected
  <2> SUFFICES ASSUME SInv, fault = "none", shown # NoPicture, source.kind # "part"
               PROVE  shown = IF fm.imageFiles # <<>> THEN CurrentImageFile(fm) ELSE fm.root
    BY DEF ShownIsSelected
  <2>1. /\ Tells(source, shown, fm, rows)
        /\ source.kind \in {"nothing", "image", "directory", "labels", "part"}
    BY SMTT(30) DEF SInv, Typed, Sources
  <2> QED
    BY <2>1 DEF Tells
<1> QED
  BY <1>1, SessionInvariant, PTL

\* The program ends by itself only where no image could be loaded or a list of
\* names is empty.
THEOREM AlwaysEndsForWant == Spec => []EndsForWant
<1>1. SInv => EndsForWant
  BY DEF SInv
<1> QED
  BY <1>1, SessionInvariant, PTL

\* What a save relies on.
LEMMA AtSaving ==
  ASSUME SInv, SaveFile \/ KilledWhileSaving
  PROVE  /\ Leads(fm) /\ Tells(source, shown, fm, rows) /\ RootKnown /\ pending = <<>>
         /\ source.kind \in {"image", "directory", "labels", "part"}
         /\ fm \in FileManagers /\ disk \in Disks /\ Typed
<1>1. fault = "none" /\ pending = <<>> /\ doc.list # <<>> /\ RootKnown
  BY ZenonT(30) DEF SaveFile, KilledWhileSaving, Running
<1>2. /\ Leads(fm) /\ Tells(source, shown, fm, rows) /\ Loading(source, doc, pending)
      /\ source.kind \in {"nothing", "image", "directory", "labels", "part"}
      /\ fm \in FileManagers /\ disk \in Disks /\ Typed
  BY <1>1, ZenonT(30) DEF SInv, Typed, Sources
<1> QED
  BY <1>1, <1>2 DEF Loading

\* saveFile embeds the picture on the canvas, with the two exceptions the property
\* names.
THEOREM SavedImageIsAlwaysShown == Spec => SavedImageIsShown
<1>1. ASSUME SInv, SaveFile
      PROVE  \/ Root.image = shown
             \/ source.kind = "part"
             \/ source.kind = "directory" /\ fm.isOpenJsonFile
  <2>1. /\ Tells(source, shown, fm, rows)
        /\ source.kind \in {"image", "directory", "labels", "part"}
    BY <1>1, AtSaving
  <2>2. Root.image = IF fm.isOpenJsonFile THEN fm.root ELSE CurrentImageFile(fm)
    BY Zenon DEF Root
  <2> QED
    BY <2>1, <2>2 DEF Tells
<1>2. SInv /\ [Next]_vars =>
        [SaveFile => \/ Root.image = shown
                     \/ source.kind = "part"
                     \/ source.kind = "directory" /\ fm.isOpenJsonFile]_vars
  BY <1>1
<1> QED
  BY <1>2, SessionInvariant, PTL DEF Spec, SavedImageIsShown

\* The one label file a save writes.
LEMMA WrittenFile ==
  ASSUME SInv, SaveFile \/ KilledWhileSaving
  PROVE  \E file :
           /\ \A g \in LabelFiles : g # file => disk'[g] = disk[g]
           /\ SaveFile /\ file \in LabelFiles => disk'[file] = Root
           /\ source.kind = "labels" => file = source.file
           /\ source.kind \in {"image", "directory"} => file[2] = shown.base
<1>1. /\ Leads(fm) /\ Tells(source, shown, fm, rows) /\ RootKnown
      /\ fm \in FileManagers /\ disk \in Disks /\ Typed
  BY AtSaving
<1>2. PICK d \in SavePaths :
        /\ fm' = Named(d)
        /\ \/ disk' = [disk EXCEPT ![<<d, GetLabelFile(fm)>>] = Root]
           \/ disk' = [disk EXCEPT ![<<d, GetLabelFile(fm)>>] = [Root EXCEPT !.state = "broken"]]
        /\ SaveFile => disk' = [disk EXCEPT ![<<d, GetLabelFile(fm)>>] = Root]
  <2>1. CASE SaveFile
    BY <2>1, Zenon DEF SaveFile
  <2>2. CASE KilledWhileSaving /\ ~SaveFile
    BY <2>2, Zenon DEF KilledWhileSaving
  <2> QED
    BY <2>1, <2>2, Zenon
<1> DEFINE n == GetLabelFile(fm)
           file == <<d, n>>
<1>3. /\ d \in Dirs
      /\ fm.savePath # NoDir => d = fm.savePath
      /\ fm.imageFiles = <<>> => n = fm.labelFile
  BY <1>1, NamedFacts
<1>4. fm.imageFiles # <<>> => n \in Bases /\ n = CurrentImageFile(fm).base
  BY <1>1, CurrentFacts
<1> HIDE DEF n
<1>5. /\ \A g \in LabelFiles : g # file => disk'[g] = disk[g]
      /\ SaveFile /\ file \in LabelFiles => disk'[file] = Root
  <2>1. DOMAIN disk = LabelFiles /\ disk = [g \in LabelFiles |-> disk[g]]
    BY <1>1 DEF Disks
  <2>2. \E c : disk' = [disk EXCEPT ![file] = c]
    BY <1>2, Zenon DEF n
  <2>3. SaveFile => disk' = [disk EXCEPT ![file] = Root]
    BY <1>2, Zenon DEF n
  <2> HIDE DEF file
  <2> QED
    BY <2>1, <2>2, <2>3, Zenon
<1>6. ASSUME source.kind = "labels"
      PROVE  file = source.file
  <2>1. /\ fm.imageFiles = <<>> /\ source.file \in LabelFiles
        /\ fm.savePath = source.file[1] /\ fm.labelFile = source.file[2]
    BY <1>1, <1>6 DEF Tells
  <2>2. source.file[1] \in Dirs /\ source.file = <<source.file[1], source.file[2]>>
    BY <2>1 DEF LabelFiles
  <2>3. fm.savePath # NoDir
    BY <2>1, <2>2, SessionAssumption
  <2>4. d = source.file[1] /\ n = source.file[2]
    BY <1>3, <2>1, <2>2, <2>3
  <2> QED
    BY <2>2, <2>4, Zenon
<1>7. ASSUME source.kind \in {"image", "directory"}
      PROVE  file[2] = shown.base
  BY <1>1, <1>4, <1>7 DEF Tells
<1> QED
  BY <1>5, <1>6, <1>7

\* A save, also one the program does not survive, changes only the label file named
\* after the picture on the canvas, or the label file that was opened.
THEOREM AlwaysSavedUnderItsName == Spec => SavedUnderItsName
<1> DEFINE Named2(file) == CASE source.kind = "labels" -> file = source.file
                             [] source.kind = "part"   -> TRUE
                             [] OTHER -> file[2] = shown.base
<1>1. ASSUME SInv, SaveFile \/ KilledWhileSaving, NEW file \in LabelFiles, disk'[file] # disk[file]
      PROVE  Named2(file)
  <2>1. source.kind \in {"image", "directory", "labels", "part"}
    BY <1>1, AtSaving
  <2>2. /\ source.kind = "labels" => file = source.file
        /\ source.kind \in {"image", "directory"} => file[2] = shown.base
    BY <1>1, WrittenFile, Zenon
  <2> QED
    BY <2>1, <2>2
<1>2. SInv /\ [Next]_vars =>
        [SaveFile \/ KilledWhileSaving =>
           \A file \in LabelFiles : disk'[file] # disk[file] => Named2(file)]_vars
  <2> HIDE DEF Named2
  <2> QED
    BY <1>1
<1> QED
  BY <1>2, SessionInvariant, PTL DEF Spec, SavedUnderItsName

\* A shape that was read and is written without an edit.
LEMMA ShapeReloaded ==
  ASSUME shown \in Pictures, NEW s, NEW f \in SavedShapes,
         IsLoaded(doc.shape[s], offset[s], f, shown)
  PROVE  SavedShape(s) = Reloaded(f, DrawModeToStr(doc.shape[s].type))
<1> DEFINE x == doc.shape[s]
           w == Width[shown]
           p == [i \in DOMAIN x.pts |-> x.pts[i] + offset[s]]
           q == [i \in DOMAIN f.pts |-> f.pts[i] + (w % 2)]
<1>1. /\ x.pts = [i \in DOMAIN f.pts |-> f.pts[i] - 2 * (w \div 2)]
      /\ x.label = IF f.label = NoLabel THEN UnknownLabel ELSE f.label
      /\ offset[s] = w
  BY Zenon DEF IsLoaded, OnCanvas, MapFromImg, ImgOffset
<1>2. w \in Nat /\ f.pts \in Seq(Int)
  BY SessionAssumption, Zenon DEF SavedShapes
<1>3. SavedShape(s) = [type |-> DrawModeToStr(x.type), label |-> x.label, note |-> "default", pts |-> p]
  BY Zenon DEF SavedShape
<1>4. Reloaded(f, DrawModeToStr(x.type)) =
        [type |-> DrawModeToStr(x.type), label |-> IF f.label = NoLabel THEN UnknownLabel ELSE f.label,
         note |-> "default", pts |-> q]
  BY Zenon DEF Reloaded
<1>5. p = q
  <2> HIDE DEF x, w
  <2>1. w = 2 * (w \div 2) + (w % 2) /\ w \div 2 \in Int /\ w % 2 \in Int
    BY <1>2
  <2>2. DOMAIN x.pts = DOMAIN f.pts
    BY <1>1
  <2>3. ASSUME NEW i \in DOMAIN f.pts
        PROVE  x.pts[i] + offset[s] = f.pts[i] + (w % 2)
    <3>1. f.pts[i] \in Int
      BY <1>2
    <3>2. x.pts[i] = f.pts[i] - 2 * (w \div 2)
      BY <1>1
    <3> QED
      BY <1>1, <2>1, <3>1, <3>2
  <2> QED
    BY <2>2, <2>3
<1> HIDE DEF p, q, x
<1> QED
  BY <1>1, <1>3, <1>4, <1>5, Zenon DEF x

\* A label file that is opened and saved without an edit keeps its shapes, their
\* order, their labels and their vertices, but for the changes of Reloaded.
THEOREM ReloadAlwaysKeepsShapes == Spec => ReloadKeepsShapes
<1> DEFINE Kept(type) ==
             disk'[source.file].shapes =
               [i \in DOMAIN source.shapes |-> Reloaded(source.shapes[i], DrawModeToStr(type))]
<1>1. ASSUME SInv, SaveFile, source.kind = "labels", doc.cmds = <<>>
      PROVE  \E type \in DrawModes : Kept(type)
  <2> DEFINE all == source.shapes
             l == Len(doc.list)
  <2>1. /\ Tells(source, shown, fm, rows) /\ pending = <<>> /\ fault = "none" /\ DocOK(doc)
        /\ all \in Seq(SavedShapes) /\ Typed
    BY <1>1, AtSaving, Zenon DEF Typed, SaveFile, Running, Sources
  <2>2. shown \in Pictures
    BY <1>1, <2>1, ShownIsPicture
  <2>3. disk'[source.file] = Root
    <3>1. source.file \in LabelFiles
      BY <1>1, <2>1, SMTT(30) DEF Tells
    <3> QED
      BY <1>1, <3>1, WrittenFile, ZenonT(30)
  <2>4. Reading(all, shown, doc, offset, pending, drawMode)
    BY <1>1, <2>1 DEF SInv
  <2>5. l \in Nat /\ DOMAIN doc.list = 1 .. l
    BY <2>1, DocTypes DEF DocOK
  <2>6. DOMAIN all = DOMAIN doc.list
    BY <2>1, <2>4, <2>5 DEF Reading
  <2>7. PICK type \in DrawModes : \A i \in DOMAIN doc.list : doc.shape[doc.list[i]].type = type
    BY <2>4, Zenon DEF Reading
  <2>8. ASSUME NEW i \in DOMAIN doc.list
        PROVE  SavedShape(doc.list[i]) = Reloaded(all[i], DrawModeToStr(type))
    <3>1. IsLoaded(doc.shape[doc.list[i]], offset[doc.list[i]], all[i], shown)
      BY <2>4, Zenon DEF Reading
    <3>2. all[i] \in SavedShapes
      BY <2>1, <2>6
    <3> HIDE DEF all
    <3>3. SavedShape(doc.list[i]) = Reloaded(all[i], DrawModeToStr(doc.shape[doc.list[i]].type))
      BY <2>2, <3>1, <3>2, ShapeReloaded, Zenon
    <3> QED
      BY <2>7, <3>3, Zenon
  <2>9. Root.shapes = [i \in DOMAIN doc.list |-> SavedShape(doc.list[i])]
    BY Zenon DEF Root
  <2>10. Root.shapes = [i \in DOMAIN all |-> Reloaded(all[i], DrawModeToStr(type))]
    BY <2>6, <2>8, <2>9, Zenon
  <2> QED
    BY <2>3, <2>10, Zenon
<1>2. SInv /\ [Next]_vars =>
        [SaveFile /\ source.kind = "labels" /\ doc.cmds = <<>> =>
           \E type \in DrawModes : Kept(type)]_vars
  <2> HIDE DEF Kept
  <2> QED
    BY <1>1
<1> QED
  BY <1>2, SessionInvariant, PTL DEF Spec, ReloadKeepsShapes
=============================================================================
