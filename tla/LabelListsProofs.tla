-------------------------- MODULE LabelListsProofs --------------------------
(***************************************************************************)
(* A label is listed at least as often as it is in use, and the label      *)
(* dialog never loses its shape: proofs for LabelLists.                    *)
(***************************************************************************)
EXTENDS LabelLists, CanvasBaseProofs

-----------------------------------------------------------------------------
(* The inductive invariant.                                                *)

LabelTexts == Labels \cup {UnknownLabel}

\* The shape objects of document d that have label text.
InUse(d, text) == {s \in Referenced(d) : d.shape[s].label = text}

\* The items of a list of labels are enough for the shapes of document d.
Enough(rows, d) ==
  \A text \in LabelTexts : Cardinality(RowsOf(rows, text)) >= Cardinality(InUse(d, text))

Dialogs ==
  [open : BOOLEAN, shape : ShapeIds \cup {NoShape}, rows : Seq(Texts), row : Nat, text : Texts]

\* The dialog while it is open on document d.
About(dlg, d) ==
  dlg.open => /\ dlg.shape \in Listed(d)
              /\ Len(dlg.rows) = Len(d.list)
              /\ dlg.row <= Len(dlg.rows)

LInv ==
  /\ DocOK(doc)
  /\ pending \in Seq(Labels \cup {NoLabel})
  /\ labelRows \in Seq(Texts) /\ annoRows = labelRows
  /\ dialog \in Dialogs /\ About(dialog, doc)
  /\ pending # <<>> => doc.cmds = <<>> /\ ~dialog.open
  /\ Enough(labelRows, doc)

-----------------------------------------------------------------------------
(* Counting.                                                               *)

\* The values of a sequence, and those a field of its elements takes, are finitely
\* many: only finitely many shape objects are referenced.
LEMMA ReferencedFinite ==
  ASSUME NEW d \in Documents
  PROVE  IsFiniteSet(Referenced(d))
<1> DEFINE L == 1 .. Len(d.list)
           C == 1 .. Len(d.cmds)
           A == Listed(d)
           B == {d.cmds[i].shape : i \in DOMAIN d.cmds}
<1>1. /\ Len(d.list) \in Nat /\ DOMAIN d.list = L
      /\ Len(d.cmds) \in Nat /\ DOMAIN d.cmds = C
  BY DocTypes
<1>2. IsFiniteSet(L) /\ IsFiniteSet(C)
  BY <1>1, FS_Interval, SMTT(30)
<1>3. [i \in L |-> d.list[i]] \in Surjection(L, A)
  BY <1>1, Zenon DEF Surjection, Listed
<1>4. [i \in C |-> d.cmds[i].shape] \in Surjection(C, B)
  BY <1>1, Zenon DEF Surjection
<1> HIDE DEF L, C, A, B
<1>5. IsFiniteSet(A) /\ IsFiniteSet(B)
  BY <1>2, <1>3, <1>4, FS_Surjection
<1>6. IsFiniteSet(A \cup B)
  BY <1>5, FS_Union, Zenon
<1> QED
  BY <1>6 DEF Referenced, A, B

\* Referenced objects are shape objects.
LEMMA ReferencedTypes ==
  ASSUME NEW d, DocOK(d)
  PROVE  d \in Documents /\ Referenced(d) \subseteq ShapeIds
BY DocTypes DEF DocOK, Referenced, Listed

\* So are those with one label, and the items with one text.
LEMMA CountedFinite ==
  ASSUME NEW d \in Documents, NEW rows \in Seq(Texts), NEW text
  PROVE  IsFiniteSet(InUse(d, text)) /\ IsFiniteSet(RowsOf(rows, text))
<1>1. InUse(d, text) \subseteq Referenced(d) /\ RowsOf(rows, text) \subseteq 1 .. Len(rows)
  BY SeqLen DEF InUse, RowsOf
<1>2. IsFiniteSet(1 .. Len(rows))
  BY SeqLen, FS_Interval
<1> QED
  BY <1>1, <1>2, ReferencedFinite, FS_Subset

\* Where there is no shape no item is needed.
LEMMA EnoughForNone ==
  ASSUME NEW d, Referenced(d) = {}
  PROVE  Enough(<<>>, d)
<1>1. \A text : InUse(d, text) = {} /\ RowsOf(<<>>, text) = {}
  BY DEF InUse, RowsOf
<1> QED
  BY <1>1, FS_EmptySet DEF Enough

\* No shape gets a label: the items stay enough.
LEMMA StillEnough ==
  ASSUME NEW d \in Documents, NEW e, NEW rows \in Seq(Texts), Enough(rows, d),
         \A text \in LabelTexts : InUse(e, text) \subseteq InUse(d, text)
  PROVE  Enough(rows, e)
<1> SUFFICES ASSUME NEW text \in LabelTexts
             PROVE  Cardinality(RowsOf(rows, text)) >= Cardinality(InUse(e, text))
  BY DEF Enough
<1> DEFINE r == RowsOf(rows, text)
           a == InUse(d, text)
           b == InUse(e, text)
<1>1. IsFiniteSet(a) /\ IsFiniteSet(r) /\ b \subseteq a /\ Cardinality(r) >= Cardinality(a)
  BY CountedFinite DEF Enough
<1> HIDE DEF r, a, b
<1>2. IsFiniteSet(b) /\ Cardinality(b) <= Cardinality(a)
  BY <1>1, FS_Subset
<1>3. Cardinality(a) \in Nat /\ Cardinality(b) \in Nat /\ Cardinality(r) \in Nat
  BY <1>1, <1>2, FS_CardinalityType
<1>4. Cardinality(r) >= Cardinality(b)
  BY <1>1, <1>2, <1>3
<1> QED
  BY <1>4 DEF r, b

\* One shape gets a label and both lists an item for it: the items stay enough.
LEMMA EnoughForOneMore ==
  ASSUME NEW d \in Documents, NEW e, NEW rows \in Seq(Texts), Enough(rows, d),
         NEW new \in Texts, NEW s,
         \A text \in LabelTexts : InUse(e, text) \subseteq
           IF text = new THEN InUse(d, text) \cup {s} ELSE InUse(d, text)
  PROVE  Enough(Append(rows, new), e)
<1> SUFFICES ASSUME NEW text \in LabelTexts
             PROVE  Cardinality(RowsOf(Append(rows, new), text)) >= Cardinality(InUse(e, text))
  BY DEF Enough
<1> DEFINE n == Len(rows)
           r == RowsOf(rows, text)
           q == RowsOf(Append(rows, new), text)
           a == InUse(d, text)
           b == InUse(e, text)
<1>1. /\ IsFiniteSet(a) /\ IsFiniteSet(r) /\ Cardinality(r) >= Cardinality(a)
      /\ b \subseteq IF text = new THEN a \cup {s} ELSE a
  BY CountedFinite DEF Enough
<1>2. /\ n \in Nat /\ r \subseteq 1 .. n
      /\ q = IF text = new THEN r \cup {n + 1} ELSE r
  <2> DEFINE w == Append(rows, new)
  <2>1. /\ n \in Nat /\ DOMAIN rows = 1 .. n /\ DOMAIN w = 1 .. n + 1 /\ w[n + 1] = new
        /\ \A i \in 1 .. n : w[i] = rows[i]
    BY SeqLen, SeqAppend
  <2> HIDE DEF w, n
  <2>2. r = {i \in 1 .. n : rows[i] = text}
    BY <2>1 DEF RowsOf
  <2>3. RowsOf(w, text) = {i \in 1 .. n + 1 : w[i] = text}
    BY <2>1 DEF RowsOf
  <2>4. 1 .. n + 1 = (1 .. n) \cup {n + 1} /\ n + 1 \notin 1 .. n
    BY <2>1
  <2>5. RowsOf(w, text) = IF text = new THEN r \cup {n + 1} ELSE r
    BY <2>1, <2>2, <2>3, <2>4
  <2> QED
    BY <2>1, <2>2, <2>5 DEF w
<1> HIDE DEF n, r, q, a, b
<1>3. /\ IsFiniteSet(a \cup {s}) /\ Cardinality(a \cup {s}) <= Cardinality(a) + 1
      /\ Cardinality(a) \in Nat /\ Cardinality(r) \in Nat
  <2>1. Cardinality(a) \in Nat /\ Cardinality(r) \in Nat
    BY <1>1, FS_CardinalityType
  <2>2. /\ IsFiniteSet(a \cup {s})
        /\ \/ Cardinality(a \cup {s}) = Cardinality(a)
           \/ Cardinality(a \cup {s}) = Cardinality(a) + 1
    BY <1>1, FS_AddElement, Zenon
  <2> QED
    BY <2>1, <2>2
<1>4. CASE text = new
  <2>1. IsFiniteSet(b) /\ Cardinality(b) <= Cardinality(a \cup {s})
    BY <1>1, <1>3, <1>4, FS_Subset, Zenon
  <2>2. n + 1 \notin r
    BY <1>2
  <2>3. Cardinality(q) = Cardinality(r) + 1
    BY <1>1, <1>2, <1>4, <2>2, FS_AddElement, Zenon
  <2>4. Cardinality(b) \in Nat /\ Cardinality(a \cup {s}) \in Nat
    BY <1>3, <2>1, FS_CardinalityType
  <2> QED
    BY <1>1, <1>3, <2>1, <2>3, <2>4 DEF q, b
<1>5. CASE text # new
  <2>1. IsFiniteSet(b) /\ Cardinality(b) <= Cardinality(a)
    BY <1>1, <1>5, FS_Subset
  <2>2. Cardinality(b) \in Nat
    BY <2>1, FS_CardinalityType
  <2> QED
    BY <1>1, <1>2, <1>3, <1>5, <2>1, <2>2 DEF q, b
<1> QED
  BY <1>4, <1>5

-----------------------------------------------------------------------------
(* The steps.                                                              *)

\* No dialog.
LEMMA ClosedDialog == NoDialog \in Dialogs /\ ~NoDialog.open /\ \A d : About(NoDialog, d)
<1>1. <<>> \in Seq(Texts) /\ 0 \in Nat
  OBVIOUS
<1>2. NoDialog \in Dialogs /\ ~NoDialog.open
  BY <1>1, Zenon DEF NoDialog, Dialogs, Texts
<1> QED
  BY <1>2, Zenon DEF About

\* Nothing is open when the program starts.
LEMMA LabelsInit == Init => LInv
<1> SUFFICES ASSUME Init PROVE LInv
  OBVIOUS
<1>1. /\ doc = EmptyDocument /\ pending = <<>> /\ labelRows = <<>> /\ annoRows = <<>>
      /\ dialog = NoDialog
  BY DEF Init
<1>2. DocOK(doc) /\ Referenced(doc) = {}
  BY <1>1, EmptyOK DEF EmptyDocument, Referenced, Listed
<1>3. NoDialog \in Dialogs /\ ~NoDialog.open
  BY ClosedDialog
<1>4. Enough(labelRows, doc)
  BY <1>1, <1>2, EnoughForNone
<1> QED
  BY <1>1, <1>2, <1>3, <1>4 DEF LInv, About

\* A step that only looks at the lists.
LEMMA LookInv == LInv /\ (PressRow \/ KeyInList \/ UNCHANGED vars) => LInv'
<1> SUFFICES ASSUME LInv, PressRow \/ KeyInList \/ UNCHANGED vars PROVE LInv'
  OBVIOUS
<1>1. /\ doc' = doc /\ pending' = pending /\ labelRows' = labelRows /\ annoRows' = annoRows
      /\ dialog' = dialog
  BY DEF PressRow, KeyInList, vars
<1> QED
  BY <1>1, Zenon DEF LInv

\* The dialog, for the provers.
LEMMA DialogFields ==
  ASSUME NEW g \in Dialogs
  PROVE  /\ g.open \in BOOLEAN /\ g.shape \in ShapeIds \cup {NoShape} /\ g.rows \in Seq(Texts)
         /\ g.row \in Nat /\ g.text \in Texts
BY Zenon DEF Dialogs

\* A row and a text are set in it.
LEMMA DialogSet ==
  ASSUME NEW g \in Dialogs, NEW d, About(g, d), g.open,
         NEW row \in 0 .. Len(g.rows), NEW text \in Texts,
         NEW h, h = [g EXCEPT !.row = row, !.text = text]
  PROVE  h \in Dialogs /\ About(h, d) /\ h.open
<1>1. row \in Nat /\ row <= Len(g.rows)
  BY DialogFields, SeqLen
<1>2. h \in Dialogs
  BY <1>1, Zenon DEF Dialogs
<1>3. h.open = g.open /\ h.shape = g.shape /\ h.rows = g.rows /\ h.row = row
  BY Zenon DEF Dialogs
<1> QED
  BY <1>1, <1>2, <1>3 DEF About

\* An item of the dialog is chosen with a key or with the mouse, or a text is typed.
LEMMA DialogInv == LInv /\ (KeyInDialog \/ ClickInDialog \/ Type) => LInv'
<1> SUFFICES ASSUME LInv, KeyInDialog \/ ClickInDialog \/ Type PROVE LInv'
  OBVIOUS
<1>1. /\ doc' = doc /\ pending' = pending /\ labelRows' = labelRows /\ annoRows' = annoRows
      /\ dialog.open
  BY Zenon DEF KeyInDialog, ClickInDialog, Type
<1>2. dialog \in Dialogs /\ About(dialog, doc) /\ pending = <<>>
  BY <1>1 DEF LInv
<1>3. /\ Len(dialog.rows) \in Nat /\ DOMAIN dialog.rows = 1 .. Len(dialog.rows)
      /\ \A row \in 1 .. Len(dialog.rows) : dialog.rows[row] \in Texts
      /\ dialog.row \in 0 .. Len(dialog.rows) /\ dialog.rows \in Seq(Texts)
  BY <1>1, <1>2, DialogFields DEF About
<1>4. \E row \in 0 .. Len(dialog.rows), text \in Texts :
        dialog' = [dialog EXCEPT !.row = row, !.text = text]
  <2>1. CASE KeyInDialog
    <3>1. PICK row \in Beside(dialog.row, dialog.rows) :
            dialog' = [dialog EXCEPT !.row = row, !.text = dialog.rows[row]]
      BY <2>1, Zenon DEF KeyInDialog
    <3>2. Len(dialog.rows) # 0
      <4>1. dialog.rows # <<>>
        BY <2>1, Zenon DEF KeyInDialog
      <4> QED
        BY <1>3, <4>1
    <3>3. row \in 1 .. Len(dialog.rows)
      BY <1>3, <3>1, <3>2 DEF Beside
    <3>4. row \in 0 .. Len(dialog.rows) /\ dialog.rows[row] \in Texts
      BY <1>3, <3>3
    <3> QED
      BY <3>1, <3>4, Zenon
  <2>2. CASE ClickInDialog
    <3>1. PICK row \in DOMAIN dialog.rows \ {dialog.row} :
            dialog' = [dialog EXCEPT !.row = row, !.text = dialog.rows[row]]
      BY <2>2, Zenon DEF ClickInDialog
    <3>2. row \in 0 .. Len(dialog.rows) /\ dialog.rows[row] \in Texts
      BY <1>3
    <3> QED
      BY <3>1, <3>2, Zenon
  <2>3. CASE Type
    <3>1. PICK text \in Labels \cup {NoLabel} : dialog' = [dialog EXCEPT !.text = text]
      BY <2>3, Zenon DEF Type
    <3>2. dialog' = [dialog EXCEPT !.row = dialog.row, !.text = text]
      BY <1>2, <3>1, Zenon DEF Dialogs
    <3>3. text \in Texts
      BY DEF Texts
    <3> QED
      BY <1>3, <3>2, <3>3, Zenon
  <2> QED
    BY <2>1, <2>2, <2>3, Zenon
<1>5. dialog' \in Dialogs /\ About(dialog', doc)
  BY <1>1, <1>2, <1>4, DialogSet, Zenon
<1> QED
  BY <1>1, <1>2, <1>5 DEF LInv

\* The dialog is closed again.
LEMMA CancelInv == LInv /\ Cancel => LInv'
<1> SUFFICES ASSUME LInv, Cancel PROVE LInv'
  OBVIOUS
<1>1. /\ doc' = doc /\ pending' = pending /\ labelRows' = labelRows /\ annoRows' = annoRows
      /\ dialog' = NoDialog
  BY DEF Cancel
<1> QED
  BY <1>1, ClosedDialog, Zenon DEF LInv

\* A shape of the document gets a label.
LEMMA Relabelled ==
  ASSUME NEW d, DocOK(d), NEW s \in ShapeIds, NEW text \in Texts,
         NEW e, e = SetShape(d, s, [d.shape[s] EXCEPT !.label = text])
  PROVE  /\ DocOK(e) /\ Referenced(e) = Referenced(d) /\ e.cmds = d.cmds
         /\ e.shape[s].label = text
         /\ \A r \in ShapeIds : r # s => e.shape[r] = d.shape[r]
<1> DEFINE x == [d.shape[s] EXCEPT !.label = text]
<1>1. d.shape[s] \in ShapeRecords
  BY DocTypes DEF DocOK
<1>2. x \in ShapeRecords /\ x.name = d.shape[s].name /\ x.label = text
  BY <1>1, Zenon DEF ShapeRecords, Texts
<1>3. e = SetShape(d, s, x)
  OBVIOUS
<1> HIDE DEF x
<1>4. Replaced(d, s, x, e)
  BY <1>2, <1>3, ShapeSetOK, Zenon
<1>5. DocOK(e) /\ e.list = d.list /\ e.cmds = d.cmds
  BY <1>4, Zenon DEF Handled, Replaced
<1>6. Referenced(e) = Referenced(d)
  BY <1>5, Zenon DEF Referenced, Listed
<1> QED
  BY <1>2, <1>4, <1>5, <1>6, Zenon DEF Replaced

\* slotSetProperty after the dialog was accepted: no text, no label; otherwise the
\* shape gets the label and both lists an item.
LEMMA AcceptInv == LInv /\ Accept => LInv'
<1> SUFFICES ASSUME LInv, Accept PROVE LInv'
  OBVIOUS
<1> DEFINE s == dialog.shape
           text == dialog.text
<1>1. dialog.open /\ dialog' = NoDialog /\ pending' = pending
  BY DEF Accept
<1>2. /\ DocOK(doc) /\ labelRows \in Seq(Texts) /\ annoRows = labelRows /\ Enough(labelRows, doc)
      /\ dialog \in Dialogs /\ s \in Listed(doc) /\ pending = <<>>
      /\ pending \in Seq(Labels \cup {NoLabel})
  BY <1>1 DEF LInv, About
<1>3. CASE text = NoLabel
  <2>1. doc' = doc /\ labelRows' = labelRows /\ annoRows' = annoRows
    BY <1>3 DEF Accept
  <2> QED
    BY <1>1, <1>2, <2>1, ClosedDialog, Zenon DEF LInv
<1>4. CASE text # NoLabel
  <2>1. /\ doc' = SetShape(doc, s, [doc.shape[s] EXCEPT !.label = text])
        /\ labelRows' = Append(labelRows, text) /\ annoRows' = Append(annoRows, text)
    BY <1>4, Zenon DEF Accept, LabelAdded
  <2>2. s \in ShapeIds /\ text \in Texts /\ doc \in Documents
    BY <1>2, DocTypes, DialogFields DEF DocOK, Listed
  <2> HIDE DEF s, text
  <2>3. /\ DocOK(doc') /\ Referenced(doc') = Referenced(doc) /\ doc'.shape[s].label = text
        /\ \A r \in ShapeIds : r # s => doc'.shape[r] = doc.shape[r]
    BY <1>2, <2>1, <2>2, Relabelled
  <2>4. labelRows' \in Seq(Texts) /\ annoRows' = labelRows'
    BY <1>2, <2>1, <2>2, SeqAppend
  <2>5. ASSUME NEW t \in LabelTexts
        PROVE  InUse(doc', t) \subseteq IF t = text THEN InUse(doc, t) \cup {s} ELSE InUse(doc, t)
    <3>1. Referenced(doc) \subseteq ShapeIds
      BY <1>2, ReferencedTypes
    <3> QED
      BY <2>3, <3>1 DEF InUse
  <2>6. Enough(labelRows', doc')
    BY <1>2, <2>1, <2>2, <2>5, EnoughForOneMore, Zenon
  <2> QED
    BY <1>1, <1>2, <2>3, <2>4, <2>6, ClosedDialog, Zenon DEF LInv
<1> QED
  BY <1>3, <1>4

\* The dialog opens on a shape of the document.
LEMMA DialogOpened ==
  ASSUME NEW d, DocOK(d), NEW s \in Listed(d), NEW g, g = Dialog(d, s)
  PROVE  g \in Dialogs /\ About(g, d)
<1> DEFINE q == [i \in DOMAIN d.list |-> d.shape[d.list[i]].label]
           l == Len(d.list)
<1>1. /\ l \in Nat /\ DOMAIN d.list = 1 .. l /\ s \in ShapeIds
      /\ \A i \in 1 .. l : d.shape[d.list[i]] \in ShapeRecords
  BY DocTypes DEF DocOK, Listed
<1>2. \A i \in 1 .. l : d.shape[d.list[i]].label \in Texts
  BY <1>1, Zenon DEF ShapeRecords, Texts
<1>3. q \in [1 .. l -> Texts]
  BY <1>1, <1>2
<1>4. g = [open |-> TRUE, shape |-> s, rows |-> q, row |-> 0, text |-> NoLabel]
  BY DEF Dialog
<1> HIDE DEF q, l
<1>5. q \in Seq(Texts) /\ Len(q) = l /\ 0 \in Nat /\ 0 <= l
  BY <1>1, <1>3
<1>6. g \in Dialogs
  <2>1. NoLabel \in Texts /\ s \in ShapeIds \cup {NoShape}
    BY <1>1 DEF Texts
  <2>2. [open |-> TRUE, shape |-> s, rows |-> q, row |-> 0, text |-> NoLabel] \in Dialogs
    BY <1>5, <2>1 DEF Dialogs
  <2> QED
    BY <1>4, <2>2
<1>7. g.shape = s /\ g.rows = q /\ g.row = 0
  BY <1>4
<1> QED
  BY <1>5, <1>6, <1>7 DEF About, l

\* Enter once more: the current shape is listed.
LEMMA EnterAgainInv == LInv /\ EnterAgain => LInv'
<1> SUFFICES ASSUME LInv, EnterAgain PROVE LInv'
  OBVIOUS
<1>1. /\ doc' = doc /\ pending' = pending /\ labelRows' = labelRows /\ annoRows' = annoRows
      /\ dialog' = Dialog(doc, CurrentShape(doc)) /\ pending = <<>>
      /\ CurrentInRange(doc) /\ doc.cur # -1 /\ DocOK(doc)
  BY Zenon DEF EnterAgain, Running, LInv
<1>2. CurrentShape(doc) \in Listed(doc)
  BY <1>1, DocTypes DEF CurrentInRange, CurrentShape, Listed, DocOK
<1>3. dialog' \in Dialogs /\ About(dialog', doc)
  BY <1>1, <1>2, DialogOpened, Zenon
<1> QED
  BY <1>1, <1>3, Zenon DEF LInv

\* A shape is drawn and the dialog opens on it: it has no label yet.
LEMMA DrawInv == LInv /\ Draw => LInv'
<1> SUFFICES ASSUME LInv, Draw PROVE LInv'
  OBVIOUS
<1>1. /\ pending' = pending /\ labelRows' = labelRows /\ annoRows' = annoRows /\ pending = <<>>
      /\ DocOK(doc) /\ labelRows \in Seq(Texts) /\ Enough(labelRows, doc)
  BY Zenon DEF Draw, Running, LInv
<1>2. PICK s \in ShapeIds \ Referenced(doc) :
        LET drawn == PushAddShape(doc, s, "Polygon")
        IN  /\ doc' = SetShape(drawn, s, [drawn.shape[s] EXCEPT !.closed = TRUE])
            /\ dialog' = Dialog(doc', s)
  BY Zenon DEF Draw
<1> DEFINE a == PushAddShape(doc, s, "Polygon")
           x == [a.shape[s] EXCEPT !.closed = TRUE]
<1>3. ShapePushed(doc, s, "Polygon", a)
  <2>1. s \in ShapeIds /\ s \notin Referenced(doc) /\ "Polygon" \in DrawModes
    BY DEF DrawModes
  <2> QED
    BY <1>1, <2>1, PushAddShapeOK, Zenon
<1>4. doc' = SetShape(a, s, x) /\ dialog' = Dialog(doc', s)
  BY <1>2, Zenon
<1> HIDE DEF a
<1>5. PICK nm \in Names : a.shape = [doc.shape EXCEPT ![s] = [NewShape("Polygon") EXCEPT !.name = nm]]
  BY <1>3, Zenon DEF ShapePushed
<1>6. /\ DocOK(a) /\ a.list = Append(doc.list, s) /\ Referenced(a) \subseteq Referenced(doc) \cup {s}
  BY <1>3, Zenon DEF ShapePushed
<1>7. /\ doc \in Documents /\ doc.shape \in [ShapeIds -> ShapeRecords]
      /\ a.shape \in [ShapeIds -> ShapeRecords] /\ doc.list \in Seq(ShapeIds)
      /\ Referenced(a) \subseteq ShapeIds
  BY <1>1, <1>6, DocTypes, ReferencedTypes, SMTT(30) DEF DocOK
<1>8. /\ a.shape[s] = [NewShape("Polygon") EXCEPT !.name = nm]
      /\ \A t \in ShapeIds : t # s => a.shape[t] = doc.shape[t]
  BY <1>5, <1>7
<1>9. a.shape[s].label = NoLabel /\ a.shape[s] \in ShapeRecords
  <2>1. [NewShape("Polygon") EXCEPT !.name = nm].label = NoLabel
    BY Zenon DEF NewShape
  <2> QED
    BY <1>7, <1>8, <2>1
<1>10. x \in ShapeRecords /\ x.name = a.shape[s].name /\ x.label = NoLabel
  BY <1>9, Zenon DEF ShapeRecords
<1> HIDE DEF x
<1>11. Replaced(a, s, x, doc')
  <2>1. s \in ShapeIds /\ DocOK(a)
    BY <1>6
  <2> QED
    BY <1>4, <1>10, <2>1, ShapeSetOK, Zenon
<1>12. /\ DocOK(doc') /\ doc'.list = a.list /\ doc'.cmds = a.cmds /\ doc'.shape[s] = x
       /\ \A t \in ShapeIds : t # s => doc'.shape[t] = a.shape[t]
  BY <1>11, Zenon DEF Replaced, Handled
<1>13. Referenced(doc') = Referenced(a)
  BY <1>12, Zenon DEF Referenced, Listed
<1>14. s \in Listed(doc')
  BY <1>6, <1>7, <1>12 DEF Listed
<1>15. dialog' \in Dialogs /\ About(dialog', doc')
  BY <1>4, <1>12, <1>14, DialogOpened, Zenon
<1>16. ASSUME NEW text \in LabelTexts
       PROVE  InUse(doc', text) \subseteq InUse(doc, text)
  <2>1. text # NoLabel
    BY LabelListsAssumption, Zenon DEF LabelTexts, NoLabel, UnknownLabel
  <2>2. SUFFICES ASSUME NEW t \in Referenced(doc'), doc'.shape[t].label = text
                 PROVE  t \in Referenced(doc) /\ doc.shape[t].label = text
    BY DEF InUse
  <2>3. t # s
    BY <1>10, <1>12, <2>1, <2>2
  <2>4. t \in ShapeIds /\ t \in Referenced(doc)
    BY <1>6, <1>7, <1>13, <2>3
  <2> QED
    BY <1>8, <1>12, <2>2, <2>3, <2>4
<1>17. Enough(labelRows, doc')
  BY <1>1, <1>7, <1>16, StillEnough, Zenon
<1> QED
  BY <1>1, <1>12, <1>15, <1>17, Zenon DEF LInv

\* Undo and redo change no label and bring back no object that was let go.
LEMMA WalkInv == LInv /\ (Undo \/ Redo) => LInv'
<1> SUFFICES ASSUME LInv, Undo \/ Redo PROVE LInv'
  OBVIOUS
<1>1. /\ pending' = pending /\ labelRows' = labelRows /\ annoRows' = annoRows /\ dialog' = dialog
      /\ pending = <<>> /\ ~dialog.open
      /\ DocOK(doc) /\ labelRows \in Seq(Texts) /\ Enough(labelRows, doc)
  BY Zenon DEF Undo, Redo, Running, LInv
<1>2. DocOK(doc') /\ Walked(doc, doc')
  <2>1. CASE Undo
    <3>1. CanUndo(doc) /\ doc' = UndoStep(doc)
      BY <2>1, Zenon DEF Undo
    <3> QED
      BY <1>1, <3>1, UndoStepOK, Zenon
  <2>2. CASE Redo
    <3>1. CanRedo(doc) /\ doc' = RedoStep(doc)
      BY <2>2, Zenon DEF Redo
    <3> QED
      BY <1>1, <3>1, RedoStepOK
  <2> QED
    BY <2>1, <2>2
<1>3. doc \in Documents /\ Referenced(doc) \subseteq ShapeIds
  BY <1>1, ReferencedTypes
<1>4. \A text \in LabelTexts : InUse(doc', text) \subseteq InUse(doc, text)
  BY <1>2, <1>3 DEF InUse, Walked
<1>5. Enough(labelRows, doc')
  BY <1>1, <1>3, <1>4, StillEnough, Zenon
<1>6. About(dialog, doc')
  BY <1>1 DEF About
<1> QED
  BY <1>1, <1>2, <1>5, <1>6, Zenon DEF LInv

\* Opening leaves neither shapes nor items.
LEMMA OpenInv == LInv /\ Open => LInv'
<1> SUFFICES ASSUME LInv, Open PROVE LInv'
  OBVIOUS
<1>1. /\ doc' = [Clean(doc) EXCEPT !.image = TRUE] /\ pending' \in {<<>>} \cup LabelFiles
      /\ labelRows' = <<>> /\ annoRows' = <<>> /\ dialog' = dialog
      /\ ~dialog.open /\ DocOK(doc) /\ dialog \in Dialogs
  BY Zenon DEF Open, Running, LInv, ListsCleaned
<1>2. DocOK(doc') /\ doc'.list = <<>> /\ doc'.cmds = <<>>
  BY <1>1, CleanOK, Zenon
<1>3. Referenced(doc') = {}
  BY <1>2 DEF Referenced, Listed
<1>4. Enough(labelRows', doc')
  BY <1>1, <1>3, EnoughForNone, Zenon
<1>5. pending' \in Seq(Labels \cup {NoLabel}) /\ labelRows' \in Seq(Texts)
  <2>1. <<>> \in Seq(Labels \cup {NoLabel}) /\ <<>> \in Seq(Texts)
    OBVIOUS
  <2> QED
    BY <1>1, <2>1, LabelListsAssumption, Zenon
<1>6. About(dialog, doc')
  BY <1>1 DEF About
<1> QED
  BY <1>1, <1>2, <1>4, <1>5, <1>6, Zenon DEF LInv

\* A shape of a label file gets an item in both lists.
LEMMA LoadShapeInv == LInv /\ LoadShape => LInv'
<1> SUFFICES ASSUME LInv, LoadShape PROVE LInv'
  OBVIOUS
<1> DEFINE h == Head(pending)
           f == [pts |-> <<>>, label |-> h]
<1>1. /\ pending # <<>> /\ pending' = Tail(pending) /\ dialog' = dialog
      /\ DocOK(doc) /\ doc.cmds = <<>> /\ ~dialog.open /\ dialog \in Dialogs
      /\ pending \in Seq(Labels \cup {NoLabel})
      /\ labelRows \in Seq(Texts) /\ annoRows = labelRows /\ Enough(labelRows, doc)
  BY Zenon DEF LoadShape, LInv
<1>2. PICK s \in ShapeIds \ Referenced(doc) :
        /\ doc' = AddLoaded(doc, s, "Polygon", f)
        /\ LabelAdded(doc'.shape[s].label)
  BY Zenon DEF LoadShape
<1>3. h \in Labels \cup {NoLabel} /\ pending' \in Seq(Labels \cup {NoLabel})
  BY <1>1
<1> HIDE DEF h
<1>4. f \in FileShapes
  <2>1. <<>> \in Seq(Points) /\ h \in Labels \cup {NoLabel, UnknownLabel}
    BY <1>3
  <2> QED
    BY <2>1, Zenon DEF FileShapes
<1> HIDE DEF f
<1>5. s \in ShapeIds /\ s \notin Listed(doc) /\ "Polygon" \in DrawModes
  BY Zenon DEF Referenced, DrawModes
<1>6. ShapeLoaded(doc, s, "Polygon", f, doc')
  BY <1>1, <1>2, <1>4, <1>5, LoadedOK, Zenon
<1>7. /\ DocOK(doc') /\ doc'.cmds = <<>> /\ doc'.list = Append(doc.list, s)
      /\ \A t \in ShapeIds : t # s => doc'.shape[t] = doc.shape[t]
  BY <1>6, Zenon DEF ShapeLoaded
<1> DEFINE new == doc'.shape[s].label
<1>8. /\ labelRows' = Append(labelRows, new) /\ annoRows' = Append(annoRows, new)
  BY <1>2, Zenon DEF LabelAdded
<1>9. doc \in Documents /\ doc' \in Documents /\ new \in Texts
  <2>1. doc \in Documents /\ doc' \in Documents /\ doc'.shape[s] \in ShapeRecords
    BY <1>1, <1>5, <1>7, DocTypes DEF DocOK
  <2> QED
    BY <2>1, Zenon DEF ShapeRecords, Texts
<1>10. Referenced(doc') \subseteq Referenced(doc) \cup {s} /\ Referenced(doc') \subseteq ShapeIds
  <2>1. \A k \in DOMAIN doc'.list : doc'.list[k] \in Listed(doc) \cup {s}
    BY <1>5, <1>7, <1>9, AppendedList, Zenon
  <2>2. Listed(doc') \subseteq Listed(doc) \cup {s}
    BY <2>1, Zenon DEF Listed
  <2>3. DOMAIN doc'.cmds = {}
    BY <1>7
  <2>4. Referenced(doc') \subseteq ShapeIds
    BY <1>7, ReferencedTypes
  <2> QED
    BY <2>2, <2>3, <2>4 DEF Referenced
<1> HIDE DEF new
<1>11. ASSUME NEW text \in LabelTexts
       PROVE  InUse(doc', text) \subseteq IF text = new THEN InUse(doc, text) \cup {s} ELSE InUse(doc, text)
  <2>1. doc'.shape[s].label = new
    BY DEF new
  <2> QED
    BY <1>7, <1>10, <2>1 DEF InUse
<1>12. Enough(labelRows', doc')
  BY <1>1, <1>8, <1>9, <1>11, EnoughForOneMore, Zenon
<1>13. labelRows' \in Seq(Texts) /\ annoRows' = labelRows'
  BY <1>1, <1>8, <1>9, SeqAppend
<1>14. About(dialog, doc')
  BY <1>1 DEF About
<1> QED
  BY <1>1, <1>3, <1>7, <1>12, <1>13, <1>14, Zenon DEF LInv

-----------------------------------------------------------------------------
(* What is promised.                                                       *)

\* The inductive invariant holds always.
THEOREM LabelListsInvariant == Spec => []LInv
<1>1. Init => LInv
  BY LabelsInit
<1>2. LInv /\ [Next]_vars => LInv'
  BY LookInv, DialogInv, AcceptInv, CancelInv, DrawInv, EnterAgainInv, WalkInv, OpenInv,
     LoadShapeInv, Zenon DEF Next
<1> QED
  BY <1>1, <1>2, PTL DEF Spec

\* Both lists have an item for every shape with a label, on the canvas or one that
\* redo can bring back (Window::slotSetProperty, openFile, sigLabelAdded).
THEOREM AlwaysRowForEachShape == Spec => []RowForEachShape
<1>1. LInv => RowForEachShape
  <2> SUFFICES ASSUME LInv, NEW text \in Labels \cup {UnknownLabel}, NEW rows \in {labelRows, annoRows}
               PROVE  Cardinality(RowsOf(rows, text)) >= Cardinality(ShapesOf(text))
    BY DEF RowForEachShape
  <2>1. rows = labelRows /\ Enough(labelRows, doc) /\ text \in LabelTexts
    BY DEF LInv, LabelTexts
  <2>2. ShapesOf(text) = InUse(doc, text)
    BY DEF ShapesOf, InUse
  <2> QED
    BY <2>1, <2>2, Zenon DEF Enough
<1> QED
  BY <1>1, LabelListsInvariant, PTL

\* The shape of the dialog stays on the canvas until the dialog is closed, and it
\* has an item for every shape.
THEOREM DialogShapeAlwaysListed == Spec => []DialogShapeListed
<1>1. LInv => DialogShapeListed
  BY Zenon DEF LInv, About, DialogShapeListed
<1> QED
  BY <1>1, LabelListsInvariant, PTL
=============================================================================
