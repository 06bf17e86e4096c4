--------------------------- MODULE DocumentProofs ---------------------------
(***************************************************************************)
(* The theorems about Document.  TypeOK and HistoryInv together are        *)
(* inductive; the safety properties follow from them, and each step of     *)
(* Document is a step of LinearHistory or leaves what it sees alone.       *)
(* The lemmas come first: sequences, names and the operators of            *)
(* CanvasBase (those that CanvasBaseProofs has as well are repeated here,  *)
(* which keeps its other lemmas out of scope), the new branch that         *)
(* QUndoStack::push starts when it forgets the undone commands and the     *)
(* versions they led to, what a version of the canvas is, how each command *)
(* leads from one to the next, opening a document, and what undo() and     *)
(* redo() do.                                                              *)
(***************************************************************************)
EXTENDS Document, FiniteSetTheorems, TLAPS

-----------------------------------------------------------------------------
(* Sequences.  The provers know them; these facts keep the steps small.    *)

\* An element.
LEMMA SeqElement ==
  ASSUME NEW T, NEW s \in Seq(T), NEW k \in 1 .. Len(s)
  PROVE  s[k] \in T
OBVIOUS

\* A sequence as a function.
LEMMA SeqLen ==
  ASSUME NEW T, NEW s \in Seq(T)
  PROVE  Len(s) \in Nat /\ DOMAIN s = 1 .. Len(s) /\ s \in [1 .. Len(s) -> T]
OBVIOUS

\* The sequence without elements.
LEMMA SeqEmpty ==
  ASSUME NEW T
  PROVE  /\ Len(<<>>) = 0 /\ <<>> \in Seq(T)
         /\ \A s \in Seq(T) : s # <<>> => Len(s) \in Nat \ {0}
OBVIOUS

\* Two sequences with the same elements are one.
LEMMA SeqSame ==
  ASSUME NEW T, NEW s \in Seq(T), NEW r \in Seq(T), Len(r) = Len(s),
         \A k \in 1 .. Len(s) : s[k] = r[k]
  PROVE  s = r
OBVIOUS

\* An element more.
LEMMA SeqAppend ==
  ASSUME NEW T, NEW s \in Seq(T), NEW x \in T
  PROVE  /\ Append(s, x) \in Seq(T) /\ Append(s, x) # <<>>
         /\ Len(Append(s, x)) = Len(s) + 1 /\ Append(s, x)[Len(s) + 1] = x
         /\ \A k \in 1 .. Len(s) : Append(s, x)[k] = s[k]
OBVIOUS

\* A part of a sequence.
LEMMA SeqPart ==
  ASSUME NEW T, NEW s, NEW a \in Int, NEW b \in Int, \A k \in a .. b : s[k] \in T
  PROVE  /\ SubSeq(s, a, b) \in Seq(T)
         /\ Len(SubSeq(s, a, b)) = IF a <= b THEN b - a + 1 ELSE 0
         /\ \A k \in 1 .. b - a + 1 : SubSeq(s, a, b)[k] = s[a + k - 1]
OBVIOUS

\* A part with no elements.
LEMMA SeqNoPart ==
  ASSUME NEW s, NEW a \in Int, NEW b \in Int, b < a
  PROVE  SubSeq(s, a, b) = <<>>
OBVIOUS

\* Nothing put before or after it.
LEMMA SeqConcatEmpty ==
  ASSUME NEW T, NEW s \in Seq(T)
  PROVE  <<>> \o s = s /\ s \o <<>> = s
OBVIOUS

-----------------------------------------------------------------------------
(* Names.                                                                  *)

\* Min() of a non-empty set of natural numbers is its least element.
LEMMA MinIsLeast ==
  ASSUME NEW S \in SUBSET Nat, S # {}
  PROVE  Min(S) \in S /\ \A n \in S : Min(S) <= n
<1> DEFINE R == {ss \in Nat \X Nat : ss[1] < ss[2]}
<1>1. IsWellFoundedOn(R, Nat)
  BY NatLessThanWellFounded DEF OpToRel
<1>2. \E x \in S : \A y \in S : ~(<<y, x>> \in R)
  <2> HIDE DEF R
  <2> QED BY <1>1, WFMin, Zenon
<1>3. PICK x \in S : \A y \in S : ~(<<y, x>> \in R)
  BY <1>2
<1>4. ASSUME NEW y \in S PROVE x =< y
  <2>1. ~(<<y, x>> \in R)
    BY <1>3
  <2> QED
    BY <2>1
<1> QED
  BY <1>4, Zenon DEF Min

\* The least of one number.
LEMMA MinOfOne ==
  ASSUME NEW n \in Nat
  PROVE  Min({n}) = n
<1>1. {n} \in SUBSET Nat /\ {n} # {}
  OBVIOUS
<1>2. Min({n}) \in {n}
  BY <1>1, MinIsLeast
<1> QED
  BY <1>2

\* CanvasBase::uniqueName: the loop ends, and the name it ends with is free.
\* Otherwise all of the first Cardinality(taken) + 1 names would be taken.
LEMMA UniqueNameIsFree ==
  ASSUME NEW taken, IsFiniteSet(taken), NEW text
  PROVE  /\ UniqueName(taken, text) \in {text} \X Nat
         /\ UniqueName(taken, text) \notin taken
<1> DEFINE n == Cardinality(taken)
           free == {i \in 0 .. n : <<text, i>> \notin taken}
<1>1. n \in Nat
  BY FS_CardinalityType
<1>2. free # {}
  <2>1. SUFFICES ASSUME free = {} PROVE FALSE
    OBVIOUS
  <2> DEFINE f == [i \in 0 .. n |-> <<text, i>>]
  <2>2. f \in [0 .. n -> taken]
    BY <2>1
  <2>3. IsFiniteSet(0 .. n) /\ Cardinality(0 .. n) = n + 1
    BY <1>1, FS_Interval
  <2>4. \E x, y \in 0 .. n : x # y /\ f[x] = f[y]
    <3> HIDE DEF f
    <3> QED BY <1>1, <2>2, <2>3, FS_PigeonHole
  <2> QED
    BY <2>4
<1>3. UniqueName(taken, text) = <<text, Min(free)>>
  BY DEF UniqueName
<1>4. free \in SUBSET Nat
  <2> HIDE DEF n
  <2> QED BY <1>1
<1>5. Min(free) \in free
  <2> HIDE DEF free
  <2> QED BY <1>2, <1>4, MinIsLeast
<1>6. Min(free) \in Nat /\ <<text, Min(free)>> \notin taken
  <2> DEFINE m == Min(free)
  <2>1. m \in free /\ m \in Nat
    BY <1>4, <1>5
  <2> HIDE DEF m
  <2>2. <<text, m>> \notin taken
    BY <2>1
  <2> QED
    BY <2>1, <2>2 DEF m
<1> HIDE DEF free
<1> QED
  BY <1>3, <1>6

\* typeToString of a draw mode is the text of a name.
LEMMA NameText ==
  ASSUME NEW type \in DrawModes, NEW n \in Nat
  PROVE  <<TypeToString(type), n>> \in Names
BY DEF Names

\* The name of an object before addShape() is a name.
LEMMA EmptyNameType == EmptyName \in Names
<1>1. TypeToString("Polyline") = "" /\ "Polyline" \in DrawModes
  BY DEF TypeToString, DrawModes
<1> QED
  BY <1>1, NameText, Zenon DEF EmptyName

\* The set of names uniqueName() compares with is finite.
LEMMA ListedNamesFinite ==
  ASSUME NEW d \in Documents
  PROVE  IsFiniteSet(ListedNames(d))
<1> DEFINE n == Len(d.list)
           f == [i \in 1 .. n |-> d.shape[d.list[i]].name]
<1>1. d.list \in Seq(ShapeIds) /\ n \in Nat /\ DOMAIN d.list = 1 .. n
  BY DEF Documents
<1>2. f \in Surjection(1 .. n, ListedNames(d))
  BY <1>1 DEF Surjection, ListedNames, Listed
<1>3. IsFiniteSet(1 .. n)
  BY <1>1, FS_Interval
<1> HIDE DEF f
<1> QED
  BY <1>2, <1>3, FS_Surjection

-----------------------------------------------------------------------------
(* The operations on the list.                                             *)

\* A new object is a shape.
LEMMA NewShapeType ==
  ASSUME NEW type \in DrawModes
  PROVE  NewShape(type) \in ShapeRecords
BY EmptyNameType DEF NewShape, ShapeRecords

\* A shape from a file is a shape.
LEMMA LoadedShapeType ==
  ASSUME NEW type \in DrawModes, NEW f \in FileShapes
  PROVE  LoadedShape(type, f) \in ShapeRecords
<1> DEFINE l == IF f.label = NoLabel THEN UnknownLabel ELSE f.label
<1>1. l \in Labels \cup {NoLabel, UnknownLabel} /\ f.pts \in Seq(Points)
  BY DEF FileShapes
<1>2. LoadedShape(type, f) =
        [NewShape(type) EXCEPT !.pts = f.pts, !.closed = TRUE, !.label = l]
  BY DEF LoadedShape
<1> HIDE DEF l
<1> QED
  BY <1>1, <1>2, NewShapeType, Zenon DEF ShapeRecords

\* The name addShape() gives shape s of document d.
NextName(d, s) == UniqueName(ListedNames(d), TypeToString(d.shape[s].type))

\* uniqueName() returns a name that no shape in the list has.
LEMMA NextNameIsFree ==
  ASSUME NEW d \in Documents, NEW s \in ShapeIds
  PROVE  NextName(d, s) \in Names /\ NextName(d, s) \notin ListedNames(d)
<1> DEFINE text == TypeToString(d.shape[s].type)
           u == UniqueName(ListedNames(d), text)
<1>1. u \in {text} \X Nat /\ u \notin ListedNames(d)
  BY ListedNamesFinite, UniqueNameIsFree
<1>2. d.shape[s].type \in DrawModes
  BY DEF Documents, ShapeRecords
<1>3. u \in Names
  <2> HIDE DEF u
  <2>1. PICK n \in Nat : u = <<text, n>>
    BY <1>1
  <2> QED
    BY <1>2, <2>1, NameText
<1> QED
  BY <1>1, <1>3 DEF NextName

\* CanvasBase::addShape appends the shape under a free name.
LEMMA AddShapeType ==
  ASSUME NEW d \in Documents, NEW s \in ShapeIds
  PROVE  /\ AddShape(d, s) \in Documents
         /\ AddShape(d, s).image = d.image
         /\ AddShape(d, s).list = Append(d.list, s)
         /\ AddShape(d, s).cur = Len(d.list)
         /\ AddShape(d, s).shape =
              [d.shape EXCEPT ![s] = [d.shape[s] EXCEPT !.name = NextName(d, s)]]
         /\ AddShape(d, s).cmds = d.cmds
         /\ AddShape(d, s).idx = d.idx
<1> DEFINE x == [d.shape[s] EXCEPT !.name = NextName(d, s)]
<1>1. AddShape(d, s) =
        [d EXCEPT !.list  = Append(d.list, s),
                  !.shape = [d.shape EXCEPT ![s] = x],
                  !.cur   = Len(d.list)]
  BY DEF AddShape, NextName, Documents
<1>2. NextName(d, s) \in Names
  BY NextNameIsFree
<1>3. x \in ShapeRecords
  BY <1>2, ZenonT(30) DEF Documents, ShapeRecords
<1> HIDE DEF x
<1>4. /\ Append(d.list, s) \in Seq(ShapeIds)
      /\ Len(d.list) \in Int
      /\ [d.shape EXCEPT ![s] = x] \in [ShapeIds -> ShapeRecords]
  BY <1>3 DEF Documents
<1>5. /\ AddShape(d, s) \in Documents
      /\ AddShape(d, s).image = d.image
      /\ AddShape(d, s).list = Append(d.list, s)
      /\ AddShape(d, s).cur = Len(d.list)
      /\ AddShape(d, s).shape = [d.shape EXCEPT ![s] = x]
      /\ AddShape(d, s).cmds = d.cmds
      /\ AddShape(d, s).idx = d.idx
  BY <1>1, <1>4, Zenon DEF Documents
<1> QED
  BY <1>5 DEF x

-----------------------------------------------------------------------------
(* What the operations do to the content of the canvas.                    *)

\* A function on 1 .. n is a sequence of length n.
LEMMA FunctionIsSeq ==
  ASSUME NEW n \in Nat, NEW S, NEW f \in [1 .. n -> S]
  PROVE  f \in Seq(S) /\ Len(f) = n /\ DOMAIN f = 1 .. n
OBVIOUS

\* The content of a document is one entry per shape in the list.
LEMMA ContentType ==
  ASSUME NEW d \in Documents
  PROVE  /\ Content(d) \in Seq(Entries)
         /\ Len(Content(d)) = Len(d.list)
         /\ DOMAIN Content(d) = 1 .. Len(d.list)
         /\ \A i \in 1 .. Len(d.list) :
              /\ Content(d)[i].id = d.list[i]
              /\ Content(d)[i].shape = d.shape[d.list[i]]
<1>1. /\ d.list \in Seq(ShapeIds)
      /\ d.shape \in [ShapeIds -> ShapeRecords]
      /\ Len(d.list) \in Nat
      /\ DOMAIN d.list = 1 .. Len(d.list)
  BY DEF Documents
<1>2. Content(d) = [i \in 1 .. Len(d.list) |->
                      [id |-> d.list[i], shape |-> d.shape[d.list[i]]]]
  BY <1>1 DEF Content
<1>3. \A i \in 1 .. Len(d.list) :
        [id |-> d.list[i], shape |-> d.shape[d.list[i]]] \in Entries
  BY <1>1 DEF Entries
<1>4. Content(d) \in [1 .. Len(d.list) -> Entries]
  BY <1>2, <1>3
<1>5. \A i \in 1 .. Len(d.list) :
        /\ Content(d)[i].id = d.list[i]
        /\ Content(d)[i].shape = d.shape[d.list[i]]
  BY <1>2
<1> QED
  BY <1>1, <1>4, <1>5, FunctionIsSeq

\* addShape() appends to what the canvas shows.
LEMMA AddShapeContent ==
  ASSUME NEW d \in Documents, NEW s \in ShapeIds, s \notin Listed(d)
  PROVE  Content(AddShape(d, s)) =
           Append(Content(d),
                  [id |-> s,
                   shape |-> [d.shape[s] EXCEPT !.name = NextName(d, s)]])
<1> DEFINE x == [d.shape[s] EXCEPT !.name = NextName(d, s)]
           e == AddShape(d, s)
           w == Append(Content(d), [id |-> s, shape |-> x])
<1>1. /\ e \in Documents
      /\ e.list = Append(d.list, s)
      /\ e.shape = [d.shape EXCEPT ![s] = x]
  BY AddShapeType
<1>2. /\ d.list \in Seq(ShapeIds)
      /\ d.shape \in [ShapeIds -> ShapeRecords]
      /\ x \in ShapeRecords
  BY NextNameIsFree, ZenonT(30) DEF Documents, ShapeRecords
<1>3. [id |-> s, shape |-> x] \in Entries
  BY <1>2 DEF Entries
<1> HIDE DEF x, e
<1>4. /\ w \in Seq(Entries)
      /\ Len(w) = Len(d.list) + 1
      /\ \A i \in 1 .. Len(d.list) : w[i] = Content(d)[i]
      /\ w[Len(d.list) + 1] = [id |-> s, shape |-> x]
  BY <1>3, ContentType, SeqAppend
<1> HIDE DEF w
<1>5. Content(e) = [i \in 1 .. Len(d.list) + 1 |->
                      [id |-> e.list[i], shape |-> e.shape[e.list[i]]]]
  BY <1>1, <1>2 DEF Content
<1>6. ASSUME NEW i \in 1 .. Len(d.list) + 1 PROVE Content(e)[i] = w[i]
  <2>1. CASE i = Len(d.list) + 1
    BY <1>1, <1>2, <1>4, <1>5, <2>1
  <2>2. CASE i \in 1 .. Len(d.list)
    <3>1. e.list[i] = d.list[i] /\ d.list[i] # s /\ d.list[i] \in ShapeIds
      BY <1>1, <1>2, <2>2 DEF Listed
    <3>2. w[i] = [id |-> d.list[i], shape |-> d.shape[d.list[i]]]
      <4>1. Content(d)[i] = [id |-> d.list[i], shape |-> d.shape[d.list[i]]]
        BY <1>2, <2>2 DEF Content
      <4> QED
        BY <1>4, <2>2, <4>1
    <3>3. e.shape[d.list[i]] = d.shape[d.list[i]]
      BY <1>1, <1>2, <3>1
    <3> QED
      BY <1>5, <3>1, <3>2, <3>3
  <2>3. Len(d.list) \in Nat
    BY <1>2
  <2> QED
    BY <2>1, <2>2, <2>3
<1>7. Content(e) \in Seq(Entries) /\ Len(Content(e)) = Len(d.list) + 1
  BY <1>1, <1>2, ContentType
<1>8. Content(e) = w
  BY <1>2, <1>4, <1>6, <1>7, SeqSame
<1> QED
  BY <1>8 DEF w, x, e

\* An object that is not on the canvas can change without being seen.
LEMMA OffCanvas ==
  ASSUME NEW d \in Documents, NEW s \in ShapeIds, s \notin Listed(d),
         NEW x \in ShapeRecords
  PROVE  /\ Content(SetShape(d, s, x)) = Content(d)
         /\ Listed(SetShape(d, s, x)) = Listed(d)
         /\ ListedNames(SetShape(d, s, x)) = ListedNames(d)
         /\ SetShape(d, s, x).shape[s] = x
<1> DEFINE e == SetShape(d, s, x)
<1>1. /\ e.list = d.list
      /\ e.shape = [d.shape EXCEPT ![s] = x]
      /\ d.list \in Seq(ShapeIds)
      /\ d.shape \in [ShapeIds -> ShapeRecords]
  BY DEF SetShape, Documents
<1>2. \A i \in DOMAIN d.list : d.list[i] # s /\ d.list[i] \in ShapeIds
  BY <1>1 DEF Listed
<1> HIDE DEF e
<1>3. \A i \in DOMAIN d.list : e.shape[d.list[i]] = d.shape[d.list[i]]
  BY <1>1, <1>2
<1>4. Content(e) = Content(d)
  BY <1>1, <1>3 DEF Content
<1>5. Listed(e) = Listed(d)
  BY <1>1 DEF Listed
<1>6. \A t \in Listed(d) : e.shape[t] = d.shape[t]
  BY <1>3 DEF Listed
<1>7. ListedNames(e) = ListedNames(d)
  BY <1>5, <1>6 DEF ListedNames
<1> QED
  BY <1>1, <1>4, <1>5, <1>7 DEF e

\* Deleting the newest shape by its name takes the last shape off the list,
\* provided that no other shape has the name.
LEMMA DeleteNewest ==
  ASSUME NEW d \in Documents, d.list # <<>>, UniquelyNamed(d),
         d.cur = Len(d.list) - 1,
         NEW name, name = d.shape[d.list[Len(d.list)]].name
  PROVE  /\ IndexOf(d, name) = Len(d.list) - 1
         /\ DeleteShape(d, name) \in Documents
         /\ DeleteShape(d, name).image = d.image
         /\ DeleteShape(d, name).list = Front(d.list)
         /\ DeleteShape(d, name).cur = Len(d.list) - 2
         /\ DeleteShape(d, name).shape = d.shape
         /\ DeleteShape(d, name).cmds = d.cmds
         /\ DeleteShape(d, name).idx = d.idx
         /\ Content(DeleteShape(d, name)) = Front(Content(d))
<1> DEFINE n == Len(d.list)
           left == RemoveAt(d.list, n)
           e == DeleteShape(d, name)
<1>1. /\ d.list \in Seq(ShapeIds)
      /\ n \in Nat \ {0}
      /\ DOMAIN d.list = 1 .. n
  BY SeqEmpty, SeqLen DEF Documents
<1>2. Positions(d, name) = {n}
  BY <1>1 DEF Positions, UniquelyNamed
<1>3. Min({n}) = n
  BY <1>1, MinOfOne
<1>4. IndexOf(d, name) = n - 1
  BY <1>2, <1>3 DEF IndexOf
<1>5. /\ left = Front(d.list)
      /\ left \in Seq(ShapeIds)
      /\ Len(left) = n - 1
      /\ \A i \in 1 .. n - 1 : left[i] = d.list[i]
  <2>1. SubSeq(d.list, n + 1, n) = <<>>
    BY <1>1, SeqNoPart
  <2>2. left = SubSeq(d.list, 1, n - 1) \o <<>>
    BY <2>1, Zenon DEF RemoveAt
  <2>3. /\ SubSeq(d.list, 1, n - 1) \in Seq(ShapeIds)
        /\ Len(SubSeq(d.list, 1, n - 1)) = n - 1
        /\ \A i \in 1 .. n - 1 : SubSeq(d.list, 1, n - 1)[i] = d.list[i]
    BY <1>1, SeqPart
  <2>4. SubSeq(d.list, 1, n - 1) \o <<>> = SubSeq(d.list, 1, n - 1)
    BY <2>3, SeqConcatEmpty
  <2> QED
    BY <2>2, <2>3, <2>4 DEF Front
<1> DEFINE cur == IF n - 1 > d.cur THEN d.cur
                  ELSE IF n - 1 = Len(left) THEN n - 1 - 1
                  ELSE n - 1
<1>6. e = [d EXCEPT !.list = left, !.cur = cur]
  BY <1>1, <1>4 DEF DeleteShape
<1>7. cur = n - 2 /\ cur \in Int
  <2> HIDE DEF left, n
  <2> QED BY <1>1, <1>5 DEF n
<1> HIDE DEF left, e, cur
<1>8. /\ e \in Documents
      /\ e.image = d.image
      /\ e.list = left
      /\ e.cur = cur
      /\ e.shape = d.shape
      /\ e.cmds = d.cmds
      /\ e.idx = d.idx
  BY <1>5, <1>6, <1>7, ZenonT(30) DEF Documents
<1>9. Content(e) = Front(Content(d))
  <2> DEFINE w == Front(Content(d))
  <2>1. /\ w \in Seq(Entries)
        /\ Len(w) = n - 1
        /\ \A i \in 1 .. n - 1 : w[i] = Content(d)[i]
    BY <1>1, ContentType, SeqPart DEF Front
  <2>2. Content(e) \in Seq(Entries) /\ Len(Content(e)) = n - 1
    BY <1>5, <1>8, ContentType
  <2>3. ASSUME NEW i \in 1 .. n - 1 PROVE Content(e)[i] = Content(d)[i]
    BY <1>1, <1>5, <1>8 DEF Content
  <2> HIDE DEF w
  <2>4. Content(e) = w
    BY <2>1, <2>2, <2>3, SeqSame, Zenon
  <2> QED
    BY <2>4 DEF w
<1> QED
  BY <1>4, <1>5, <1>7, <1>8, <1>9 DEF e

\* A change of an object shows at its one place on the canvas.
LEMMA ObjectSet ==
  ASSUME NEW d \in Documents,
         \A i, j \in DOMAIN d.list : d.list[i] = d.list[j] => i = j,
         NEW k \in DOMAIN d.list, NEW x \in ShapeRecords
  PROVE  Content(SetShape(d, d.list[k], x)) =
           [Content(d) EXCEPT ![k].shape = x]
<1> DEFINE e == SetShape(d, d.list[k], x)
<1>1. /\ d.list \in Seq(ShapeIds)
      /\ d.shape \in [ShapeIds -> ShapeRecords]
      /\ e.list = d.list
      /\ e.shape = [d.shape EXCEPT ![d.list[k]] = x]
  BY DEF SetShape, Documents
<1> HIDE DEF e
<1>2. \A i \in DOMAIN d.list :
        e.shape[d.list[i]] = IF i = k THEN x ELSE d.shape[d.list[i]]
  BY <1>1
<1>3. Content(e) = [i \in DOMAIN d.list |->
                      [id |-> d.list[i],
                       shape |-> IF i = k THEN x ELSE d.shape[d.list[i]]]]
  BY <1>1, <1>2 DEF Content
<1>4. [Content(d) EXCEPT ![k].shape = x] =
        [i \in DOMAIN d.list |->
           [id |-> d.list[i],
            shape |-> IF i = k THEN x ELSE d.shape[d.list[i]]]]
  BY DEF Content
<1> QED
  BY <1>3, <1>4 DEF e

\* Taking the last vertex off gives back the shape before it was appended.
LEMMA AppendThenDelete ==
  ASSUME NEW x \in ShapeRecords, NEW p \in Points
  PROVE  /\ AppendPoint(x, p) \in ShapeRecords
         /\ AppendPoint(x, p).name = x.name
         /\ AppendPoint(x, p).type = x.type
         /\ Len(x.pts) \in Nat
         /\ DeletePoint(AppendPoint(x, p), Len(x.pts)) = x
<1> DEFINE n == Len(x.pts)
           q == Append(x.pts, p)
           y == AppendPoint(x, p)
<1>1. x.pts \in Seq(Points) /\ n \in Nat
  BY DEF ShapeRecords
<1>2. q \in Seq(Points) /\ Len(q) = n + 1
  BY <1>1, SeqAppend
<1>3. y = [x EXCEPT !.pts = q]
  BY DEF AppendPoint
<1>4. RemoveAt(q, n + 1) = x.pts
  <2>1. SubSeq(q, 1, n) = x.pts
    BY <1>1
  <2>2. SubSeq(q, n + 2, n + 1) = <<>>
    BY <1>1, <1>2, SeqNoPart
  <2>3. RemoveAt(q, n + 1) = SubSeq(q, 1, n) \o SubSeq(q, n + 2, n + 1)
    <3> HIDE DEF q, n
    <3>1. RemoveAt(q, n + 1) =
            SubSeq(q, 1, (n + 1) - 1) \o SubSeq(q, (n + 1) + 1, Len(q))
      BY DEF RemoveAt
    <3>2. (n + 1) - 1 = n /\ (n + 1) + 1 = n + 2
      BY <1>1
    <3> QED
      BY <1>2, <3>1, <3>2
  <2> QED
    BY <1>1, <2>1, <2>2, <2>3, SeqConcatEmpty
<1> HIDE DEF q
<1>5. y \in ShapeRecords /\ y.name = x.name /\ y.type = x.type /\ y.pts = q
  BY <1>2, <1>3 DEF ShapeRecords
<1>6. DeletePoint(y, n) = [y EXCEPT !.pts = x.pts]
  BY <1>1, <1>2, <1>4, <1>5 DEF DeletePoint
<1>7. [y EXCEPT !.pts = x.pts] = x
  BY <1>1, <1>2, <1>3, Zenon DEF ShapeRecords
<1> QED
  BY <1>1, <1>5, <1>6, <1>7

-----------------------------------------------------------------------------
(* The commands.                                                           *)

\* What the redo of an adding command changes.
LEMMA AddAndRememberFacts ==
  ASSUME NEW d \in Documents, NEW i \in DOMAIN d.cmds,
         d.cmds[i].op \in {"AddShape", "RemoveShape"},
         NEW s, s = d.cmds[i].shape
  PROVE  LET e == AddAndRemember(d, i)
             c == [d.cmds[i] EXCEPT !.name = NextName(d, s)]
         IN  /\ s \in ShapeIds
             /\ e \in Documents
             /\ e.image = d.image
             /\ e.list = Append(d.list, s)
             /\ e.cur = Len(d.list)
             /\ e.shape =
                  [d.shape EXCEPT ![s] = [d.shape[s] EXCEPT !.name = NextName(d, s)]]
             /\ e.cmds = [d.cmds EXCEPT ![i] = c]
             /\ e.idx = d.idx
             /\ s \notin Listed(d) => Content(e) = Content(AddShape(d, s))
<1> DEFINE a == AddShape(d, s)
           nm == NextName(d, s)
           c == [d.cmds[i] EXCEPT !.name = nm]
           e == AddAndRemember(d, i)
<1>1. d.cmds \in Seq(Commands) /\ d.cmds[i] \in Commands
  BY DEF Documents
<1>2. s \in ShapeIds
  BY <1>1 DEF Commands
<1>3. /\ a \in Documents
      /\ a.image = d.image
      /\ a.list = Append(d.list, s)
      /\ a.cur = Len(d.list)
      /\ a.shape = [d.shape EXCEPT ![s] = [d.shape[s] EXCEPT !.name = nm]]
      /\ a.cmds = d.cmds
      /\ a.idx = d.idx
  BY <1>2, AddShapeType
<1>4. a.shape[s].name = nm
  BY <1>2, <1>3 DEF Documents, ShapeRecords
<1>5. nm \in Names
  BY <1>2, NextNameIsFree
<1> HIDE DEF a, nm
<1>6. c \in Commands
  BY <1>1, <1>5 DEF Commands
<1>7. e = [a EXCEPT !.cmds = [d.cmds EXCEPT ![i] = c]]
  BY <1>3, <1>4, Zenon DEF AddAndRemember, a, Documents
<1>8. [d.cmds EXCEPT ![i] = c] \in Seq(Commands)
  BY <1>1, <1>6
<1> HIDE DEF c, e
<1>9. /\ e \in Documents
      /\ e.image = a.image
      /\ e.list = a.list
      /\ e.cur = a.cur
      /\ e.shape = a.shape
      /\ e.cmds = [d.cmds EXCEPT ![i] = c]
      /\ e.idx = a.idx
  BY <1>3, <1>7, <1>8, Zenon DEF Documents
<1>10. Content(e) = Content(a)
  BY <1>9 DEF Content
<1> QED
  BY <1>2, <1>3, <1>9, <1>10 DEF a, c, e, nm

-----------------------------------------------------------------------------
(* push().                                                                 *)

\* The first n + 1 elements of a sequence after an append to its first n.
LEMMA AppendToPrefix ==
  ASSUME NEW S, NEW s \in Seq(S), NEW n \in 0 .. Len(s), NEW x \in S,
         NEW t, t = Append(SubSeq(s, 1, n), x)
  PROVE  /\ t \in Seq(S)
         /\ Len(t) = n + 1
         /\ DOMAIN t = 1 .. n + 1
         /\ \A i \in 1 .. n : t[i] = s[i]
         /\ t[n + 1] = x
<1> DEFINE q == SubSeq(s, 1, n)
<1>1. q \in Seq(S) /\ Len(q) = n /\ \A i \in 1 .. n : q[i] = s[i]
  <2>1. \A i \in 1 .. n : s[i] \in S
    BY SeqElement, SeqLen
  <2> QED
    BY <2>1, SeqPart
<1>2. t = Append(q, x)
  OBVIOUS
<1> HIDE DEF q
<1> QED
  BY <1>1, <1>2, SeqAppend

\* The document on which push() runs redo() of the new command c.
Pushed(d, c) == [d EXCEPT !.cmds = Append(SubSeq(@, 1, d.idx), c),
                          !.idx  = @ + 1]

\* What p has kept of d and what is new.
PushedFrom(d, c, p) ==
  /\ Push(d, c) = RedoCommand(p, p.idx)
  /\ p \in Documents
  /\ p.image = d.image /\ p.list = d.list /\ p.cur = d.cur /\ p.shape = d.shape
  /\ Content(p) = Content(d)
  /\ p.idx = d.idx + 1
  /\ DOMAIN p.cmds = 1 .. d.idx + 1
  /\ Len(p.cmds) = d.idx + 1
  /\ \A i \in 1 .. d.idx : p.cmds[i] = d.cmds[i]
  /\ p.cmds[d.idx + 1] = c

\* push() cuts off the commands ahead and redoes the new one.
LEMMA PushedFacts ==
  ASSUME NEW d \in Documents, d.idx <= Len(d.cmds), NEW c \in Commands,
         NEW p, p = Pushed(d, c)
  PROVE  PushedFrom(d, c, p)
<1> DEFINE cs == Append(SubSeq(d.cmds, 1, d.idx), c)
<1>1. d.cmds \in Seq(Commands) /\ d.idx \in 0 .. Len(d.cmds) /\ d.idx \in Nat
  BY DEF Documents
<1>2. /\ cs \in Seq(Commands)
      /\ Len(cs) = d.idx + 1
      /\ DOMAIN cs = 1 .. d.idx + 1
      /\ \A i \in 1 .. d.idx : cs[i] = d.cmds[i]
      /\ cs[d.idx + 1] = c
  BY <1>1, AppendToPrefix
<1>3. p = [d EXCEPT !.cmds = cs, !.idx = d.idx + 1]
  BY DEF Pushed
<1>4. Push(d, c) = RedoCommand(p, p.idx)
  BY DEF Push, Pushed
<1> HIDE DEF cs
<1>5. /\ p \in Documents
      /\ p.image = d.image /\ p.list = d.list /\ p.cur = d.cur /\ p.shape = d.shape
      /\ p.cmds = cs
      /\ p.idx = d.idx + 1
  <2> DEFINE m == d.idx + 1
  <2>1. m \in Nat
    BY <1>1
  <2>2. p = [d EXCEPT !.cmds = cs, !.idx = m]
    BY <1>3
  <2> HIDE DEF m
  <2>3. /\ p \in Documents
        /\ p.image = d.image /\ p.list = d.list /\ p.cur = d.cur /\ p.shape = d.shape
        /\ p.cmds = cs
        /\ p.idx = m
    BY <1>2, <2>1, <2>2, Zenon DEF Documents
  <2> QED
    BY <2>3 DEF m
<1>6. Content(p) = Content(d)
  BY <1>5 DEF Content
<1> QED
  BY <1>2, <1>4, <1>5, <1>6, Zenon DEF PushedFrom

-----------------------------------------------------------------------------
(* A history and a new command.                                            *)

\* A version that is not empty is its front with one entry at the end.
LEMMA FrontAndLast ==
  ASSUME NEW w \in Seq(Entries), w # <<>>
  PROVE  /\ Front(w) \in Seq(Entries)
         /\ Len(Front(w)) = Len(w) - 1
         /\ Len(w) \in Nat \ {0}
         /\ Last(w) = w[Len(w)]
         /\ Last(w) \in Entries
         /\ w = Append(Front(w), Last(w))
         /\ \A i \in 1 .. Len(w) - 1 : Front(w)[i] = w[i]
<1>1. Len(w) \in Nat \ {0}
  BY SeqEmpty
<1>2. /\ Front(w) \in Seq(Entries)
      /\ Len(Front(w)) = Len(w) - 1
      /\ \A i \in 1 .. Len(w) - 1 : Front(w)[i] = w[i]
  <2> DEFINE m == Len(w) - 1
  <2>1. m \in Nat /\ m <= Len(w)
    BY <1>1
  <2>2. Front(w) = SubSeq(w, 1, m)
    BY DEF Front
  <2> HIDE DEF m
  <2>3. /\ SubSeq(w, 1, m) \in Seq(Entries)
        /\ Len(SubSeq(w, 1, m)) = m
        /\ \A i \in 1 .. m : SubSeq(w, 1, m)[i] = w[i]
    BY <1>1, <2>1, SeqPart
  <2> QED
    BY <2>2, <2>3 DEF m
<1>3. Last(w) = w[Len(w)] /\ Last(w) \in Entries
  BY <1>1 DEF Last
<1>4. w = Append(Front(w), Last(w))
  <2> DEFINE u == Append(Front(w), Last(w))
             f == Front(w)
             l == Last(w)
  <2> HIDE DEF f, l
  <2>1. /\ Append(f, l) \in Seq(Entries)
        /\ Len(Append(f, l)) = Len(w)
        /\ \A i \in 1 .. Len(w) - 1 : Append(f, l)[i] = w[i]
        /\ Append(f, l)[Len(w)] = w[Len(w)]
    BY <1>1, <1>2, <1>3, SeqAppend DEF f, l
  <2>2. \A i \in 1 .. Len(w) : Append(f, l)[i] = w[i]
    BY <1>1, <2>1
  <2>3. Append(f, l) = w
    BY <2>1, <2>2, SeqSame
  <2> QED
    BY <2>3 DEF f, l
<1> QED
  BY <1>1, <1>2, <1>3, <1>4

\* Which objects a command brings and takes.
LEMMA LeadsIds ==
  ASSUME NEW v \in Seq(Entries), NEW c, NEW w \in Seq(Entries),
         VersionOK(v), Leads(v, c, w)
  PROVE  /\ Ids(v) \subseteq Ids(w) \cup {c.shape}
         /\ Ids(w) \subseteq Ids(v) \cup {c.shape}
         /\ c.op # "AddShape" => Ids(w) \subseteq Ids(v)
         /\ c.op = "RemoveShape" => c.shape \notin Ids(w)
<1>1. ASSUME NEW a \in Seq(Entries), NEW b \in Seq(Entries), Grows(a, c, b)
      PROVE  Ids(b) = Ids(a) \cup {c.shape}
  <2>1. /\ Len(a) = Len(b) - 1
        /\ Len(b) \in Nat \ {0}
        /\ b[Len(b)].id = c.shape
        /\ \A i \in 1 .. Len(b) - 1 : a[i] = b[i]
    BY <1>1, FrontAndLast DEF Grows
  <2>2. Ids(a) = {b[j].id : j \in 1 .. Len(b) - 1}
    <3>1. DOMAIN a = 1 .. Len(b) - 1
      BY <2>1, SeqLen
    <3>2. Ids(a) = {a[j].id : j \in 1 .. Len(b) - 1}
      BY <3>1 DEF Ids
    <3> QED
      BY <2>1, <3>2
  <2>3. Ids(b) = {b[j].id : j \in 1 .. Len(b)}
    <3>1. DOMAIN b = 1 .. Len(b)
      BY SeqLen
    <3> QED
      BY <3>1 DEF Ids
  <2>4. 1 .. Len(b) = (1 .. Len(b) - 1) \cup {Len(b)}
    BY <2>1
  <2> QED
    BY <2>1, <2>2, <2>3, <2>4
<1>2. CASE c.op = "AddShape"
  <2>1. Ids(w) = Ids(v) \cup {c.shape}
    BY <1>1, <1>2 DEF Leads
  <2> QED
    BY <1>2, <2>1
<1>3. CASE c.op = "RemoveShape"
  <2>1. Grows(w, c, v)
    BY <1>3 DEF Leads
  <2>2. Ids(v) = Ids(w) \cup {c.shape}
    BY <1>1, <2>1
  <2>3. /\ Len(w) = Len(v) - 1
        /\ Len(v) \in Nat \ {0}
        /\ v[Len(v)].id = c.shape
        /\ \A i \in 1 .. Len(v) - 1 : w[i] = v[i]
    BY <2>1, FrontAndLast, Zenon DEF Grows
  <2>4. c.shape \notin Ids(w)
    BY <2>3 DEF Ids, VersionOK
  <2> QED
    BY <1>3, <2>2, <2>4
<1>4. CASE c.op = "AddPoint"
  <2>1. PICK k \in DOMAIN v :
          w = Changed(v, k, AppendPoint(v[k].shape, c.point))
    BY <1>4 DEF Leads
  <2>2. \A j \in DOMAIN v : v[j] \in Entries
    BY SeqElement
  <2>3. DOMAIN w = DOMAIN v /\ \A j \in DOMAIN v : w[j].id = v[j].id
    BY <2>1, <2>2, Zenon DEF Changed, Entries
  <2>4. Ids(w) = Ids(v)
    BY <2>3, Zenon DEF Ids
  <2> QED
    BY <1>4, <2>4
<1> QED
  BY <1>2, <1>3, <1>4 DEF Leads

\* Running command c on version vs[n + 1] gives a history that ends in c.  What
\* is asked of c: a shape that is added is a fresh object; a shape that is
\* removed is left as it is, and so are the ones removed before.
NextHistory(content, shape, cmds, n, vs, c, w, shape2, cs, us) ==
  /\ cmds \in Seq(Commands) /\ n \in Nat /\ n <= Len(cmds)
  /\ vs \in Seq(Seq(Entries))
  /\ Hist(content, shape, cmds, n, vs)
  /\ w \in Seq(Entries) /\ VersionOK(w) /\ Leads(content, c, w)
  /\ c.op = "AddShape" => c.shape \notin Ids(content)
  /\ \A i \in 1 .. n : c.op = "AddShape" => cmds[i].shape # c.shape
  /\ c.op = "RemoveShape" => shape2[c.shape] = Last(content).shape
  /\ \A i \in 1 .. n : cmds[i].op = "RemoveShape" =>
       shape2[cmds[i].shape] = shape[cmds[i].shape]
  /\ DOMAIN cs = 1 .. n + 1 /\ Len(cs) = n + 1
  /\ \A i \in 1 .. n : cs[i] = cmds[i]
  /\ cs[n + 1] = c
  /\ DOMAIN us = 1 .. n + 2 /\ Len(us) = n + 2
  /\ \A k \in 1 .. n + 1 : us[k] = vs[k]
  /\ us[n + 2] = w

\* The new history is a history of the new version.
LEMMA BranchHist ==
  ASSUME NEW content, NEW shape, NEW cmds, NEW n, NEW vs, NEW c, NEW w,
         NEW shape2, NEW cs, NEW us,
         NextHistory(content, shape, cmds, n, vs, c, w, shape2, cs, us)
  PROVE  Hist(w, shape2, cs, n + 1, us)
<1> USE DEF NextHistory
<1>1. /\ Len(vs) = Len(cmds) + 1
      /\ content = vs[n + 1]
      /\ \A k \in DOMAIN vs : VersionOK(vs[k])
      /\ \A i \in DOMAIN cmds : Leads(vs[i], cmds[i], vs[i + 1])
      /\ Lifetime(cmds, vs)
      /\ Accounted(cmds, vs)
      /\ Kept(shape, cmds, n, vs)
  BY Zenon DEF Hist
<1>2. /\ (n + 1) + 1 = n + 2
      /\ \A k \in 1 .. n + 1 : k \in DOMAIN vs
      /\ \A k \in 1 .. n + 2 : k \in 1 .. n + 1 \/ k = n + 2
      /\ \A i \in 1 .. n : i \in DOMAIN cmds /\ i \in 1 .. n + 1 /\ i + 1 \in 1 .. n + 1
      /\ \A i \in 1 .. n + 1 : i \in 1 .. n \/ i = n + 1
      /\ n + 1 \in 1 .. n + 1
      /\ n + 1 \in DOMAIN vs
  BY <1>1
<1>3. content \in Seq(Entries) /\ VersionOK(content)
  BY <1>1, <1>2, SeqElement
<1>4. \A k \in DOMAIN us : VersionOK(us[k])
  BY <1>1, <1>2, SMTT(30)
<1>5. \A i \in DOMAIN cs : Leads(us[i], cs[i], us[i + 1])
  <2> SUFFICES ASSUME NEW i \in DOMAIN cs PROVE Leads(us[i], cs[i], us[i + 1])
    OBVIOUS
  <2>1. CASE i \in 1 .. n
    <3>1. us[i] = vs[i] /\ us[i + 1] = vs[i + 1] /\ cs[i] = cmds[i]
      BY <1>2, <2>1, SMTT(30)
    <3> QED
      BY <1>1, <1>2, <2>1, <3>1, Zenon
  <2>2. CASE i = n + 1
    <3>1. us[i] = content /\ us[i + 1] = w /\ cs[i] = c
      BY <1>1, <1>2, <2>2, SMTT(30)
    <3> QED
      BY <3>1
  <2> QED
    BY <1>2, <2>1, <2>2
<1>6. /\ Ids(content) \subseteq Ids(w) \cup {c.shape}
      /\ Ids(w) \subseteq Ids(content) \cup {c.shape}
      /\ c.op # "AddShape" => Ids(w) \subseteq Ids(content)
      /\ c.op = "RemoveShape" => c.shape \notin Ids(w)
  BY <1>3, LeadsIds
\* Every object of an earlier version is held by a command or on the canvas.
<1>7. ASSUME NEW m \in 1 .. n + 1, NEW k \in 1 .. m, NEW s \in Ids(vs[k]),
             s \notin Ids(vs[m])
      PROVE  \E i \in 1 .. m - 1 : cmds[i].shape = s
  <2>1. m \in DOMAIN vs
    BY <1>2
  <2> QED
    BY <1>1, <1>7, <2>1 DEF Accounted
<1>8. ASSUME NEW k \in 1 .. n + 1, NEW s \in Ids(vs[k]), s \notin Ids(content)
      PROVE  \E i \in 1 .. n : cmds[i].shape = s
  <2> DEFINE m == n + 1
  <2>1. m \in 1 .. n + 1 /\ m - 1 = n /\ k \in 1 .. m
    OBVIOUS
  <2>2. s \notin Ids(vs[m])
    BY <1>1, <1>8
  <2> HIDE DEF m
  <2> QED
    BY <1>7, <2>1, <2>2, ZenonT(60)
<1>9. Lifetime(cs, us)
  <2> SUFFICES ASSUME NEW i \in DOMAIN cs, NEW k \in DOMAIN us
               PROVE  /\ cs[i].op = "AddShape" /\ k <= i =>
                           cs[i].shape \notin Ids(us[k])
                      /\ cs[i].op = "RemoveShape" /\ k > i =>
                           cs[i].shape \notin Ids(us[k])
    BY Zenon DEF Lifetime
  <2>1. CASE i \in 1 .. n /\ k \in 1 .. n + 1
    <3>1. cs[i] = cmds[i] /\ us[k] = vs[k]
      BY <2>1
    <3> QED
      BY <1>1, <1>2, <2>1, <3>1, Zenon DEF Lifetime
  <2>2. CASE i \in 1 .. n /\ k = n + 2
    <3>1. n + 1 > i /\ ~(k <= i)
      BY <2>2
    <3>2. cmds[i].op = "RemoveShape" => cmds[i].shape \notin Ids(content)
      BY <1>1, <1>2, <2>2, <3>1, Zenon DEF Lifetime
    <3>3. cmds[i].op = "RemoveShape" => cmds[i].shape \notin Ids(w)
      BY <1>6, <2>2, <3>2, Zenon
    <3>4. cs[i] = cmds[i] /\ us[k] = w
      BY <2>2
    <3> QED
      BY <3>1, <3>3, <3>4
  <2>3. CASE i = n + 1 /\ k \in 1 .. n + 1
    <3>1. ~(k > i)
      BY <2>3
    <3>2. c.op = "AddShape" => c.shape \notin Ids(vs[k])
      BY <1>8, <2>3, ZenonT(30)
    <3>3. cs[i] = c /\ us[k] = vs[k]
      BY <2>3
    <3> QED
      BY <3>1, <3>2, <3>3
  <2>4. CASE i = n + 1 /\ k = n + 2
    <3>1. ~(k <= i)
      BY <2>4
    <3>2. cs[i] = c /\ us[k] = w
      BY <2>4, Zenon
    <3> QED
      BY <1>6, <3>1, <3>2
  <2> QED
    BY <1>2, <2>1, <2>2, <2>3, <2>4, Zenon
<1>10. Accounted(cs, us)
  <2> SUFFICES ASSUME NEW m \in DOMAIN us, NEW k \in 1 .. m,
                      NEW s \in Ids(us[k]), s \notin Ids(us[m])
               PROVE  \E i \in 1 .. m - 1 : cs[i].shape = s
    BY ZenonT(30) DEF Accounted
  <2>1. CASE m \in 1 .. n + 1
    <3>1. k \in 1 .. n + 1
      BY <2>1
    <3>2. s \in Ids(vs[k]) /\ s \notin Ids(vs[m])
      BY <2>1, <3>1
    <3>3. PICK i \in 1 .. m - 1 : cmds[i].shape = s
      BY <1>7, <2>1, <3>2, ZenonT(30)
    <3>4. i \in 1 .. n
      BY <2>1
    <3> QED
      BY <3>3, <3>4, Zenon
  <2>2. CASE m = n + 2
    <3>1. k # m
      BY Zenon
    <3>2. k \in 1 .. n + 1
      BY <2>2, <3>1
    <3>3. s \in Ids(vs[k]) /\ s \notin Ids(w)
      BY <2>2, <3>2, Zenon
    <3>4. n + 1 \in 1 .. m - 1
      BY <2>2
    <3>5. CASE s \in Ids(content)
      <4>1. s = c.shape
        BY <1>6, <3>3, <3>5
      <4> QED
        BY <3>4, <4>1, Zenon
    <3>6. CASE s \notin Ids(content)
      <4>1. PICK i \in 1 .. n : cmds[i].shape = s
        BY <1>8, <3>2, <3>3, <3>6, SMTT(30)
      <4>2. i \in 1 .. m - 1
        BY <2>2
      <4> QED
        BY <4>1, <4>2
    <3> QED
      BY <3>5, <3>6, Zenon
  <2> QED
    BY <1>2, <2>1, <2>2, Zenon
<1>11. Kept(shape2, cs, n + 1, us)
  <2> SUFFICES ASSUME NEW i \in DOMAIN cs
               PROVE  /\ cs[i].op = "AddShape" /\ i > n + 1 =>
                           shape2[cs[i].shape] = Last(us[i + 1]).shape
                      /\ cs[i].op = "RemoveShape" /\ i <= n + 1 =>
                           shape2[cs[i].shape] = Last(us[i]).shape
    BY DEF Kept
  <2>1. ~(i > n + 1)
    OBVIOUS
  <2>2. CASE i \in 1 .. n
    <3>1. cs[i] = cmds[i] /\ us[i] = vs[i] /\ i <= n
      BY <1>2, <2>2
    <3>2. cmds[i].op = "RemoveShape" => shape[cmds[i].shape] = Last(vs[i]).shape
      BY <1>1, <1>2, <2>2, <3>1, Zenon DEF Kept
    <3> QED
      BY <2>1, <2>2, <3>1, <3>2, SMTT(30)
  <2>3. CASE i = n + 1
    <3>1. cs[i] = c /\ us[i] = content
      BY <1>1, <1>2, <2>3
    <3> QED
      BY <2>1, <3>1
  <2> QED
    BY <1>2, <2>2, <2>3, Zenon
<1>12. Len(us) = Len(cs) + 1
  OBVIOUS
<1>13. w = us[(n + 1) + 1]
  BY <1>2, Zenon
<1> QED
  BY <1>4, <1>5, <1>9, <1>10, <1>11, <1>12, <1>13, Zenon DEF Hist

\* The versions after an edit made at version n that leads to w.
Branch(vs, n, w) == Append(SubSeq(vs, 1, n + 1), w)

IsBranch(us, vs, n, w) ==
  /\ us \in Seq(Seq(Entries))
  /\ Len(us) = n + 2
  /\ DOMAIN us = 1 .. n + 2
  /\ \A k \in 1 .. n + 1 : us[k] = vs[k]
  /\ us[n + 2] = w

\* The versions up to the current one, then the new version.
LEMMA BranchFacts ==
  ASSUME NEW vs \in Seq(Seq(Entries)), NEW n \in Nat, n < Len(vs),
         NEW w \in Seq(Entries)
  PROVE  IsBranch(Branch(vs, n, w), vs, n, w)
<1> DEFINE m == n + 1
           us == Branch(vs, n, w)
<1>1. m \in 0 .. Len(vs) /\ m + 1 = n + 2
  OBVIOUS
<1>2. us = Append(SubSeq(vs, 1, m), w)
  BY DEF Branch
<1> HIDE DEF m, us
<1>3. /\ us \in Seq(Seq(Entries))
      /\ Len(us) = m + 1
      /\ DOMAIN us = 1 .. m + 1
      /\ \A k \in 1 .. m : us[k] = vs[k]
      /\ us[m + 1] = w
  BY <1>1, <1>2, AppendToPrefix
<1> QED
  BY <1>1, <1>3, Zenon DEF m, us, IsBranch

-----------------------------------------------------------------------------
(* Versions.                                                               *)

\* The names in front of a position are finitely many.
LEMMA NamesBeforeFinite ==
  ASSUME NEW v, NEW j \in Nat
  PROVE  IsFiniteSet(NamesBefore(v, j))
<1> DEFINE f == [k \in 1 .. j - 1 |-> v[k].shape.name]
<1>1. f \in Surjection(1 .. j - 1, NamesBefore(v, j))
  BY DEF Surjection, NamesBefore
<1>2. IsFiniteSet(1 .. j - 1)
  BY FS_Interval
<1> HIDE DEF f
<1> QED
  BY <1>1, <1>2, FS_Surjection

\* Names that uniqueName() gave one after the other are distinct.
LEMMA VersionNamesDistinct ==
  ASSUME NEW v \in Seq(Entries), VersionOK(v),
         NEW j \in DOMAIN v, NEW k \in DOMAIN v, v[j].shape.name = v[k].shape.name
  PROVE  j = k
<1>1. \A m \in DOMAIN v : m \in Nat /\ v[m].shape.name \notin NamesBefore(v, m)
  <2> TAKE m \in DOMAIN v
  <2>1. m \in Nat
    OBVIOUS
  <2>2. v[m].shape.name =
          UniqueName(NamesBefore(v, m), TypeToString(v[m].shape.type))
    BY DEF VersionOK
  <2> QED
    BY <2>1, <2>2, NamesBeforeFinite, UniqueNameIsFree
<1>2. \A m, n \in DOMAIN v : m < n => v[m].shape.name \in NamesBefore(v, n)
  BY DEF NamesBefore
<1>3. j \in Nat /\ k \in Nat
  OBVIOUS
<1>4. ~(j < k) /\ ~(k < j)
  BY <1>1, <1>2
<1> QED
  BY <1>3, <1>4

\* A version without its last shape is one uniqueName() could have named.
LEMMA FrontVersionOK ==
  ASSUME NEW w \in Seq(Entries), w # <<>>, VersionOK(w)
  PROVE  VersionOK(Front(w))
<1> DEFINE v == Front(w)
           n == Len(w)
<1>1. n \in Nat \ {0} /\ DOMAIN w = 1 .. n
  BY SeqEmpty, SeqLen
<1>2. /\ DOMAIN v = 1 .. n - 1
      /\ \A i \in 1 .. n - 1 : v[i] = w[i]
  BY <1>1, SeqPart DEF Front
<1> HIDE DEF v, n
<1>3. \A j \in 1 .. n - 1 : NamesBefore(v, j) = NamesBefore(w, j)
  BY <1>1, <1>2 DEF NamesBefore
<1>4. VersionOK(v)
  BY <1>1, <1>2, <1>3 DEF VersionOK
<1> QED
  BY <1>4 DEF v

\* A shape with the name uniqueName() gives it fits at the end of a version.
LEMMA AppendVersionOK ==
  ASSUME NEW v \in Seq(Entries), VersionOK(v), NEW e \in Entries,
         e.id \notin Ids(v),
         e.shape.name =
           UniqueName(NamesBefore(v, Len(v) + 1), TypeToString(e.shape.type))
  PROVE  VersionOK(Append(v, e))
<1> DEFINE w == Append(v, e)
           n == Len(v)
<1>1. n \in Nat /\ DOMAIN v = 1 .. n
  BY SeqLen
<1>2. /\ DOMAIN w = 1 .. n + 1
      /\ \A i \in 1 .. n : w[i] = v[i]
      /\ w[n + 1] = e
  BY <1>1, SeqAppend
<1> HIDE DEF w, n
<1>3. \A j \in 1 .. n + 1 : NamesBefore(w, j) = NamesBefore(v, j)
  BY <1>1, <1>2 DEF NamesBefore
<1>4. \A i \in 1 .. n : v[i].id # e.id
  BY <1>1 DEF Ids
<1>5. ASSUME NEW j \in DOMAIN w, NEW k \in DOMAIN w, w[j].id = w[k].id
      PROVE  j = k
  BY <1>1, <1>2, <1>4, <1>5 DEF VersionOK
<1>6. ASSUME NEW j \in DOMAIN w
      PROVE  w[j].shape.name =
               UniqueName(NamesBefore(w, j), TypeToString(w[j].shape.type))
  <2>1. CASE j = n + 1
    BY <1>1, <1>2, <1>3, <2>1 DEF n
  <2>2. CASE j \in 1 .. n
    BY <1>1, <1>2, <1>3, <2>2 DEF VersionOK
  <2> QED
    BY <1>1, <1>2, <2>1, <2>2
<1> QED
  BY <1>5, <1>6 DEF VersionOK, w

\* The vertices of a shape have no part in it.
LEMMA ChangeVersionOK ==
  ASSUME NEW v \in Seq(Entries), VersionOK(v), NEW k \in DOMAIN v,
         NEW x \in ShapeRecords, x.name = v[k].shape.name, x.type = v[k].shape.type
  PROVE  LET w == Changed(v, k, x)
         IN  /\ VersionOK(w)
             /\ w \in Seq(Entries)
             /\ Ids(w) = Ids(v)
<1> DEFINE w == Changed(v, k, x)
<1>0. \A j \in DOMAIN v : v[j] \in Entries
  OBVIOUS
<1>1. [v[k] EXCEPT !.shape = x] \in Entries
  BY <1>0 DEF Entries
<1>2. w \in Seq(Entries) /\ DOMAIN w = DOMAIN v
  BY <1>1 DEF Changed
<1>3. \A j \in DOMAIN v : /\ w[j].id = v[j].id
                          /\ w[j].shape.name = v[j].shape.name
                          /\ w[j].shape.type = v[j].shape.type
  BY <1>0 DEF Entries, Changed
<1> HIDE DEF w
<1>4. \A j \in DOMAIN v : NamesBefore(w, j) = NamesBefore(v, j)
  <2> TAKE j \in DOMAIN v
  <2>1. \A i \in 1 .. j - 1 : i \in DOMAIN v
    OBVIOUS
  <2> QED
    BY <1>3, <2>1 DEF NamesBefore
<1>5. VersionOK(w)
  BY <1>2, <1>3, <1>4 DEF VersionOK
<1>6. Ids(w) = Ids(v)
  BY <1>2, <1>3 DEF Ids
<1> QED
  BY <1>2, <1>5, <1>6 DEF w

\* What a well-formed version says of the canvas that shows it.
LEMMA CanvasOfVersion ==
  ASSUME NEW d \in Documents, VersionOK(Content(d))
  PROVE  /\ UniquelyNamed(d)
         /\ \A i, j \in DOMAIN d.list : d.list[i] = d.list[j] => i = j
         /\ Listed(d) = Ids(Content(d))
         /\ ListedNames(d) = NamesBefore(Content(d), Len(d.list) + 1)
<1> DEFINE v == Content(d)
           n == Len(d.list)
<1>1. /\ v \in Seq(Entries)
      /\ DOMAIN v = 1 .. n
      /\ \A i \in 1 .. n : v[i].id = d.list[i] /\ v[i].shape = d.shape[d.list[i]]
  BY ContentType
<1>2. n \in Nat /\ DOMAIN d.list = 1 .. n
  BY DEF Documents
<1> HIDE DEF v, n
<1>3. VersionOK(v)
  BY DEF v
<1>4. \A i, j \in 1 .. n : v[i].shape.name = v[j].shape.name => i = j
  BY <1>1, <1>3, VersionNamesDistinct, Zenon
<1>5. UniquelyNamed(d)
  BY <1>1, <1>2, <1>4 DEF UniquelyNamed
<1>6. \A i, j \in DOMAIN d.list : d.list[i] = d.list[j] => i = j
  BY <1>1, <1>2, <1>3 DEF VersionOK
<1>7. Listed(d) = Ids(v)
  BY <1>1, <1>2 DEF Listed, Ids
<1>8. ListedNames(d) = NamesBefore(v, n + 1)
  <2>1. (n + 1) - 1 = n
    BY <1>2
  <2>2. ListedNames(d) = {d.shape[d.list[i]].name : i \in 1 .. n}
    BY <1>2 DEF ListedNames, Listed
  <2>3. NamesBefore(v, n + 1) = {v[i].shape.name : i \in 1 .. n}
    BY <2>1 DEF NamesBefore
  <2> QED
    BY <1>1, <2>2, <2>3
<1> QED
  BY <1>5, <1>6, <1>7, <1>8 DEF v, n

-----------------------------------------------------------------------------
(* A new command on a document.                                            *)

\* The part of HistoryInv that speaks of the document.
DocInv(d, vs) ==
  /\ Hist(Content(d), d.shape, d.cmds, d.idx, vs)
  /\ d.cur >= -1
  /\ d.cur = Len(d.list) - 1 \/ (d.list = <<>> /\ d.cmds = <<>>)

\* What TypeOK says of the document and its versions.
DocType(d, vs) ==
  /\ d \in Documents
  /\ d.idx <= Len(d.cmds)
  /\ vs \in Seq(Seq(Entries))

\* The document e that a new command c leads to continues the history of d.
LEMMA PushKeeps ==
  ASSUME NEW d, NEW vs, DocType(d, vs), DocInv(d, vs), NEW c,
         NEW e \in Documents, VersionOK(Content(e)),
         Leads(Content(d), c, Content(e)),
         c.op = "AddShape" => c.shape \notin Referenced(d),
         c.op = "RemoveShape" => e.shape[c.shape] = Last(Content(d)).shape,
         \A i \in 1 .. d.idx : d.cmds[i].op = "RemoveShape" =>
           e.shape[d.cmds[i].shape] = d.shape[d.cmds[i].shape],
         e.idx = d.idx + 1,
         DOMAIN e.cmds = 1 .. d.idx + 1, Len(e.cmds) = d.idx + 1,
         \A i \in 1 .. d.idx : e.cmds[i] = d.cmds[i], e.cmds[d.idx + 1] = c,
         e.cur = Len(e.list) - 1, e.cur >= -1,
         NEW us, us = Branch(vs, d.idx, Content(e))
  PROVE  DocType(e, us) /\ DocInv(e, us)
<1>1. /\ d \in Documents /\ d.idx \in Nat /\ d.idx <= Len(d.cmds)
      /\ d.cmds \in Seq(Commands)
      /\ vs \in Seq(Seq(Entries))
      /\ Hist(Content(d), d.shape, d.cmds, d.idx, vs)
  BY Zenon DEF DocType, DocInv, Documents
<1>2. Len(vs) = Len(d.cmds) + 1 /\ Content(d) = vs[d.idx + 1]
  BY <1>1 DEF Hist
<1>3. Content(e) \in Seq(Entries)
  BY ContentType
<1>4. /\ us \in Seq(Seq(Entries))
      /\ Len(us) = d.idx + 2
      /\ DOMAIN us = 1 .. d.idx + 2
      /\ \A k \in 1 .. d.idx + 1 : us[k] = vs[k]
      /\ us[d.idx + 2] = Content(e)
  <2> DEFINE w == Content(e)
             n == d.idx
  <2>1. n \in Nat /\ n < Len(vs) /\ w \in Seq(Entries) /\ vs \in Seq(Seq(Entries))
    BY <1>1, <1>2, <1>3
  <2>2. us = Branch(vs, n, w)
    BY Zenon
  <2> HIDE DEF w, n
  <2>3. IsBranch(us, vs, n, w)
    BY <2>1, <2>2, BranchFacts, SMTT(30)
  <2> QED
    BY <2>3 DEF w, n, IsBranch
<1>5. c.op = "AddShape" => c.shape \notin Ids(Content(d))
  <2>1. d.idx + 1 \in DOMAIN vs
    BY <1>1, <1>2
  <2>2. VersionOK(Content(d))
    BY <1>1, <1>2, <2>1, Zenon DEF Hist
  <2>3. Listed(d) = Ids(Content(d))
    BY <1>1, <2>2, CanvasOfVersion, ZenonT(30)
  <2> QED
    BY <2>3 DEF Referenced
<1>6. \A i \in 1 .. d.idx : c.op = "AddShape" => d.cmds[i].shape # c.shape
  <2>1. \A i \in 1 .. d.idx : i \in DOMAIN d.cmds
    BY <1>1
  <2> QED
    BY <2>1 DEF Referenced
<1>7. Hist(Content(e), e.shape, e.cmds, d.idx + 1, us)
  <2> DEFINE v == Content(d)
             w == Content(e)
             n == d.idx
  <2>1. NextHistory(v, d.shape, d.cmds, n, vs, c, w, e.shape, e.cmds, us)
    BY <1>1, <1>3, <1>4, <1>5, <1>6, Zenon DEF NextHistory
  <2> HIDE DEF v, w, n
  <2>2. Hist(w, e.shape, e.cmds, n + 1, us)
    BY <2>1, BranchHist, ZenonT(30)
  <2> QED
    BY <2>2, Zenon DEF w, n
<1>8. DocInv(e, us)
  BY <1>7 DEF DocInv
<1>9. e.idx <= Len(e.cmds)
  BY <1>1
<1> QED
  BY <1>4, <1>8, <1>9, Zenon DEF DocType

\* What DocInv says of the canvas.
LEMMA CanvasFacts ==
  ASSUME NEW d, NEW vs, DocType(d, vs), DocInv(d, vs)
  PROVE  /\ d \in Documents /\ d.idx \in Nat /\ d.idx <= Len(d.cmds)
         /\ d.cmds \in Seq(Commands) /\ d.list \in Seq(ShapeIds)
         /\ Content(d) \in Seq(Entries)
         /\ VersionOK(Content(d))
         /\ UniquelyNamed(d)
         /\ Listed(d) = Ids(Content(d))
         /\ ListedNames(d) = NamesBefore(Content(d), Len(Content(d)) + 1)
         /\ d.list # <<>> => d.cur = Len(d.list) - 1
         /\ \A i \in 1 .. d.idx : d.cmds[i].op = "RemoveShape" =>
              d.cmds[i].shape \notin Listed(d)
         /\ \A i \in 1 .. d.idx :
              d.cmds[i].shape \in ShapeIds /\ d.cmds[i].shape \in Referenced(d)
<1>1. /\ d \in Documents /\ d.idx \in Nat /\ d.idx <= Len(d.cmds)
      /\ d.cmds \in Seq(Commands) /\ d.list \in Seq(ShapeIds)
      /\ vs \in Seq(Seq(Entries))
  BY DEF DocType, Documents
<1>2. /\ Len(vs) = Len(d.cmds) + 1
      /\ Content(d) = vs[d.idx + 1]
      /\ \A k \in DOMAIN vs : VersionOK(vs[k])
      /\ Lifetime(d.cmds, vs)
  BY DEF DocInv, Hist
<1>3. d.idx + 1 \in DOMAIN vs
  BY <1>1, <1>2
<1>4. VersionOK(Content(d))
  BY <1>2, <1>3
<1>5. Content(d) \in Seq(Entries) /\ Len(Content(d)) = Len(d.list)
  BY <1>1, ContentType
<1>6. /\ UniquelyNamed(d)
      /\ Listed(d) = Ids(Content(d))
      /\ ListedNames(d) = NamesBefore(Content(d), Len(d.list) + 1)
  BY <1>1, <1>4, CanvasOfVersion
<1>7. d.list # <<>> => d.cur = Len(d.list) - 1
  BY DEF DocInv
<1>8. ASSUME NEW i \in 1 .. d.idx
      PROVE  /\ d.cmds[i].op = "RemoveShape" => d.cmds[i].shape \notin Listed(d)
             /\ d.cmds[i].shape \in ShapeIds
             /\ d.cmds[i].shape \in Referenced(d)
  <2>1. i \in DOMAIN d.cmds /\ d.idx + 1 > i
    BY <1>1
  <2>2. d.cmds[i].op = "RemoveShape" => d.cmds[i].shape \notin Ids(Content(d))
    BY <1>2, <1>3, <2>1 DEF Lifetime
  <2>3. d.cmds[i] \in Commands
    BY <1>1, <2>1, SeqElement, SMTT(30)
  <2> QED
    BY <1>6, <2>1, <2>2, <2>3 DEF Referenced, Commands
<1> QED
  BY <1>1, <1>4, <1>5, <1>6, <1>7, <1>8, Zenon

\* Taking off the shape that was put last.
LEMMA FrontOfAppend ==
  ASSUME NEW v \in Seq(Entries), NEW x \in Entries
  PROVE  /\ Append(v, x) \in Seq(Entries)
         /\ Append(v, x) # <<>>
         /\ Front(Append(v, x)) = v
         /\ Last(Append(v, x)) = x
<1> DEFINE w == Append(v, x)
<1>1. /\ w \in Seq(Entries) /\ Len(w) = Len(v) + 1
      /\ \A i \in 1 .. Len(v) : w[i] = v[i]
      /\ w[Len(v) + 1] = x
  BY SeqAppend
<1> HIDE DEF w
<1>2. w # <<>> /\ Len(v) \in Nat
  BY <1>1
<1>3. /\ Front(w) \in Seq(Entries) /\ Len(Front(w)) = Len(w) - 1
      /\ Last(w) = w[Len(w)]
      /\ \A i \in 1 .. Len(w) - 1 : Front(w)[i] = w[i]
  BY <1>1, <1>2, FrontAndLast, ZenonT(30)
<1>4. (Len(v) + 1) - 1 = Len(v)
  BY <1>2
<1>5. Len(Front(w)) = Len(v) /\ \A i \in 1 .. Len(v) : Front(w)[i] = v[i]
  BY <1>1, <1>3, <1>4
<1>6. Front(w) = v
  BY <1>3, <1>5, SeqSame
<1> QED
  BY <1>1, <1>2, <1>3, <1>6 DEF w

\* AddShapeCommand.
LEMMA ShapeKeeps ==
  ASSUME NEW d, NEW vs, DocType(d, vs), DocInv(d, vs),
         NEW type \in DrawModes, NEW s \in ShapeIds \ Referenced(d),
         NEW e, e = PushAddShape(d, s, type),
         NEW us, us = Branch(vs, d.idx, Content(e))
  PROVE  DocType(e, us) /\ DocInv(e, us) /\ e.idx = d.idx + 1
<1>1. /\ d \in Documents /\ d.idx \in Nat /\ d.idx <= Len(d.cmds)
      /\ d.cmds \in Seq(Commands) /\ d.list \in Seq(ShapeIds)
      /\ Content(d) \in Seq(Entries)
      /\ VersionOK(Content(d))
      /\ Listed(d) = Ids(Content(d))
      /\ ListedNames(d) = NamesBefore(Content(d), Len(Content(d)) + 1)
      /\ \A i \in 1 .. d.idx :
           d.cmds[i].shape \in ShapeIds /\ d.cmds[i].shape \in Referenced(d)
  BY CanvasFacts, ZenonT(30)
<1> DEFINE x  == NewShape(type)
           d1 == SetShape(d, s, x)
           c0 == [op |-> "AddShape", shape |-> s, name |-> EmptyName]
           p  == Pushed(d1, c0)
           nm == NextName(p, s)
           c  == [c0 EXCEPT !.name = nm]
           y  == [x EXCEPT !.name = nm]
           en == [id |-> s, shape |-> y]
<1>2. s \in ShapeIds /\ s \notin Listed(d)
  BY Zenon DEF Referenced
<1>3. x \in ShapeRecords /\ c0 \in Commands
  BY <1>2, NewShapeType, EmptyNameType DEF Commands
<1>4. /\ c0.op = "AddShape" /\ c0.shape = s
      /\ c.op = "AddShape" /\ c.shape = s /\ c.name = nm
      /\ en.id = s /\ en.shape = y
  OBVIOUS
<1>5. e = Push(d1, c0)
  BY DEF PushAddShape
<1> HIDE DEF x, c0, c, p, nm, en
<1>6. /\ d1 \in Documents
      /\ d1.shape = [d.shape EXCEPT ![s] = x]
      /\ d1.list = d.list /\ d1.cmds = d.cmds /\ d1.idx = d.idx
  BY <1>1, <1>2, <1>3, ZenonT(30) DEF SetShape, Documents
<1>7. /\ Content(d1) = Content(d)
      /\ Listed(d1) = Listed(d)
      /\ ListedNames(d1) = ListedNames(d)
      /\ d1.shape[s] = x
  BY <1>1, <1>2, <1>3, OffCanvas, ZenonT(30)
<1> HIDE DEF d1
<1>8. /\ e = RedoCommand(p, p.idx)
      /\ p \in Documents
      /\ p.list = d1.list /\ p.shape = d1.shape
      /\ Content(p) = Content(d1)
      /\ p.idx = d.idx + 1
      /\ DOMAIN p.cmds = 1 .. d.idx + 1
      /\ Len(p.cmds) = d.idx + 1
      /\ \A i \in 1 .. d.idx : p.cmds[i] = d.cmds[i]
      /\ p.cmds[d.idx + 1] = c0
  <2>1. d1.idx <= Len(d1.cmds)
    BY <1>1, <1>6, ZenonT(30)
  <2>2. /\ Push(d1, c0) = RedoCommand(p, p.idx)
        /\ p \in Documents
        /\ p.list = d1.list /\ p.shape = d1.shape
        /\ Content(p) = Content(d1)
        /\ p.idx = d1.idx + 1
        /\ DOMAIN p.cmds = 1 .. d1.idx + 1
        /\ Len(p.cmds) = d1.idx + 1
        /\ \A i \in 1 .. d1.idx : p.cmds[i] = d1.cmds[i]
        /\ p.cmds[d1.idx + 1] = c0
    <3>1. PushedFrom(d1, c0, p)
      BY <1>3, <1>6, <2>1, PushedFacts, ZenonT(30) DEF p
    <3> QED
      BY <3>1, Zenon DEF PushedFrom
  <2> QED
    BY <1>5, <1>6, <2>2, Zenon
<1>9. Listed(p) = Listed(d) /\ ListedNames(p) = ListedNames(d)
  <2>1. Listed(p) = Listed(d1)
    BY <1>8, Zenon DEF Listed
  <2>2. ListedNames(p) = ListedNames(d1)
    BY <1>8, <2>1, Zenon DEF ListedNames
  <2> QED
    BY <1>7, <2>1, <2>2, Zenon
<1>10. d.idx + 1 \in DOMAIN p.cmds
  BY <1>1, <1>8, SMTT(40)
<1>11. e = AddAndRemember(p, d.idx + 1)
  BY <1>4, <1>8 DEF RedoCommand
<1>12. /\ e \in Documents
       /\ e.list = Append(p.list, s)
       /\ e.cur = Len(p.list)
       /\ e.shape = [p.shape EXCEPT ![s] = [p.shape[s] EXCEPT !.name = nm]]
       /\ e.cmds = [p.cmds EXCEPT ![d.idx + 1] = [c0 EXCEPT !.name = nm]]
       /\ e.idx = p.idx
       /\ Content(e) = Content(AddShape(p, s))
  <2> DEFINE i == d.idx + 1
             a == AddAndRemember(p, i)
  <2>1. /\ p.cmds[i] = c0 /\ i \in DOMAIN p.cmds /\ e = a
        /\ p.cmds[i].op \in {"AddShape", "RemoveShape"} /\ s = p.cmds[i].shape
    BY <1>4, <1>8, <1>10, <1>11
  <2>2. s \notin Listed(p)
    BY <1>2, <1>9
  <2> HIDE DEF i
  <2>3. /\ a \in Documents
        /\ a.list = Append(p.list, s)
        /\ a.cur = Len(p.list)
        /\ a.shape =
             [p.shape EXCEPT ![s] = [p.shape[s] EXCEPT !.name = NextName(p, s)]]
        /\ a.cmds = [p.cmds EXCEPT ![i] = [p.cmds[i] EXCEPT !.name = NextName(p, s)]]
        /\ a.idx = p.idx
        /\ s \notin Listed(p) => Content(a) = Content(AddShape(p, s))
    <3>1. /\ p \in Documents /\ i \in DOMAIN p.cmds
          /\ p.cmds[i].op \in {"AddShape", "RemoveShape"} /\ s = p.cmds[i].shape
      BY <1>8, <2>1, Zenon
    <3> QED
      BY <3>1, AddAndRememberFacts
  <2> HIDE DEF a
  <2> QED
    BY <2>1, <2>2, <2>3 DEF nm, i
<1>13. Content(e) = Append(Content(d), en)
  <2>1. Content(AddShape(p, s)) =
          Append(Content(p), [id |-> s, shape |-> [p.shape[s] EXCEPT !.name = nm]])
    BY <1>2, <1>8, <1>9, AddShapeContent, ZenonT(30) DEF nm
  <2> QED
    BY <1>7, <1>8, <1>12, <2>1, Zenon DEF en
<1>14. nm \in Names
  BY <1>2, <1>8, NextNameIsFree DEF nm
<1>15. y \in ShapeRecords /\ y.name = nm /\ y.type = x.type
  BY <1>3, <1>14, SMTT(30) DEF ShapeRecords
<1> HIDE DEF y
<1>16. en \in Entries
  BY <1>2, <1>15 DEF en, Entries
<1>17. nm = UniqueName(NamesBefore(Content(d), Len(Content(d)) + 1),
                       TypeToString(en.shape.type))
  BY <1>1, <1>4, <1>7, <1>8, <1>9, <1>15, ZenonT(30) DEF nm, NextName
<1>18. VersionOK(Content(e))
  BY <1>1, <1>2, <1>4, <1>13, <1>15, <1>16, <1>17, AppendVersionOK, ZenonT(30)
<1>19. Leads(Content(d), c, Content(e))
  <2>1. Content(e) # <<>> /\ Front(Content(e)) = Content(d) /\ Last(Content(e)) = en
    BY <1>1, <1>13, <1>16, FrontOfAppend, ZenonT(30)
  <2> QED
    BY <1>4, <1>15, <2>1, Zenon DEF Leads, Grows
<1>20. \A i \in 1 .. d.idx : d.cmds[i].op = "RemoveShape" =>
         e.shape[d.cmds[i].shape] = d.shape[d.cmds[i].shape]
  <2>1. \A t \in ShapeIds \ {s} : e.shape[t] = d.shape[t]
    BY <1>1, <1>6, <1>8, <1>12 DEF Documents
  <2> QED
    BY <1>1, <2>1
<1>21. /\ DOMAIN e.cmds = 1 .. d.idx + 1 /\ Len(e.cmds) = d.idx + 1
       /\ \A i \in 1 .. d.idx : e.cmds[i] = d.cmds[i]
       /\ e.cmds[d.idx + 1] = c
  <2>1. e.cmds = [p.cmds EXCEPT ![d.idx + 1] = c]
    BY <1>12 DEF c
  <2>2. DOMAIN e.cmds = 1 .. d.idx + 1 /\ e.cmds[d.idx + 1] = c
    BY <1>8, <1>10, <2>1, Zenon
  <2>3. \A i \in 1 .. d.idx : i # d.idx + 1 /\ i \in 1 .. d.idx + 1
    BY <1>1, SMTT(30)
  <2>4. \A i \in 1 .. d.idx : e.cmds[i] = d.cmds[i]
    BY <1>8, <2>1, <2>3
  <2>5. Len(e.cmds) = d.idx + 1
    BY <1>1, <1>12, <2>2, SeqLen DEF Documents
  <2> QED
    BY <2>2, <2>4, <2>5, Zenon
<1>22. e.cur = Len(e.list) - 1 /\ e.cur >= -1
  BY <1>2, <1>8, <1>12, SMTT(30) DEF Documents
<1>23. c.op = "AddShape" => c.shape \notin Referenced(d)
  BY <1>4
<1>24. e.idx = d.idx + 1 /\ e \in Documents
  BY <1>8, <1>12, Zenon
<1>25. DocType(e, us) /\ DocInv(e, us)
  BY <1>4, <1>18, <1>19, <1>20, <1>21, <1>22, <1>23, <1>24, PushKeeps, ZenonT(30)
<1> QED
  BY <1>24, <1>25, Zenon

\* d with the shape of c taken off, which shows v.
SteppedBack(d, c, v, e) ==
  /\ FindsItsShape(d, c)
  /\ e \in Documents
  /\ Content(e) = v
  /\ e.shape = d.shape
  /\ e.cmds = d.cmds
  /\ e.idx = d.idx
  /\ e.cur = Len(e.list) - 1
  /\ e.cur >= -1
  /\ d.shape[c.shape] = Last(Content(d)).shape

\* deleteShape() with the name a command remembers shows the version without
\* the newest shape, which stays as it is.
LEMMA StepBack ==
  ASSUME NEW d \in Documents, VersionOK(Content(d)),
         d.cur = Len(d.list) - 1 \/ (d.list = <<>> /\ d.cmds = <<>>),
         NEW c, NEW v, Grows(v, c, Content(d)),
         NEW e, e = DeleteShape(d, c.name)
  PROVE  SteppedBack(d, c, v, e)
<1> DEFINE n == Len(d.list)
<1>1. /\ Content(d) # <<>>
      /\ v = Front(Content(d))
      /\ Last(Content(d)).id = c.shape
      /\ Last(Content(d)).shape.name = c.name
  BY DEF Grows
<1>2. /\ Content(d) \in Seq(Entries)
      /\ Len(Content(d)) = n
      /\ \A i \in 1 .. n : /\ Content(d)[i].id = d.list[i]
                           /\ Content(d)[i].shape = d.shape[d.list[i]]
  BY ContentType
<1>3. n \in Nat \ {0} /\ d.list \in Seq(ShapeIds) /\ d.list # <<>>
  BY <1>1, <1>2, SeqEmpty, Zenon DEF Documents
<1>4. /\ c.shape = d.list[n]
      /\ c.name = d.shape[d.list[n]].name
      /\ d.shape[c.shape] = Last(Content(d)).shape
  BY <1>1, <1>2, <1>3 DEF Last
<1>5. UniquelyNamed(d)
  BY CanvasOfVersion
<1>6. d.cur = n - 1
  BY <1>3
<1>7. /\ IndexOf(d, c.name) = n - 1
      /\ e \in Documents
      /\ e.list = Front(d.list)
      /\ e.cur = n - 2
      /\ e.shape = d.shape
      /\ e.cmds = d.cmds
      /\ e.idx = d.idx
      /\ Content(e) = Front(Content(d))
  BY <1>3, <1>4, <1>5, <1>6, DeleteNewest, Zenon
<1>8. Len(e.list) = n - 1
  <2>1. Len(Content(e)) = n - 1
    BY <1>1, <1>2, <1>7, FrontAndLast, Zenon
  <2> QED
    BY <1>7, <2>1, ContentType, Zenon
<1>9. FindsItsShape(d, c)
  <2>1. (n - 1) + 1 = n /\ n - 1 >= 0
    BY <1>3
  <2> QED
    BY <1>4, <1>7, <2>1 DEF FindsItsShape
<1> HIDE DEF n
<1>10. e.cur = Len(e.list) - 1 /\ e.cur >= -1
  BY <1>3, <1>7, <1>8
<1> QED
  BY <1>1, <1>4, <1>7, <1>9, <1>10, Zenon DEF SteppedBack

\* RemoveShapeCommand.
LEMMA RemoveKeeps ==
  ASSUME NEW d, NEW vs, DocType(d, vs), DocInv(d, vs), CurrentInRange(d),
         NEW e, e = PushRemoveShape(d), e # d,
         NEW us, us = Branch(vs, d.idx, Content(e))
  PROVE  DocType(e, us) /\ DocInv(e, us) /\ e.idx = d.idx + 1
<1>1. /\ d \in Documents /\ d.idx \in Nat /\ d.idx <= Len(d.cmds)
      /\ d.cmds \in Seq(Commands) /\ d.list \in Seq(ShapeIds)
      /\ Content(d) \in Seq(Entries)
      /\ VersionOK(Content(d))
      /\ UniquelyNamed(d)
      /\ d.list # <<>> => d.cur = Len(d.list) - 1
  BY CanvasFacts
<1>2. d.cur \in Int /\ d.cur >= -1 /\ d.cur < Len(d.list)
  BY <1>1 DEF DocInv, CurrentInRange, Documents
<1> DEFINE n    == Len(d.list)
           name == d.shape[d.list[n]].name
           c    == [op |-> "RemoveShape", shape |-> d.list[n], name |-> name]
           p    == Pushed(d, c)
<1>3. d.cur # -1
  BY DEF PushRemoveShape
<1>4. n \in Nat \ {0} /\ d.list # <<>> /\ d.cur = n - 1 /\ (n - 1) + 1 = n
  BY <1>1, <1>2, <1>3, SMTT(30)
<1>5. CurrentShape(d) = d.list[n] /\ d.list[n] \in ShapeIds
  BY <1>1, <1>4, SeqElement DEF CurrentShape
<1>6. IndexOf(d, name) = n - 1
  BY <1>1, <1>4, DeleteNewest, Zenon
<1>7. name \in Names
  BY <1>1, <1>5, SMTT(30) DEF Documents, ShapeRecords
<1>8. c \in Commands
  BY <1>5, <1>7 DEF Commands
<1>9. e = Push(d, c)
  <2>1. d.shape[CurrentShape(d)].name = name /\ d.list[IndexOf(d, name) + 1] = d.list[n]
    BY <1>4, <1>5, <1>6
  <2> QED
    BY <1>3, <2>1, ZenonT(30) DEF PushRemoveShape
<1>10. c.op = "RemoveShape" /\ c.shape = d.list[n] /\ c.name = name
  BY Zenon
<1> HIDE DEF c, p
<1>11. /\ Push(d, c) = RedoCommand(p, p.idx)
       /\ p \in Documents
       /\ p.list = d.list /\ p.cur = d.cur /\ p.shape = d.shape
       /\ Content(p) = Content(d)
       /\ p.idx = d.idx + 1
       /\ DOMAIN p.cmds = 1 .. d.idx + 1
       /\ Len(p.cmds) = d.idx + 1
       /\ \A i \in 1 .. d.idx : p.cmds[i] = d.cmds[i]
       /\ p.cmds[d.idx + 1] = c
  <2>1. PushedFrom(d, c, p)
    BY <1>1, <1>8, PushedFacts, Zenon DEF p
  <2> QED
    BY <2>1, Zenon DEF PushedFrom
<1>12. e = DeleteShape(p, c.name)
  BY <1>9, <1>10, <1>11, Zenon DEF RedoCommand
<1>13. Grows(Front(Content(d)), c, Content(d))
  <2>1. Len(Content(d)) = n /\ Content(d)[n].id = d.list[n]
        /\ Content(d)[n].shape = d.shape[d.list[n]]
    BY <1>1, <1>4, ContentType
  <2>2. Content(d) # <<>>
    BY <1>4, <2>1
  <2>3. Last(Content(d)) = Content(d)[n]
    BY <1>1, <2>1, <2>2, FrontAndLast, Zenon
  <2> QED
    BY <1>10, <2>1, <2>2, <2>3, Zenon DEF Grows
<1>14. /\ e \in Documents
       /\ Content(e) = Front(Content(d))
       /\ e.shape = d.shape
       /\ e.cmds = p.cmds
       /\ e.idx = p.idx
       /\ e.cur = Len(e.list) - 1
       /\ e.cur >= -1
       /\ d.shape[c.shape] = Last(Content(d)).shape
  <2>1. VersionOK(Content(p)) /\ Grows(Front(Content(d)), c, Content(p))
        /\ p.cur = Len(p.list) - 1
    BY <1>1, <1>4, <1>11, <1>13, ZenonT(30)
  <2>2. SteppedBack(p, c, Front(Content(d)), e)
    BY <1>11, <1>12, <2>1, StepBack, Zenon
  <2> QED
    BY <1>11, <2>2, Zenon DEF SteppedBack
<1>15. VersionOK(Content(e))
  BY <1>1, <1>13, <1>14, FrontVersionOK, Zenon DEF Grows
<1>16. Leads(Content(d), c, Content(e))
  BY <1>10, <1>13, <1>14, ZenonT(30) DEF Leads
<1>17. /\ e.idx = d.idx + 1 /\ DOMAIN e.cmds = 1 .. d.idx + 1 /\ Len(e.cmds) = d.idx + 1
       /\ \A i \in 1 .. d.idx : e.cmds[i] = d.cmds[i]
       /\ e.cmds[d.idx + 1] = c
  BY <1>11, <1>14, Zenon
<1>18. /\ c.op = "AddShape" => c.shape \notin Referenced(d)
       /\ c.op = "RemoveShape" => e.shape[c.shape] = Last(Content(d)).shape
       /\ \A i \in 1 .. d.idx : d.cmds[i].op = "RemoveShape" =>
            e.shape[d.cmds[i].shape] = d.shape[d.cmds[i].shape]
  BY <1>10, <1>14
<1>19. DocType(e, us) /\ DocInv(e, us)
  BY <1>14, <1>15, <1>16, <1>17, <1>18, PushKeeps, ZenonT(30)
<1> QED
  BY <1>17, <1>19, Zenon

\* d with the object s, at place k of the canvas, changed to x.
ChangedObject(d, k, x, s, e) ==
  /\ s \in ShapeIds
  /\ d.shape[s] = Content(d)[k].shape
  /\ e \in Documents
  /\ Content(e) = Changed(Content(d), k, x)
  /\ \A t \in ShapeIds \ {s} : e.shape[t] = d.shape[t]
  /\ e.list = d.list
  /\ e.cmds = d.cmds
  /\ e.idx = d.idx
  /\ e.cur = d.cur

\* A change of the object at place k of the canvas.
LEMMA ChangeAt ==
  ASSUME NEW d \in Documents, VersionOK(Content(d)),
         NEW k \in DOMAIN Content(d), NEW x \in ShapeRecords,
         NEW s, s = Content(d)[k].id,
         NEW e, e = SetShape(d, s, x)
  PROVE  ChangedObject(d, k, x, s, e)
<1>1. /\ k \in 1 .. Len(d.list)
      /\ s = d.list[k]
      /\ Content(d)[k].shape = d.shape[d.list[k]]
  BY ContentType
<1>2. d.list \in Seq(ShapeIds) /\ k \in DOMAIN d.list /\ s \in ShapeIds
  BY <1>1 DEF Documents
<1>3. \A i, j \in DOMAIN d.list : d.list[i] = d.list[j] => i = j
  BY CanvasOfVersion
<1>4. Content(SetShape(d, d.list[k], x)) = Changed(Content(d), k, x)
  BY <1>2, <1>3, ObjectSet DEF Changed
<1>5. /\ e \in Documents
      /\ e.shape = [d.shape EXCEPT ![s] = x]
      /\ e.list = d.list
      /\ e.cmds = d.cmds
      /\ e.idx = d.idx
      /\ e.cur = d.cur
  BY <1>2 DEF SetShape, Documents
<1>6. \A t \in ShapeIds \ {s} : e.shape[t] = d.shape[t]
  BY <1>2, <1>5 DEF Documents
<1> QED
  BY <1>1, <1>2, <1>4, <1>5, <1>6, Zenon DEF ChangedObject

\* AddPointCommand.
LEMMA PointKeeps ==
  ASSUME NEW d, NEW vs, DocType(d, vs), DocInv(d, vs), CurrentInRange(d),
         NEW pt \in Points, NEW e, e = PushAddPoint(d, pt), e # d,
         NEW us, us = Branch(vs, d.idx, Content(e))
  PROVE  DocType(e, us) /\ DocInv(e, us) /\ e.idx = d.idx + 1
<1>1. /\ d \in Documents /\ d.idx \in Nat /\ d.idx <= Len(d.cmds)
      /\ d.cmds \in Seq(Commands) /\ d.list \in Seq(ShapeIds)
      /\ Content(d) \in Seq(Entries)
      /\ VersionOK(Content(d))
      /\ Listed(d) = Ids(Content(d))
      /\ d.list # <<>> => d.cur = Len(d.list) - 1
      /\ \A i \in 1 .. d.idx : d.cmds[i].op = "RemoveShape" =>
           d.cmds[i].shape \notin Listed(d)
      /\ \A i \in 1 .. d.idx : d.cmds[i].shape \in ShapeIds
  BY CanvasFacts, SMTT(30)
<1>2. d.cur \in Int /\ d.cur >= -1 /\ d.cur < Len(d.list)
  BY <1>1 DEF DocInv, CurrentInRange, Documents
<1> DEFINE n  == Len(d.list)
           s  == d.list[n]
           x  == d.shape[s]
           m  == Len(x.pts)
           y  == AppendPoint(x, pt)
           c0 == [op |-> "AddPoint", shape |-> s, name |-> 0, point |-> pt]
           c  == [op |-> "AddPoint", shape |-> s, name |-> m, point |-> pt]
           p0 == Pushed(d, c0)
           p  == Pushed(d, c)
<1>3. d.cur # -1
  BY DEF PushAddPoint
<1>4. n \in Nat \ {0} /\ d.cur = n - 1 /\ (n - 1) + 1 = n /\ n \in DOMAIN d.list
  BY <1>1, <1>2, <1>3
<1>5. CurrentShape(d) = s /\ s \in ShapeIds /\ x \in ShapeRecords
  <2>1. s \in ShapeIds
    BY <1>1, <1>4, SeqElement
  <2> QED
    BY <1>1, <1>4, <2>1, Zenon DEF CurrentShape, Documents
<1>6. /\ y \in ShapeRecords /\ y.name = x.name /\ y.type = x.type
      /\ m \in Nat
  BY <1>5, AppendThenDelete, Zenon
<1>7. c0 \in Commands /\ c \in Commands
  BY <1>5, <1>6, ZenonT(30) DEF Commands
<1>8. e = Push(d, c0)
  BY <1>3, <1>5 DEF PushAddPoint
<1>9. /\ c.op = "AddPoint" /\ c.shape = s /\ c.name = m /\ c.point = pt
      /\ c0.op = "AddPoint" /\ c0.shape = s /\ c0.point = pt
      /\ [c0 EXCEPT !.name = m] = c
  OBVIOUS
<1> HIDE DEF c0, c, p0, p, m, y
<1>10. /\ Push(d, c0) = RedoCommand(p0, p0.idx)
       /\ p0 \in Documents
       /\ p0.shape = d.shape
       /\ p0.idx = d.idx + 1
       /\ p0.cmds[d.idx + 1] = c0
       /\ DOMAIN p0.cmds = 1 .. d.idx + 1
       /\ \A i \in 1 .. d.idx : p0.cmds[i] = d.cmds[i]
       /\ p0.image = d.image /\ p0.list = d.list /\ p0.cur = d.cur
  <2>1. PushedFrom(d, c0, p0)
    BY <1>1, <1>7, PushedFacts, Zenon DEF p0
  <2> QED
    BY <2>1, Zenon DEF PushedFrom
<1>11. /\ p \in Documents
       /\ p.image = d.image /\ p.list = d.list /\ p.cur = d.cur /\ p.shape = d.shape
       /\ Content(p) = Content(d)
       /\ p.idx = d.idx + 1
       /\ DOMAIN p.cmds = 1 .. d.idx + 1
       /\ Len(p.cmds) = d.idx + 1
       /\ \A i \in 1 .. d.idx : p.cmds[i] = d.cmds[i]
       /\ p.cmds[d.idx + 1] = c
  <2>1. PushedFrom(d, c, p)
    BY <1>1, <1>7, PushedFacts, Zenon DEF p
  <2> QED
    BY <2>1, Zenon DEF PushedFrom
\* The command first has index 0 and then the place of the new vertex.
<1>12. p = [p0 EXCEPT !.cmds[d.idx + 1] = c]
  <2>1. p.cmds \in Seq(Commands) /\ p0.cmds \in Seq(Commands)
    BY <1>10, <1>11, SMTT(30) DEF Documents
  <2>2. p.cmds = [i \in 1 .. d.idx + 1 |-> p.cmds[i]]
    BY <1>11, <2>1, SMTT(30)
  <2>3. \A i \in 1 .. d.idx + 1 : i \in 1 .. d.idx \/ i = d.idx + 1
    BY <1>1, SMTT(30)
  <2>4. \A i \in 1 .. d.idx + 1 : [p0.cmds EXCEPT ![d.idx + 1] = c][i] = p.cmds[i]
    BY <1>10, <1>11, <2>3
  <2>5. p.cmds = [p0.cmds EXCEPT ![d.idx + 1] = c]
    BY <1>10, <2>1, <2>2, <2>4, ZenonT(30)
  <2> QED
    BY <1>10, <1>11, <2>5 DEF Documents
<1>13. e = SetShape(p, s, y)
  <2>1. e = [p0 EXCEPT !.shape[s] = AppendPoint(p0.shape[s], pt),
                       !.cmds[d.idx + 1] = [c0 EXCEPT !.name = Len(p0.shape[s].pts)]]
    BY <1>8, <1>9, <1>10, ZenonT(30) DEF RedoCommand
  <2>2. e = [p0 EXCEPT !.shape[s] = y, !.cmds[d.idx + 1] = c]
    BY <1>9, <1>10, <2>1, ZenonT(30) DEF m, y
  <2> QED
    BY <1>10, <1>12, <2>2, ZenonT(30) DEF SetShape, Documents
<1>14. /\ n \in DOMAIN Content(d) /\ Content(d)[n].id = s /\ Content(d)[n].shape = x
       /\ s \in Ids(Content(d))
  BY <1>1, <1>4, ContentType DEF Ids
<1>15. /\ e \in Documents
       /\ Content(e) = Changed(Content(d), n, y)
       /\ \A t \in ShapeIds \ {s} : e.shape[t] = d.shape[t]
       /\ e.list = d.list
       /\ e.cmds = p.cmds
       /\ e.idx = p.idx
       /\ e.cur = d.cur
  <2>1. /\ p \in Documents /\ VersionOK(Content(p))
        /\ n \in DOMAIN Content(p) /\ s = Content(p)[n].id /\ y \in ShapeRecords
    BY <1>1, <1>6, <1>11, <1>14, ZenonT(30)
  <2> HIDE DEF n, s, x
  <2>2. /\ e \in Documents
        /\ Content(e) = Changed(Content(p), n, y)
        /\ \A t \in ShapeIds \ {s} : e.shape[t] = p.shape[t]
        /\ e.list = p.list
        /\ e.cmds = p.cmds
        /\ e.idx = p.idx
        /\ e.cur = p.cur
    <3>1. ChangedObject(p, n, y, s, e)
      BY <1>13, <2>1, ChangeAt, Zenon
    <3> QED
      BY <3>1, Zenon DEF ChangedObject
  <2> QED
    BY <1>11, <2>2, Zenon
<1>16. VersionOK(Content(e))
  BY <1>1, <1>6, <1>14, <1>15, ChangeVersionOK, ZenonT(30)
<1>17. Leads(Content(d), c, Content(e))
  BY <1>9, <1>14, <1>15, Zenon DEF Leads, m, y
<1>18. \A i \in 1 .. d.idx : d.cmds[i].op = "RemoveShape" =>
         e.shape[d.cmds[i].shape] = d.shape[d.cmds[i].shape]
  BY <1>1, <1>14, <1>15, ZenonT(30)
<1>19. e.cur = Len(e.list) - 1 /\ e.cur >= -1
  BY <1>2, <1>4, <1>15, SMTT(30)
<1>20. DocType(e, us) /\ DocInv(e, us)
  BY <1>9, <1>11, <1>15, <1>16, <1>17, <1>18, <1>19, PushKeeps, SMTT(30)
<1> QED
  BY <1>11, <1>15, <1>20, SMTT(30)

-----------------------------------------------------------------------------
(* Opening a document.                                                     *)

\* A document with an empty undo stack has its content as its one version.
LEMMA FreshHistory ==
  ASSUME NEW e \in Documents, e.cmds = <<>>, e.idx = 0, VersionOK(Content(e)),
         e.cur = Len(e.list) - 1 \/ e.list = <<>>, e.cur >= -1,
         NEW us, us = <<Content(e)>>
  PROVE  DocType(e, us) /\ DocInv(e, us)
<1>1. Content(e) \in Seq(Entries)
  BY ContentType
<1> DEFINE w == Content(e)
<1>2. us \in Seq(Seq(Entries)) /\ Len(us) = 1 /\ us[1] = w /\ DOMAIN us = {1}
  BY <1>1
<1> HIDE DEF w
<1>3. Len(e.cmds) = 0 /\ DOMAIN e.cmds = {}
  OBVIOUS
<1>4. Hist(w, e.shape, e.cmds, e.idx, us)
  <2>1. Len(us) = Len(e.cmds) + 1 /\ w = us[e.idx + 1]
    BY <1>2, <1>3
  <2>2. \A k \in DOMAIN us : VersionOK(us[k])
    BY <1>2 DEF w
  <2>3. Accounted(e.cmds, us)
    <3>1. \A m \in DOMAIN us : \A k \in 1 .. m : k = m
      BY <1>2
    <3> QED
      BY <3>1 DEF Accounted
  <2> QED
    BY <1>3, <2>1, <2>2, <2>3, SMTT(30) DEF Hist, Lifetime, Kept
<1>5. DocInv(e, us)
  BY <1>4, Zenon DEF DocInv, w
<1> QED
  BY <1>2, <1>3, <1>5 DEF DocType

\* A canvas without shapes is a document.
LEMMA CleanType ==
  ASSUME NEW b \in BOOLEAN, NEW k \in Int
  PROVE  [image |-> b, list |-> <<>>, cur |-> k, shape |-> NoObjects,
          cmds |-> <<>>, idx |-> 0] \in Documents
<1>1. NewShape("Polygon") \in ShapeRecords
  BY NewShapeType DEF DrawModes
<1>2. NoObjects \in [ShapeIds -> ShapeRecords]
  BY <1>1 DEF NoObjects
<1>3. <<>> \in Seq(ShapeIds) /\ <<>> \in Seq(Commands)
  OBVIOUS
<1> QED
  BY <1>2, <1>3, Zenon DEF Documents

\* A cleared canvas has no image.
LEMMA CleanHasNoImage ==
  ASSUME NEW d
  PROVE  Clean(d) = [Clean(d) EXCEPT !.image = FALSE]
<1> DEFINE b == FALSE
           k == -1
<1> HIDE DEF b, k
<1>1. Clean(d) = [[image |-> b, list |-> <<>>, cur |-> k, shape |-> NoObjects,
                   cmds |-> <<>>, idx |-> 0] EXCEPT !.cur = d.cur]
  BY DEF b, k, Clean, EmptyDocument
<1>2. Clean(d) = [Clean(d) EXCEPT !.image = b]
  BY <1>1, Zenon
<1> QED
  BY <1>2 DEF b

\* CanvasBase::clean, whatever m_currentIndex it leaves behind.
LEMMA CleanKeeps ==
  ASSUME NEW d \in Documents, d.cur >= -1, NEW b \in BOOLEAN,
         NEW e, e = [Clean(d) EXCEPT !.image = b],
         NEW us, us = <<Content(e)>>
  PROVE  DocType(e, us) /\ DocInv(e, us) /\ e.cmds = <<>> /\ e.idx = 0
<1>2. e = [image |-> b, list |-> <<>>, cur |-> d.cur, shape |-> NoObjects,
           cmds |-> <<>>, idx |-> 0]
  BY Zenon DEF Clean, EmptyDocument
<1>3. /\ e \in Documents
      /\ e.list = <<>> /\ e.cmds = <<>> /\ e.idx = 0 /\ e.cur = d.cur
  <2>1. d.cur \in Int
    BY DEF Documents
  <2>2. e \in Documents
    BY <1>2, <2>1, CleanType, Zenon
  <2>3. e.list = <<>> /\ e.cmds = <<>> /\ e.idx = 0 /\ e.cur = d.cur
    BY <1>2
  <2> QED
    BY <2>2, <2>3
<1>4. DOMAIN Content(e) = {}
  BY <1>3 DEF Content
<1>5. VersionOK(Content(e))
  BY <1>4, Zenon DEF VersionOK
<1> QED
  BY <1>3, <1>5, FreshHistory, Zenon

\* One round of openFile's loop.
LEMMA LoadKeeps ==
  ASSUME NEW d, NEW vs, DocType(d, vs), DocInv(d, vs), d.cmds = <<>>,
         NEW type \in DrawModes, NEW f \in FileShapes,
         NEW s \in ShapeIds \ Referenced(d),
         NEW e, e = AddLoaded(d, s, type, f), NEW us, us = <<Content(e)>>
  PROVE  DocType(e, us) /\ DocInv(e, us) /\ e.cmds = <<>> /\ e.idx = 0
<1>1. /\ d \in Documents /\ d.idx \in Nat /\ d.idx <= Len(d.cmds)
      /\ Content(d) \in Seq(Entries)
      /\ VersionOK(Content(d))
      /\ Listed(d) = Ids(Content(d))
      /\ ListedNames(d) = NamesBefore(Content(d), Len(Content(d)) + 1)
  BY CanvasFacts, Zenon
<1> DEFINE x  == LoadedShape(type, f)
           p  == SetShape(d, s, x)
           nm == NextName(p, s)
           y  == [x EXCEPT !.name = nm]
           en == [id |-> s, shape |-> y]
<1>2. s \in ShapeIds /\ s \notin Listed(d)
  BY Zenon DEF Referenced
<1>3. x \in ShapeRecords
  BY LoadedShapeType, Zenon
<1>4. e = AddShape(p, s)
  BY DEF AddLoaded
<1>5. en.id = s /\ en.shape = y
  OBVIOUS
<1> HIDE DEF x, nm, en
<1>6. p \in Documents /\ p.cmds = <<>> /\ p.idx = d.idx
  BY <1>1, <1>2, <1>3, Zenon DEF SetShape, Documents
<1>7. /\ Content(p) = Content(d)
      /\ Listed(p) = Listed(d)
      /\ ListedNames(p) = ListedNames(d)
      /\ p.shape[s] = x
  BY <1>1, <1>2, <1>3, OffCanvas, ZenonT(30)
<1> HIDE DEF p
<1>8. /\ e \in Documents
      /\ e.list = Append(p.list, s)
      /\ e.cur = Len(p.list)
      /\ e.cmds = <<>>
      /\ e.idx = d.idx
  <2>1. /\ AddShape(p, s) \in Documents
        /\ AddShape(p, s).list = Append(p.list, s)
        /\ AddShape(p, s).cur = Len(p.list)
        /\ AddShape(p, s).cmds = p.cmds
        /\ AddShape(p, s).idx = p.idx
    BY <1>2, <1>6, AddShapeType, ZenonT(30)
  <2> QED
    BY <1>4, <1>6, <2>1, ZenonT(30)
<1>9. Content(e) = Append(Content(d), en)
  BY <1>2, <1>4, <1>6, <1>7, AddShapeContent, SMTT(30) DEF nm, en
<1>10. nm \in Names
  BY <1>2, <1>6, NextNameIsFree DEF nm
<1>11. y \in ShapeRecords /\ y.name = nm /\ y.type = x.type
  BY <1>3, <1>10, Zenon DEF ShapeRecords
<1> HIDE DEF y
<1>12. en \in Entries
  BY <1>2, <1>11, Zenon DEF en, Entries
<1>13. nm = UniqueName(NamesBefore(Content(d), Len(Content(d)) + 1),
                       TypeToString(en.shape.type))
  BY <1>1, <1>5, <1>7, <1>11, ZenonT(30) DEF nm, NextName
<1>14. VersionOK(Content(e))
  BY <1>1, <1>2, <1>5, <1>9, <1>11, <1>12, <1>13, AppendVersionOK, ZenonT(30)
<1>15. e.idx = 0
  BY <1>1, <1>8, SMTT(30)
<1>16. e.cur = Len(e.list) - 1 /\ e.cur >= -1
  BY <1>2, <1>6, <1>8 DEF Documents
<1> QED
  BY <1>8, <1>14, <1>15, <1>16, FreshHistory

-----------------------------------------------------------------------------
(* Undo and redo move between the versions.                                *)

\* Adding an object that waited unchanged shows the version again in which it
\* was the newest shape: it even gets its old name back.
LEMMA Restore ==
  ASSUME NEW d \in Documents, NEW w \in Seq(Entries), w # <<>>, VersionOK(w),
         Content(d) = Front(w),
         NEW s, s = Last(w).id, d.shape[s] = Last(w).shape
  PROVE  /\ s \in ShapeIds
         /\ s \notin Listed(d)
         /\ NextName(d, s) = Last(w).shape.name
         /\ [d.shape EXCEPT ![s] = [d.shape[s] EXCEPT !.name = NextName(d, s)]] = d.shape
         /\ Content(AddShape(d, s)) = w
<1> DEFINE v == Front(w)
           l == Last(w)
           n == Len(w)
<1>1. /\ v \in Seq(Entries)
      /\ Len(v) = n - 1
      /\ n \in Nat \ {0}
      /\ l = w[n]
      /\ l \in Entries
      /\ w = Append(v, l)
      /\ \A i \in 1 .. n - 1 : v[i] = w[i]
      /\ DOMAIN v = 1 .. n - 1
      /\ DOMAIN w = 1 .. n
  BY FrontAndLast
<1>2. VersionOK(v)
  BY FrontVersionOK
<1>3. /\ Len(d.list) = n - 1
      /\ Listed(d) = Ids(v)
      /\ ListedNames(d) = NamesBefore(v, n)
  <2>1. Len(d.list) = n - 1
    BY <1>1, ContentType
  <2>2. (n - 1) + 1 = n
    BY <1>1
  <2> HIDE DEF v, n
  <2>3. Content(d) = v
    BY DEF v
  <2> QED
    BY <1>2, <2>1, <2>2, <2>3, CanvasOfVersion, Zenon
<1>4. s \in ShapeIds
  BY <1>1 DEF Entries
<1> HIDE DEF v, l, n
<1>5. s \notin Listed(d)
  <2>1. \A i \in 1 .. n - 1 : v[i].id # l.id
    BY <1>1 DEF VersionOK
  <2> QED
    BY <1>1, <1>3, <2>1 DEF Ids, l
<1>6. NextName(d, s) = l.shape.name
  <2>1. NamesBefore(v, n) = NamesBefore(w, n)
    BY <1>1 DEF NamesBefore
  <2>2. l.shape.name = UniqueName(NamesBefore(w, n), TypeToString(l.shape.type))
    BY <1>1 DEF VersionOK
  <2>3. d.shape[s] = l.shape
    BY DEF l
  <2> QED
    BY <1>3, <2>1, <2>2, <2>3, Zenon DEF NextName
<1>7. [d.shape[s] EXCEPT !.name = NextName(d, s)] = d.shape[s]
  BY <1>4, <1>6 DEF Documents, ShapeRecords, l
<1>8. [d.shape EXCEPT ![s] = [d.shape[s] EXCEPT !.name = NextName(d, s)]] = d.shape
  BY <1>4, <1>7, Zenon DEF Documents
<1>9. Content(AddShape(d, s)) = w
  <2>1. [id |-> s, shape |-> d.shape[s]] = l
    BY <1>1 DEF Entries, l
  <2>2. Content(AddShape(d, s)) = Append(Content(d), [id |-> s, shape |-> d.shape[s]])
    BY <1>4, <1>5, <1>7, AddShapeContent
  <2>3. Content(d) = v
    BY DEF v
  <2> QED
    BY <1>1, <2>1, <2>2, <2>3, Zenon
<1> QED
  BY <1>4, <1>5, <1>6, <1>8, <1>9, Zenon DEF l

\* Going from version i to version j of a history that stays as it is.
LEMMA HistMoves ==
  ASSUME NEW content, NEW shape, NEW cmds, NEW i, NEW vs,
         Hist(content, shape, cmds, i, vs),
         NEW j, NEW shape2, Kept(shape2, cmds, j, vs)
  PROVE  Hist(vs[j + 1], shape2, cmds, j, vs)
BY DEF Hist

\* The versions around command i.
LEMMA AroundCommand ==
  ASSUME NEW d, NEW vs, DocType(d, vs), DocInv(d, vs), NEW i \in DOMAIN d.cmds
  PROVE  /\ i \in Nat /\ i >= 1 /\ i <= Len(d.cmds)
         /\ d.cmds \in Seq(Commands) /\ d.cmds[i] \in Commands
         /\ d.cmds[i].shape \in ShapeIds
         /\ i \in DOMAIN vs /\ i + 1 \in DOMAIN vs
         /\ vs[i] \in Seq(Entries) /\ vs[i + 1] \in Seq(Entries)
         /\ VersionOK(vs[i]) /\ VersionOK(vs[i + 1])
         /\ Leads(vs[i], d.cmds[i], vs[i + 1])
<1>1. d.cmds \in Seq(Commands) /\ DOMAIN d.cmds = 1 .. Len(d.cmds)
  BY DEF DocType, Documents
<1>2. i \in Nat /\ i >= 1 /\ i <= Len(d.cmds) /\ d.cmds[i] \in Commands
  BY <1>1
<1>3. Len(vs) = Len(d.cmds) + 1 /\ DOMAIN vs = 1 .. Len(vs) /\ vs \in Seq(Seq(Entries))
  BY DEF DocInv, Hist, DocType
<1>4. i \in DOMAIN vs /\ i + 1 \in DOMAIN vs
  BY <1>1, <1>2, <1>3
<1>5. vs[i] \in Seq(Entries) /\ vs[i + 1] \in Seq(Entries)
  BY <1>3, <1>4, SeqElement, Zenon
<1>6. /\ VersionOK(vs[i]) /\ VersionOK(vs[i + 1])
      /\ Leads(vs[i], d.cmds[i], vs[i + 1])
  BY <1>4 DEF DocInv, Hist
<1>7. d.cmds[i].shape \in ShapeIds
  BY <1>2, Zenon DEF Commands
<1> QED
  BY <1>1, <1>2, <1>4, <1>5, <1>6, <1>7, Zenon

\* addShape() for the shape a command holds on to shows the version in which
\* it is the newest shape, and the command remembers the name it had.
LEMMA StepAgain ==
  ASSUME NEW d \in Documents, NEW i \in DOMAIN d.cmds,
         d.cmds[i].op \in {"AddShape", "RemoveShape"},
         NEW w \in Seq(Entries), VersionOK(w),
         Grows(Content(d), d.cmds[i], w),
         d.shape[d.cmds[i].shape] = Last(w).shape
  PROVE  LET e == AddAndRemember(d, i)
         IN  /\ e \in Documents
             /\ Content(e) = w
             /\ e.shape = d.shape
             /\ e.cmds = d.cmds
             /\ e.idx = d.idx
             /\ e.cur = Len(e.list) - 1
             /\ e.cur >= -1
<1> DEFINE e == AddAndRemember(d, i)
           s == d.cmds[i].shape
           nm == NextName(d, s)
<1>1. /\ w # <<>>
      /\ Content(d) = Front(w)
      /\ Last(w).id = s
      /\ Last(w).shape.name = d.cmds[i].name
  BY DEF Grows
<1>2. /\ s \in ShapeIds
      /\ s \notin Listed(d)
      /\ nm = Last(w).shape.name
      /\ [d.shape EXCEPT ![s] = [d.shape[s] EXCEPT !.name = nm]] = d.shape
      /\ Content(AddShape(d, s)) = w
  BY <1>1, Restore
<1>3. /\ e \in Documents
      /\ e.list = Append(d.list, s)
      /\ e.cur = Len(d.list)
      /\ e.shape = [d.shape EXCEPT ![s] = [d.shape[s] EXCEPT !.name = nm]]
      /\ e.cmds = [d.cmds EXCEPT ![i] = [d.cmds[i] EXCEPT !.name = nm]]
      /\ e.idx = d.idx
      /\ Content(e) = Content(AddShape(d, s))
  BY <1>2, AddAndRememberFacts
<1> HIDE DEF e, nm
<1>4. d.cmds[i] \in Commands /\ d.cmds \in Seq(Commands) /\ d.list \in Seq(ShapeIds)
  BY DEF Documents
<1>5. [d.cmds[i] EXCEPT !.name = nm] = d.cmds[i]
  <2>1. nm = d.cmds[i].name
    BY <1>1, <1>2
  <2> QED
    BY <1>4, <2>1 DEF Commands
<1>6. e.cmds = d.cmds
  BY <1>3, <1>4, <1>5, SMTT(30)
<1>7. e.cur = Len(e.list) - 1 /\ e.cur >= -1
  BY <1>2, <1>3, <1>4
<1> QED
  BY <1>2, <1>3, <1>6, <1>7 DEF e

\* Changing an entry and changing it back changes nothing.
LEMMA PutBack ==
  ASSUME NEW S, NEW v \in Seq(S), NEW k \in DOMAIN v, NEW q
  PROVE  [[v EXCEPT ![k] = q] EXCEPT ![k] = v[k]] = v
<1>1. v \in [1 .. Len(v) -> S]
  BY SeqLen
<1>2. v = [i \in DOMAIN v |-> v[i]]
  BY <1>1
<1>3. [[v EXCEPT ![k] = q] EXCEPT ![k] = v[k]] = [i \in DOMAIN v |-> v[i]]
  OBVIOUS
<1> QED
  BY <1>2, <1>3

\* Content w is v with point p at the end of shape k, and leads back to v.
PointAppended(v, k, p, w) ==
  /\ v[k].shape \in ShapeRecords
  /\ w[k].id = v[k].id
  /\ w[k].shape = AppendPoint(v[k].shape, p)
  /\ DOMAIN w = DOMAIN v
  /\ DeletePoint(w[k].shape, Len(v[k].shape.pts)) = v[k].shape
  /\ Changed(w, k, v[k].shape) = v

\* Undoing a point gives the object back as it is in the version before.
LEMMA PointBack ==
  ASSUME NEW v \in Seq(Entries), NEW k \in DOMAIN v, NEW p \in Points,
         NEW w, w = Changed(v, k, AppendPoint(v[k].shape, p))
  PROVE  PointAppended(v, k, p, w)
<1>1. v[k] \in Entries /\ v[k].shape \in ShapeRecords
  <2>1. v[k] \in Entries
    BY SeqElement
  <2> QED
    BY <2>1 DEF Entries
<1> DEFINE y == AppendPoint(v[k].shape, p)
<1>2. DeletePoint(y, Len(v[k].shape.pts)) = v[k].shape
  BY <1>1, AppendThenDelete
<1>3. w = [v EXCEPT ![k] = [v[k] EXCEPT !.shape = y]]
  BY DEF Changed
<1> HIDE DEF y
<1>4. w[k] = [v[k] EXCEPT !.shape = y] /\ DOMAIN w = DOMAIN v
  BY <1>3
<1>5. w[k].shape = y /\ w[k].id = v[k].id
  BY <1>1, <1>4 DEF Entries
<1>6. [w[k] EXCEPT !.shape = v[k].shape] = v[k]
  BY <1>1, <1>4, Zenon DEF Entries
<1>7. Changed(w, k, v[k].shape) = v
  <2>1. Changed(w, k, v[k].shape) = [w EXCEPT ![k] = v[k]]
    BY <1>4, <1>6, Zenon DEF Changed
  <2>2. [w EXCEPT ![k] = v[k]] = v
    BY <1>3, PutBack
  <2> QED
    BY <2>1, <2>2
<1> QED
  BY <1>1, <1>2, <1>4, <1>5, <1>7, Zenon DEF y, PointAppended

\* Doing or undoing command i concerns only what that command keeps.
LEMMA KeptAcross ==
  ASSUME NEW cmds \in Seq(Commands), NEW i \in DOMAIN cmds, NEW vs,
         NEW shape, NEW from \in {i - 1, i}, Kept(shape, cmds, from, vs),
         NEW shape2, NEW to \in {i - 1, i},
         \A j \in DOMAIN cmds :
           \/ cmds[j].op = "AddShape" /\ j > i
           \/ cmds[j].op = "RemoveShape" /\ j < i
           => shape2[cmds[j].shape] = shape[cmds[j].shape],
         cmds[i].op = "AddShape" /\ to = i - 1 =>
           shape2[cmds[i].shape] = Last(vs[i + 1]).shape,
         cmds[i].op = "RemoveShape" /\ to = i =>
           shape2[cmds[i].shape] = Last(vs[i]).shape
  PROVE  Kept(shape2, cmds, to, vs)
<1> SUFFICES ASSUME NEW j \in DOMAIN cmds
             PROVE  /\ cmds[j].op = "AddShape" /\ j > to =>
                         shape2[cmds[j].shape] = Last(vs[j + 1]).shape
                    /\ cmds[j].op = "RemoveShape" /\ j <= to =>
                         shape2[cmds[j].shape] = Last(vs[j]).shape
  BY DEF Kept
<1>1. j \in Nat /\ i \in Nat
  OBVIOUS
<1>2. CASE j = i
  BY <1>1, <1>2
<1>3. CASE j # i
  <2>1. /\ j > to => j > i /\ j > from
        /\ j <= to => j < i /\ j <= from
    BY <1>1, <1>3
  <2> QED
    BY <2>1 DEF Kept
<1> QED
  BY <1>2, <1>3, Zenon

\* The shapes that the other commands keep off the canvas are not those that a
\* point is added to.
LEMMA PointNotKept ==
  ASSUME NEW d, NEW vs, DocType(d, vs), DocInv(d, vs), NEW i \in DOMAIN d.cmds,
         d.cmds[i].op = "AddPoint", NEW j \in DOMAIN d.cmds,
         \/ d.cmds[j].op = "AddShape" /\ j > i
         \/ d.cmds[j].op = "RemoveShape" /\ j < i
  PROVE  d.cmds[j].shape # d.cmds[i].shape
<1>1. /\ i \in Nat /\ j \in Nat
      /\ i \in DOMAIN vs /\ i + 1 \in DOMAIN vs
      /\ Leads(vs[i], d.cmds[i], vs[i + 1])
  BY AroundCommand
<1>2. d.cmds[i].shape \in Ids(vs[i])
  BY <1>1 DEF Leads, Ids
<1>3. j > i => i <= j
  BY <1>1
<1> QED
  BY <1>1, <1>2, <1>3, Zenon DEF DocInv, Hist, Lifetime

-----------------------------------------------------------------------------
(* Undo and redo.                                                          *)

\* Undoing the last command that is done shows the version before it.
LEMMA UndoMoves ==
  ASSUME NEW d, NEW vs, DocType(d, vs), DocInv(d, vs), CanUndo(d),
         NEW i, i = d.idx, NEW e, e = UndoStep(d)
  PROVE  /\ DocType(e, vs) /\ DocInv(e, vs)
         /\ e.cmds = d.cmds
         /\ e.idx = i - 1
         /\ Content(e) = vs[i]
         /\ d.cmds[i].op = "AddShape" => FindsItsShape(d, d.cmds[i])
         /\ d.cmds[i].op = "AddPoint" => d.cmds[i].shape \in Listed(d)
<1> DEFINE c == d.cmds[i]
           f == UndoCommand(d, i)
<1>1. /\ d \in Documents /\ i \in DOMAIN d.cmds
      /\ vs \in Seq(Seq(Entries))
      /\ d.idx = i
  BY DEF DocType, Documents, CanUndo
<1>2. /\ i \in Nat /\ i >= 1 /\ i <= Len(d.cmds)
      /\ d.cmds \in Seq(Commands) /\ c \in Commands /\ c.shape \in ShapeIds
      /\ i \in DOMAIN vs /\ i + 1 \in DOMAIN vs
      /\ vs[i] \in Seq(Entries) /\ vs[i + 1] \in Seq(Entries)
      /\ VersionOK(vs[i]) /\ VersionOK(vs[i + 1])
      /\ Leads(vs[i], c, vs[i + 1])
  BY <1>1, AroundCommand, ZenonT(30)
<1>3. /\ Content(d) = vs[i + 1]
      /\ Hist(Content(d), d.shape, d.cmds, d.idx, vs)
      /\ Kept(d.shape, d.cmds, i, vs)
  <2>1. d.idx + 1 = i + 1
    BY <1>1, <1>2
  <2> QED
    BY <1>1, <2>1 DEF DocInv, Hist
<1>4. d.cur = Len(d.list) - 1 /\ d.cur >= -1
  <2>1. d.cmds # <<>>
    BY <1>1
  <2> QED
    BY <2>1 DEF DocInv
\* What the command has to give, whichever kind it is.
<1> DEFINE Good == /\ f \in Documents
                   /\ f.cmds = d.cmds
                   /\ Content(f) = vs[i]
                   /\ f.cur = Len(f.list) - 1
                   /\ f.cur >= -1
                   /\ Kept(f.shape, d.cmds, i - 1, vs)
                   /\ c.op = "AddShape" => FindsItsShape(d, c)
                   /\ c.op = "AddPoint" => c.shape \in Listed(d)
<1> HIDE DEF c, f
<1>5. ASSUME c.op = "AddShape" PROVE Good
  <2>1. Grows(vs[i], c, Content(d))
    BY <1>2, <1>3, <1>5 DEF Leads
  <2>2. f = DeleteShape(d, c.name)
    BY <1>5, Zenon DEF f, c, UndoCommand
  <2>3. /\ FindsItsShape(d, c)
        /\ f \in Documents
        /\ Content(f) = vs[i]
        /\ f.shape = d.shape
        /\ f.cmds = d.cmds
        /\ f.cur = Len(f.list) - 1
        /\ f.cur >= -1
        /\ d.shape[c.shape] = Last(vs[i + 1]).shape
    <3>1. SteppedBack(d, c, vs[i], f)
      BY <1>1, <1>2, <1>3, <1>4, <2>1, <2>2, StepBack, ZenonT(30)
    <3> QED
      BY <1>3, <3>1, Zenon DEF SteppedBack
  <2>4. Kept(f.shape, d.cmds, i - 1, vs)
    BY <1>1, <1>2, <1>3, <1>5, <2>3, KeptAcross, ZenonT(30) DEF c
  <2> QED
    BY <1>5, <2>3, <2>4, ZenonT(30)
<1>6. ASSUME c.op = "RemoveShape" PROVE Good
  <2>1. Grows(Content(d), c, vs[i])
    BY <1>2, <1>3, <1>6 DEF Leads
  <2>2. f = AddAndRemember(d, i)
    BY <1>6, Zenon DEF f, c, UndoCommand
  <2>3. d.shape[c.shape] = Last(vs[i]).shape
    <3>1. i \in DOMAIN d.cmds /\ i <= i /\ i > i - 1
      BY <1>1, <1>2
    <3> QED
      BY <1>3, <1>6, <3>1 DEF Kept, c
  <2>4. /\ f \in Documents
        /\ Content(f) = vs[i]
        /\ f.shape = d.shape
        /\ f.cmds = d.cmds
        /\ f.cur = Len(f.list) - 1
        /\ f.cur >= -1
    BY <1>1, <1>2, <1>6, <2>1, <2>2, <2>3, StepAgain, Zenon DEF c
  <2>5. Kept(f.shape, d.cmds, i - 1, vs)
    <3>1. i # i - 1
      BY <1>2
    <3> QED
      BY <1>1, <1>2, <1>3, <1>6, <2>4, <3>1, KeptAcross, ZenonT(30) DEF c
  <2> QED
    BY <1>6, <2>4, <2>5, ZenonT(30)
<1>7. ASSUME c.op = "AddPoint" PROVE Good
  <2>1. PICK k \in DOMAIN vs[i] :
          /\ vs[i][k].id = c.shape
          /\ c.name = Len(vs[i][k].shape.pts)
          /\ vs[i + 1] = Changed(vs[i], k, AppendPoint(vs[i][k].shape, c.point))
    BY <1>2, <1>7 DEF Leads
  <2>2. c.point \in Points
    BY <1>2, <1>7, Zenon DEF Commands
  <2>3. /\ vs[i][k].shape \in ShapeRecords
        /\ vs[i + 1][k].id = c.shape
        /\ vs[i + 1][k].shape = AppendPoint(vs[i][k].shape, c.point)
        /\ DOMAIN vs[i + 1] = DOMAIN vs[i]
        /\ DeletePoint(vs[i + 1][k].shape, c.name) = vs[i][k].shape
        /\ Changed(vs[i + 1], k, vs[i][k].shape) = vs[i]
    <3>1. PointAppended(vs[i], k, c.point, vs[i + 1])
      <4>1. vs[i] \in Seq(Entries)
        BY <1>2
      <4> QED
        BY <2>1, <2>2, <4>1, PointBack, Zenon
    <3> QED
      BY <2>1, <3>1, Zenon DEF PointAppended
  <2> DEFINE x == vs[i][k].shape
  <2>4. /\ VersionOK(Content(d))
        /\ k \in DOMAIN Content(d)
        /\ c.shape = Content(d)[k].id
        /\ x \in ShapeRecords
    <3>1. x \in ShapeRecords
      <4>1. vs[i][k] \in Entries
        BY <1>2, <2>3, SeqElement
      <4> QED
        BY <4>1, Zenon DEF Entries
    <3> QED
      BY <1>2, <1>3, <2>1, <2>3, <3>1, Zenon
  <2>5. d.shape[c.shape] = Content(d)[k].shape
    <3>1. ChangedObject(d, k, x, c.shape, SetShape(d, c.shape, x))
      BY <1>1, <2>4, ChangeAt, Zenon
    <3> QED
      BY <3>1, Zenon DEF ChangedObject
  <2> HIDE DEF x
  <2>6. f = SetShape(d, c.shape, x)
    <3>1. f = [d EXCEPT !.shape[c.shape] = DeletePoint(d.shape[c.shape], c.name)]
      BY <1>7, ZenonT(30) DEF f, c, UndoCommand
    <3>2. DeletePoint(d.shape[c.shape], c.name) = x
      BY <1>3, <2>3, <2>5 DEF x
    <3> QED
      BY <3>1, <3>2 DEF SetShape
  <2>7. /\ f \in Documents
        /\ Content(f) = Changed(Content(d), k, x)
        /\ \A t \in ShapeIds \ {c.shape} : f.shape[t] = d.shape[t]
        /\ f.list = d.list
        /\ f.cmds = d.cmds
        /\ f.cur = d.cur
    <3>1. ChangedObject(d, k, x, c.shape, f)
      BY <1>1, <2>4, <2>6, ChangeAt, Zenon
    <3> QED
      BY <3>1, Zenon DEF ChangedObject
  <2>8. Kept(f.shape, d.cmds, i - 1, vs)
    <3>1. ASSUME NEW j \in DOMAIN d.cmds,
                 \/ d.cmds[j].op = "AddShape" /\ j > i
                 \/ d.cmds[j].op = "RemoveShape" /\ j < i
          PROVE  f.shape[d.cmds[j].shape] = d.shape[d.cmds[j].shape]
      <4>1. d.cmds[j].shape \in ShapeIds
        BY <1>2 DEF Commands
      <4>2. d.cmds[j].shape # c.shape
        BY <1>1, <1>7, <3>1, PointNotKept, Zenon DEF c
      <4> QED
        BY <2>7, <4>1, <4>2
    <3> QED
      BY <1>1, <1>2, <1>3, <1>7, <3>1, KeptAcross, ZenonT(60) DEF c
  <2>9. c.shape \in Listed(d)
    <3>1. c.shape \in Ids(Content(d))
      BY <2>4, Zenon DEF Ids
    <3> QED
      BY <1>1, <2>4, <3>1, CanvasOfVersion, Zenon
  <2>10. Content(f) = vs[i]
    BY <1>3, <2>1, <2>3, <2>7, ZenonT(30) DEF x
  <2> QED
    BY <1>4, <1>7, <2>7, <2>8, <2>9, <2>10, SMTT(30)
<1>8. Good
  <2>1. c.op \in {"AddShape", "RemoveShape", "AddPoint"}
    BY <1>2 DEF Commands
  <2> QED
    BY <1>5, <1>6, <1>7, <2>1, ZenonT(30)
<1>9. e = [f EXCEPT !.idx = i - 1] /\ i - 1 \in Nat
  BY <1>1, <1>2 DEF UndoStep, f
<1>10. /\ e \in Documents
       /\ e.cmds = d.cmds
       /\ e.idx = i - 1
       /\ e.shape = f.shape
       /\ e.list = f.list
       /\ e.cur = f.cur
  BY <1>8, <1>9, Zenon DEF Documents
<1>11. Content(e) = vs[i]
  BY <1>8, <1>10 DEF Content
<1>12. Hist(Content(e), e.shape, e.cmds, e.idx, vs)
  <2>1. (i - 1) + 1 = i
    BY <1>2
  <2>2. Hist(vs[(i - 1) + 1], f.shape, d.cmds, i - 1, vs)
    BY <1>3, <1>8, HistMoves
  <2> QED
    BY <1>10, <1>11, <2>1, <2>2
<1>13. DocInv(e, vs)
  BY <1>8, <1>10, <1>12 DEF DocInv
<1>14. DocType(e, vs)
  BY <1>1, <1>2, <1>10 DEF DocType
<1> QED
  BY <1>8, <1>10, <1>11, <1>13, <1>14, ZenonT(30) DEF c

\* Redoing the first command that is undone shows the version after it.
LEMMA RedoMoves ==
  ASSUME NEW d, NEW vs, DocType(d, vs), DocInv(d, vs), CanRedo(d),
         NEW i, i = d.idx + 1, NEW e, e = RedoStep(d)
  PROVE  /\ DocType(e, vs) /\ DocInv(e, vs)
         /\ e.cmds = d.cmds
         /\ e.idx = i
         /\ Content(e) = vs[i + 1]
         /\ d.cmds[i].op = "RemoveShape" => FindsItsShape(d, d.cmds[i])
         /\ d.cmds[i].op = "AddPoint" => d.cmds[i].shape \in Listed(d)
<1> DEFINE c == d.cmds[i]
           f == RedoCommand(d, i)
<1>1. /\ d \in Documents /\ i \in DOMAIN d.cmds
      /\ vs \in Seq(Seq(Entries))
      /\ d.idx = i - 1
  BY SMTT(30) DEF DocType, Documents, CanRedo
<1>2. /\ i \in Nat /\ i >= 1 /\ i <= Len(d.cmds)
      /\ d.cmds \in Seq(Commands) /\ c \in Commands /\ c.shape \in ShapeIds
      /\ i \in DOMAIN vs /\ i + 1 \in DOMAIN vs
      /\ vs[i] \in Seq(Entries) /\ vs[i + 1] \in Seq(Entries)
      /\ VersionOK(vs[i]) /\ VersionOK(vs[i + 1])
      /\ Leads(vs[i], c, vs[i + 1])
  BY <1>1, AroundCommand, Zenon
<1>3. /\ Content(d) = vs[i]
      /\ Hist(Content(d), d.shape, d.cmds, d.idx, vs)
      /\ Kept(d.shape, d.cmds, i - 1, vs)
  <2>1. d.idx + 1 = i
    BY <1>1, <1>2
  <2> QED
    BY <1>1, <2>1 DEF DocInv, Hist
<1>4. d.cur = Len(d.list) - 1 /\ d.cur >= -1
  <2>1. d.cmds # <<>>
    BY <1>1, SMTT(30)
  <2> QED
    BY <2>1 DEF DocInv
\* What the command has to give, whichever kind it is.
<1> DEFINE Good == /\ f \in Documents
                   /\ f.cmds = d.cmds
                   /\ Content(f) = vs[i + 1]
                   /\ f.cur = Len(f.list) - 1
                   /\ f.cur >= -1
                   /\ Kept(f.shape, d.cmds, i, vs)
                   /\ c.op = "RemoveShape" => FindsItsShape(d, c)
                   /\ c.op = "AddPoint" => c.shape \in Listed(d)
<1> HIDE DEF c, f
<1>5. ASSUME c.op = "RemoveShape" PROVE Good
  <2>1. Grows(vs[i + 1], c, Content(d))
    BY <1>2, <1>3, <1>5 DEF Leads
  <2>2. f = DeleteShape(d, c.name)
    BY <1>5, Zenon DEF f, c, RedoCommand
  <2>3. /\ FindsItsShape(d, c)
        /\ f \in Documents
        /\ Content(f) = vs[i + 1]
        /\ f.shape = d.shape
        /\ f.cmds = d.cmds
        /\ f.cur = Len(f.list) - 1
        /\ f.cur >= -1
        /\ d.shape[c.shape] = Last(vs[i]).shape
    <3>1. SteppedBack(d, c, vs[i + 1], f)
      BY <1>1, <1>2, <1>3, <1>4, <2>1, <2>2, StepBack, ZenonT(30)
    <3> QED
      BY <1>3, <3>1, Zenon DEF SteppedBack
  <2>4. Kept(f.shape, d.cmds, i, vs)
    BY <1>1, <1>2, <1>3, <1>5, <2>3, KeptAcross, ZenonT(30) DEF c
  <2> QED
    BY <1>5, <2>3, <2>4, ZenonT(30)
<1>6. ASSUME c.op = "AddShape" PROVE Good
  <2>1. Grows(Content(d), c, vs[i + 1])
    BY <1>2, <1>3, <1>6, Zenon DEF Leads
  <2>2. f = AddAndRemember(d, i)
    BY <1>6, Zenon DEF f, c, RedoCommand
  <2>3. d.shape[c.shape] = Last(vs[i + 1]).shape
    <3>1. i \in DOMAIN d.cmds /\ i <= i /\ i > i - 1
      BY <1>1, <1>2, SMTT(30)
    <3> QED
      BY <1>3, <1>6, <3>1 DEF Kept, c
  <2>4. /\ f \in Documents
        /\ Content(f) = vs[i + 1]
        /\ f.shape = d.shape
        /\ f.cmds = d.cmds
        /\ f.cur = Len(f.list) - 1
        /\ f.cur >= -1
    BY <1>1, <1>2, <1>6, <2>1, <2>2, <2>3, StepAgain, Zenon DEF c
  <2>5. Kept(f.shape, d.cmds, i, vs)
    <3>1. i # i - 1
      BY <1>2
    <3> QED
      BY <1>1, <1>2, <1>3, <1>6, <2>4, <3>1, KeptAcross, ZenonT(30) DEF c
  <2> QED
    BY <1>6, <2>4, <2>5, Zenon
<1>7. ASSUME c.op = "AddPoint" PROVE Good
  <2>1. PICK k \in DOMAIN vs[i] :
          /\ vs[i][k].id = c.shape
          /\ c.name = Len(vs[i][k].shape.pts)
          /\ vs[i + 1] = Changed(vs[i], k, AppendPoint(vs[i][k].shape, c.point))
    BY <1>2, <1>7 DEF Leads
  <2>2. c.point \in Points
    BY <1>2, <1>7 DEF Commands
  <2>3. /\ vs[i][k].shape \in ShapeRecords
        /\ vs[i + 1][k].id = c.shape
        /\ vs[i + 1][k].shape = AppendPoint(vs[i][k].shape, c.point)
        /\ DOMAIN vs[i + 1] = DOMAIN vs[i]
        /\ DeletePoint(vs[i + 1][k].shape, c.name) = vs[i][k].shape
        /\ Changed(vs[i + 1], k, vs[i][k].shape) = vs[i]
    <3>1. PointAppended(vs[i], k, c.point, vs[i + 1])
      <4>1. vs[i] \in Seq(Entries)
        BY <1>2
      <4> QED
        BY <2>1, <2>2, <4>1, PointBack, Zenon
    <3> QED
      BY <2>1, <3>1, Zenon DEF PointAppended
  <2> DEFINE x == vs[i + 1][k].shape
  <2>4. /\ VersionOK(Content(d))
        /\ k \in DOMAIN Content(d)
        /\ c.shape = Content(d)[k].id
        /\ x \in ShapeRecords
    <3>1. x \in ShapeRecords
      <4>1. vs[i + 1][k] \in Entries
        BY <1>2, <2>3, SeqElement
      <4> QED
        BY <4>1, Zenon DEF Entries
    <3> QED
      BY <1>2, <1>3, <2>1, <2>3, <3>1, Zenon
  <2>5. d.shape[c.shape] = Content(d)[k].shape
    <3>1. ChangedObject(d, k, x, c.shape, SetShape(d, c.shape, x))
      BY <1>1, <2>4, ChangeAt, Zenon
    <3> QED
      BY <3>1, Zenon DEF ChangedObject
  <2> HIDE DEF x
  <2>6. f = SetShape(d, c.shape, x)
    <3> DEFINE n == Len(d.shape[c.shape].pts)
               y == AppendPoint(d.shape[c.shape], c.point)
    <3>1. f = [d EXCEPT !.shape[c.shape] = y, !.cmds[i] = [c EXCEPT !.name = n]]
      BY <1>7, ZenonT(30) DEF f, c, RedoCommand
    <3>2. y = x
      BY <1>3, <2>3, <2>5, SMTT(30) DEF x
    <3>3. n = c.name
      BY <1>3, <2>1, <2>5
    <3> HIDE DEF n, y
    <3>4. [c EXCEPT !.name = n] = c
      BY <1>2, <1>7, <3>3, ZenonT(30) DEF Commands
    <3>5. [d.cmds EXCEPT ![i] = c] = d.cmds
      <4>1. d.cmds \in [1 .. Len(d.cmds) -> Commands]
        BY <1>2, SeqLen
      <4> QED
        BY <4>1 DEF c
    <3>6. f = [d EXCEPT !.shape[c.shape] = x, !.cmds = d.cmds]
      BY <3>1, <3>2, <3>4, <3>5, ZenonT(30)
    <3> QED
      BY <1>1, <3>6, ZenonT(30) DEF SetShape, Documents
  <2>7. /\ f \in Documents
        /\ Content(f) = Changed(Content(d), k, x)
        /\ \A t \in ShapeIds \ {c.shape} : f.shape[t] = d.shape[t]
        /\ f.list = d.list
        /\ f.cmds = d.cmds
        /\ f.cur = d.cur
    <3>1. ChangedObject(d, k, x, c.shape, f)
      BY <1>1, <2>4, <2>6, ChangeAt, Zenon
    <3> QED
      BY <3>1, Zenon DEF ChangedObject
  <2>8. Kept(f.shape, d.cmds, i, vs)
    <3>1. ASSUME NEW j \in DOMAIN d.cmds,
                 \/ d.cmds[j].op = "AddShape" /\ j > i
                 \/ d.cmds[j].op = "RemoveShape" /\ j < i
          PROVE  f.shape[d.cmds[j].shape] = d.shape[d.cmds[j].shape]
      <4>1. d.cmds[j].shape \in ShapeIds
        BY <1>2 DEF Commands
      <4>2. d.cmds[j].shape # c.shape
        BY <1>1, <1>7, <3>1, PointNotKept, Zenon DEF c
      <4> QED
        BY <2>7, <4>1, <4>2, ZenonT(30)
    <3> QED
      BY <1>1, <1>2, <1>3, <1>7, <3>1, KeptAcross, ZenonT(30) DEF c
  <2>9. c.shape \in Listed(d)
    <3>1. c.shape \in Ids(Content(d))
      BY <2>4, Zenon DEF Ids
    <3> QED
      BY <1>1, <2>4, <3>1, CanvasOfVersion, Zenon
  <2>10. Content(f) = vs[i + 1]
    BY <1>3, <2>1, <2>3, <2>7, ZenonT(30) DEF x
  <2> QED
    BY <1>4, <1>7, <2>7, <2>8, <2>9, <2>10, SMTT(30)
<1>8. Good
  <2>1. c.op \in {"AddShape", "RemoveShape", "AddPoint"}
    BY <1>2 DEF Commands
  <2> QED
    BY <1>5, <1>6, <1>7, <2>1, SMTT(30)
<1>9. e = [f EXCEPT !.idx = i] /\ i \in Nat
  BY <1>1, <1>2 DEF RedoStep, f
<1>10. /\ e \in Documents
       /\ e.cmds = d.cmds
       /\ e.idx = i
       /\ e.shape = f.shape
       /\ e.list = f.list
       /\ e.cur = f.cur
  BY <1>8, <1>9, SMTT(30) DEF Documents
<1>11. Content(e) = vs[i + 1]
  BY <1>8, <1>10 DEF Content
<1>12. Hist(Content(e), e.shape, e.cmds, e.idx, vs)
  <2>1. (i - 1) + 1 = i
    BY <1>2
  <2>2. Hist(vs[i + 1], f.shape, d.cmds, i, vs)
    BY <1>3, <1>8, HistMoves, Zenon
  <2> QED
    BY <1>10, <1>11, <2>1, <2>2
<1>13. DocInv(e, vs)
  BY <1>8, <1>10, <1>12 DEF DocInv
<1>14. DocType(e, vs)
  BY <1>1, <1>2, <1>10, Zenon DEF DocType
<1> QED
  BY <1>8, <1>10, <1>11, <1>13, <1>14 DEF c

-----------------------------------------------------------------------------
(* The inductive invariant.                                                *)

Inv == TypeOK /\ HistoryInv

\* The parts of the invariant the steps below use.
LEMMA InvParts ==
  ASSUME Inv
  PROVE  /\ DocType(doc, versions) /\ DocInv(doc, versions)
         /\ doc \in Documents /\ doc.idx \in Nat /\ doc.cur >= -1
         /\ drawMode \in DrawModes
         /\ pending \in Seq(FileShapes)
         /\ pending # <<>> => doc.cmds = <<>>
BY Zenon DEF Inv, TypeOK, HistoryInv, DocType, DocInv, Documents

\* A step gives the invariant again when it gives its parts.
LEMMA InvAgain ==
  ASSUME DocType(doc', versions'), DocInv(doc', versions'),
         drawMode' \in DrawModes, pending' \in Seq(FileShapes),
         fault' \in {"none", "uncaught", "outOfRange"},
         pending' # <<>> => doc'.cmds = <<>>
  PROVE  Inv'
BY DEF Inv, TypeOK, HistoryInv, DocType, DocInv

\* The invariant on an empty canvas.
LEMMA InitInv == Init => Inv
<1> SUFFICES ASSUME Init PROVE Inv
  OBVIOUS
<1>1. doc = [image |-> FALSE, list |-> <<>>, cur |-> -1, shape |-> NoObjects,
             cmds |-> <<>>, idx |-> 0]
  BY DEF Init, EmptyDocument
<1>2. doc \in Documents
  <2>1. FALSE \in BOOLEAN /\ -1 \in Int
    OBVIOUS
  <2>2. [image |-> FALSE, list |-> <<>>, cur |-> -1, shape |-> NoObjects,
         cmds |-> <<>>, idx |-> 0] \in Documents
    BY <2>1, CleanType, Zenon
  <2> QED
    BY <1>1, <2>2
<1>3. doc.list = <<>> /\ doc.cmds = <<>> /\ doc.idx = 0 /\ doc.cur = -1
  BY <1>1
<1>4. Content(doc) = <<>>
  BY <1>3 DEF Content
<1>5. VersionOK(Content(doc))
  BY <1>4 DEF VersionOK
<1>6. DocType(doc, versions) /\ DocInv(doc, versions)
  <2>1. versions = <<Content(doc)>>
    BY <1>4 DEF Init
  <2> QED
    BY <1>2, <1>3, <1>5, <2>1, FreshHistory
<1>7. /\ drawMode \in DrawModes /\ pending = <<>> /\ fault = "none"
      /\ pending \in Seq(FileShapes)
  BY DEF Init, DrawModes
<1> QED
  BY <1>6, <1>7 DEF Inv, TypeOK, HistoryInv, DocType, DocInv

\* What an edit does to the history variable, and the step of LinearHistory
\* that it is.
LEMMA EditStep ==
  ASSUME Inv, doc'.idx = doc.idx + 1, RecordEdit
  PROVE  versions' = Branch(versions, doc.idx, Content(doc'))
<1>1. doc.idx \in Nat
  BY InvParts
<1>2. doc'.idx # doc.idx
  BY <1>1, SMTT(30)
<1> QED
  BY <1>2, ZenonT(30) DEF RecordEdit, Branch

\* The steps that edit, with all they change.
LEMMA NewAnnotationStep ==
  ASSUME Inv, NewAnnotation
  PROVE  Inv' /\ doc'.idx = doc.idx + 1
<1>1. PICK s \in ShapeIds \ Referenced(doc) : doc' = PushAddShape(doc, s, drawMode)
  BY Zenon DEF NewAnnotation
<1>2. DocType(doc, versions) /\ DocInv(doc, versions) /\ drawMode \in DrawModes
  BY InvParts
<1> DEFINE us == Branch(versions, doc.idx, Content(doc'))
<1>3. DocType(doc', us) /\ DocInv(doc', us) /\ doc'.idx = doc.idx + 1
  BY <1>1, <1>2, ShapeKeeps
<1>4. versions' = us
  BY <1>3, EditStep DEF NewAnnotation
<1>5. /\ drawMode' \in DrawModes /\ pending' \in Seq(FileShapes) /\ pending' = <<>>
      /\ fault' = "none"
  BY <1>2, InvParts DEF NewAnnotation, Running
<1> QED
  BY <1>3, <1>4, <1>5, InvAgain

\* AddPoint makes the next version, or nothing.
LEMMA NewPointStep ==
  ASSUME Inv, NewPoint
  PROVE  Inv' /\ (doc'.idx = doc.idx + 1 \/ (doc' = doc /\ versions' = versions))
<1>1. PICK p \in Points : doc' = PushAddPoint(doc, p)
  BY DEF NewPoint
<1>2. DocType(doc, versions) /\ DocInv(doc, versions) /\ CurrentInRange(doc)
  BY InvParts DEF NewPoint
<1>3. /\ drawMode' \in DrawModes /\ pending' \in Seq(FileShapes) /\ pending' = <<>>
      /\ fault' = "none"
  BY InvParts DEF NewPoint, Running
<1>4. CASE doc' = doc
  <2>1. versions' = versions
    BY <1>4 DEF NewPoint, RecordEdit
  <2> QED
    BY <1>2, <1>3, <1>4, <2>1, InvAgain
<1>5. CASE doc' # doc
  <2> DEFINE us == Branch(versions, doc.idx, Content(doc'))
  <2>1. DocType(doc', us) /\ DocInv(doc', us) /\ doc'.idx = doc.idx + 1
    BY <1>1, <1>2, <1>5, PointKeeps
  <2>2. versions' = us
    BY <2>1, EditStep DEF NewPoint
  <2> QED
    BY <1>3, <2>1, <2>2, InvAgain
<1> QED
  BY <1>4, <1>5

\* RemoveShape makes the next version, or nothing.
LEMMA RemoveAnnotationStep ==
  ASSUME Inv, RemoveAnnotation
  PROVE  Inv' /\ (doc'.idx = doc.idx + 1 \/ (doc' = doc /\ versions' = versions))
<1>1. doc' = PushRemoveShape(doc)
  BY DEF RemoveAnnotation
<1>2. DocType(doc, versions) /\ DocInv(doc, versions) /\ CurrentInRange(doc)
  BY InvParts, Zenon DEF RemoveAnnotation
<1>3. /\ drawMode' \in DrawModes /\ pending' \in Seq(FileShapes) /\ pending' = <<>>
      /\ fault' = "none"
  BY InvParts, Zenon DEF RemoveAnnotation, Running
<1>4. CASE doc' = doc
  <2>1. versions' = versions
    BY <1>4, Zenon DEF RemoveAnnotation, RecordEdit
  <2> QED
    BY <1>2, <1>3, <1>4, <2>1, InvAgain
<1>5. CASE doc' # doc
  <2> DEFINE us == Branch(versions, doc.idx, Content(doc'))
  <2>1. DocType(doc', us) /\ DocInv(doc', us) /\ doc'.idx = doc.idx + 1
    BY <1>1, <1>2, <1>5, RemoveKeeps
  <2>2. versions' = us
    BY <2>1, EditStep DEF RemoveAnnotation
  <2> QED
    BY <1>3, <2>1, <2>2, InvAgain, SMTT(30)
<1> QED
  BY <1>4, <1>5

\* Undo shows the version before.
LEMMA UndoInv ==
  ASSUME Inv, Undo
  PROVE  Inv' /\ doc'.idx = doc.idx - 1 /\ Content(doc') = versions[doc.idx]
<1>1. DocType(doc, versions) /\ DocInv(doc, versions)
  BY InvParts
<1>2. CanUndo(doc) /\ doc' = UndoStep(doc) /\ versions' = versions
  BY Zenon DEF Undo
<1>3. /\ DocType(doc', versions) /\ DocInv(doc', versions)
      /\ doc'.idx = doc.idx - 1
      /\ Content(doc') = versions[doc.idx]
  BY <1>1, <1>2, UndoMoves
<1>4. /\ drawMode' \in DrawModes /\ pending' \in Seq(FileShapes) /\ pending' = <<>>
      /\ fault' = "none"
  BY InvParts, Zenon DEF Undo, Running
<1> QED
  BY <1>2, <1>3, <1>4, InvAgain

\* Redo shows the version after.
LEMMA RedoInv ==
  ASSUME Inv, Redo
  PROVE  Inv' /\ doc'.idx = doc.idx + 1 /\ Content(doc') = versions[doc.idx + 2]
<1>1. DocType(doc, versions) /\ DocInv(doc, versions) /\ doc.idx \in Nat
  BY InvParts
<1>2. CanRedo(doc) /\ doc' = RedoStep(doc) /\ versions' = versions
  BY DEF Redo
<1> DEFINE i == doc.idx + 1
<1>3. i + 1 = doc.idx + 2
  BY <1>1, SMTT(30)
<1> HIDE DEF i
<1>4. /\ DocType(doc', versions) /\ DocInv(doc', versions)
      /\ doc'.idx = i
      /\ Content(doc') = versions[i + 1]
  BY <1>1, <1>2, RedoMoves, SMTT(30) DEF i
<1>5. /\ drawMode' \in DrawModes /\ pending' \in Seq(FileShapes) /\ pending' = <<>>
      /\ fault' = "none"
  BY InvParts DEF Redo, Running
<1>6. Inv'
  BY <1>2, <1>4, <1>5, InvAgain, Zenon
<1> QED
  BY <1>3, <1>4, <1>6, Zenon DEF i

\* openFile up to its loop, and a round of the loop.
LEMMA OpenStep ==
  ASSUME Inv, OpenNothing \/ OpenImage \/ OpenLabels \/ LoadShape
  PROVE  /\ Inv'
         /\ doc'.idx = 0
         /\ versions' = <<Content(doc')>>
<1>1. /\ DocType(doc, versions) /\ DocInv(doc, versions)
      /\ doc \in Documents /\ doc.cur >= -1
      /\ drawMode \in DrawModes /\ pending \in Seq(FileShapes)
      /\ pending # <<>> => doc.cmds = <<>>
  BY InvParts
<1>2. versions' = <<Content(doc')>>
  BY DEF OpenNothing, OpenImage, OpenLabels, LoadShape, RecordOpen
<1>3. drawMode' \in DrawModes /\ fault' \in {"none", "uncaught", "outOfRange"}
  BY <1>1 DEF OpenNothing, OpenImage, OpenLabels, LoadShape, Running
<1>4. pending' \in Seq(FileShapes)
  <2>1. CASE OpenNothing \/ OpenImage
    BY <1>1, <2>1 DEF OpenNothing, OpenImage
  <2>2. CASE OpenLabels
    BY <2>2, DocumentAssumption, Zenon DEF OpenLabels
  <2>3. CASE LoadShape
    BY <1>1, <2>3 DEF LoadShape
  <2> QED
    BY <2>1, <2>2, <2>3
<1>5. /\ DocType(doc', versions') /\ DocInv(doc', versions')
      /\ doc'.cmds = <<>> /\ doc'.idx = 0
  <2>1. CASE OpenNothing
    <3>1. doc' = [Clean(doc) EXCEPT !.image = FALSE]
      BY <2>1, CleanHasNoImage DEF OpenNothing
    <3>2. FALSE \in BOOLEAN
      OBVIOUS
    <3> QED
      BY <1>1, <1>2, <3>1, <3>2, CleanKeeps, ZenonT(30)
  <2>2. CASE OpenImage \/ OpenLabels
    <3>1. doc' = [Clean(doc) EXCEPT !.image = TRUE]
      BY <2>2 DEF OpenImage, OpenLabels
    <3>2. TRUE \in BOOLEAN
      BY Zenon
    <3> QED
      BY <1>1, <1>2, <3>1, <3>2, CleanKeeps, ZenonT(30)
  <2>3. CASE LoadShape
    <3>1. PICK s \in ShapeIds \ Referenced(doc) :
            doc' = AddLoaded(doc, s, drawMode, Head(pending))
      BY <2>3, Zenon DEF LoadShape
    <3>2. doc.cmds = <<>> /\ Head(pending) \in FileShapes
      BY <1>1, <2>3, SMTT(30) DEF LoadShape
    <3> QED
      BY <1>1, <1>2, <3>1, <3>2, LoadKeeps
  <2> QED
    BY <2>1, <2>2, <2>3, Zenon
<1>6. Inv'
  BY <1>3, <1>4, <1>5, InvAgain, SMTT(30)
<1> QED
  BY <1>2, <1>5, <1>6, SMTT(30)

\* Steps that leave the document and its history alone.
LEMMA QuietStep ==
  ASSUME Inv,
         \/ NewAnnotationWithoutImage \/ ReadStaleCurrent \/ ChangeDrawMode
         \/ UNCHANGED vars
  PROVE  Inv' /\ doc' = doc /\ versions' = versions
<1>1. doc' = doc /\ versions' = versions /\ pending' = pending
  BY DEF NewAnnotationWithoutImage, ReadStaleCurrent, ChangeDrawMode, vars
<1>2. /\ drawMode' \in DrawModes
      /\ fault' \in {"none", "uncaught", "outOfRange"}
  BY DocumentAssumption, Zenon DEF Inv, TypeOK, NewAnnotationWithoutImage,
     ReadStaleCurrent, ChangeDrawMode, Running, vars
<1>3. DocType(doc, versions) /\ DocInv(doc, versions)
      /\ pending \in Seq(FileShapes) /\ (pending # <<>> => doc.cmds = <<>>)
  BY InvParts
<1> QED
  BY <1>1, <1>2, <1>3, InvAgain

\* Every step keeps the invariant.
LEMMA NextInv == Inv /\ [Next]_vars => Inv'
<1> SUFFICES ASSUME Inv, [Next]_vars PROVE Inv'
  OBVIOUS
<1>1. CASE NewAnnotation
  BY <1>1, NewAnnotationStep
<1>2. CASE NewPoint
  BY <1>2, NewPointStep
<1>3. CASE RemoveAnnotation
  BY <1>3, RemoveAnnotationStep
<1>4. CASE Undo
  BY <1>4, UndoInv
<1>5. CASE Redo
  BY <1>5, RedoInv
<1>6. CASE OpenNothing \/ OpenImage \/ OpenLabels \/ LoadShape
  BY <1>6, OpenStep
<1>7. CASE \/ NewAnnotationWithoutImage \/ ReadStaleCurrent \/ ChangeDrawMode
           \/ UNCHANGED vars
  BY <1>7, QuietStep
<1> QED
  BY <1>1, <1>2, <1>3, <1>4, <1>5, <1>6, <1>7, SMTT(30) DEF Next

\* The invariant holds throughout.
LEMMA Invariance == Spec => []Inv
BY InitInv, NextInv, PTL DEF Spec

-----------------------------------------------------------------------------
(* The theorems.                                                           *)

\* Every document, whatever edits, undo, redo and opening led to it, is a
\* list of shape objects with an undo stack whose index lies on the stack.
THEOREM TypeCorrect == Spec => []TypeOK
<1>1. Inv => TypeOK
  BY DEF Inv
<1> QED
  BY <1>1, Invariance, PTL

\* The commands of the undo stack lead from version to version and the shapes
\* off the canvas wait unchanged, for any number of shapes and commands.
THEOREM HistoryKept == Spec => []HistoryInv
<1>1. Inv => HistoryInv
  BY Zenon DEF Inv
<1> QED
  BY <1>1, Invariance, PTL

\* uniqueName() keeps the names on the canvas distinct through undo, redo and
\* loading, so that indexOf() finds the shape that is meant.
THEOREM NamesStayDistinct == Spec => []NamesDistinct
<1>1. Inv => NamesDistinct
  BY InvParts, CanvasFacts, ZenonT(30) DEF NamesDistinct
<1> QED
  BY <1>1, Invariance, PTL

\* No shape object is ever on the canvas twice.
THEOREM ShapesStayDistinct == Spec => []ShapesDistinct
<1>1. Inv => ShapesDistinct
  BY InvParts, CanvasFacts, CanvasOfVersion, ZenonT(30) DEF ShapesDistinct
<1> QED
  BY <1>1, Invariance, PTL

\* The name an AddShapeCommand or RemoveShapeCommand remembers finds its shape
\* whenever undo or redo needs it.
THEOREM CommandsFindTheirShapes == Spec => []CommandFindsItsShape
<1>1. ASSUME Inv PROVE CommandFindsItsShape
  <2>1. DocType(doc, versions) /\ DocInv(doc, versions)
    BY <1>1, InvParts, Zenon
  <2>2. CanUndo(doc) /\ doc.cmds[doc.idx].op = "AddShape" =>
          FindsItsShape(doc, doc.cmds[doc.idx])
    BY <2>1, UndoMoves, Zenon
  <2>3. CanRedo(doc) /\ doc.cmds[doc.idx + 1].op = "RemoveShape" =>
          FindsItsShape(doc, doc.cmds[doc.idx + 1])
    <3> DEFINE i == doc.idx + 1
    <3>1. i = doc.idx + 1
      BY Zenon
    <3> HIDE DEF i
    <3>2. CanRedo(doc) /\ doc.cmds[i].op = "RemoveShape" =>
            FindsItsShape(doc, doc.cmds[i])
      BY <2>1, <3>1, RedoMoves, SMTT(30)
    <3> QED
      BY <3>1, <3>2
  <2> QED
    BY <2>2, <2>3, Zenon DEF CommandFindsItsShape, CommandsResolve
<1> QED
  BY <1>1, Invariance, PTL

\* m_currentIndex is the newest shape as long as there is one.
THEOREM NewestStaysCurrent == Spec => []CurrentIsNewest
<1>1. Inv => CurrentIsNewest
  BY InvParts, CanvasFacts DEF CurrentIsNewest, NewestIsCurrent
<1> QED
  BY <1>1, Invariance, PTL

\* Undo and redo of a point edit a shape that is on the canvas.
THEOREM PointCommandsStayOnCanvas == Spec => []PointCommandOnCanvas
<1>1. ASSUME Inv PROVE PointCommandOnCanvas
  <2>1. DocType(doc, versions) /\ DocInv(doc, versions)
    BY <1>1, InvParts
  <2>2. CanUndo(doc) /\ doc.cmds[doc.idx].op = "AddPoint" =>
          doc.cmds[doc.idx].shape \in Listed(doc)
    BY <2>1, UndoMoves, Zenon
  <2>3. CanRedo(doc) /\ doc.cmds[doc.idx + 1].op = "AddPoint" =>
          doc.cmds[doc.idx + 1].shape \in Listed(doc)
    <3> DEFINE i == doc.idx + 1
    <3>1. i = doc.idx + 1
      OBVIOUS
    <3> HIDE DEF i
    <3>2. CanRedo(doc) /\ doc.cmds[i].op = "AddPoint" =>
            doc.cmds[i].shape \in Listed(doc)
      BY <2>1, <3>1, RedoMoves, Zenon
    <3> QED
      BY <3>1, <3>2, Zenon
  <2> QED
    BY <2>2, <2>3, Zenon DEF PointCommandOnCanvas
<1> QED
  BY <1>1, Invariance, PTL

-----------------------------------------------------------------------------
(* The document implements the linear history.                             *)

\* An empty canvas is an empty history.
LEMMA HistoryInit == Init => History!Init
<1> SUFFICES ASSUME Init PROVE History!Init
  OBVIOUS
<1>1. doc.list = <<>> /\ doc.idx = 0
  BY Zenon DEF Init, EmptyDocument
<1>2. Content(doc) = <<>> /\ Content(doc) \in Seq(Entries)
  BY <1>1 DEF Content
<1> QED
  BY <1>1, <1>2, Zenon DEF Init, History!Init

\* Every step is a step of the history, or a stutter.
LEMMA HistoryStep == Inv /\ [Next]_vars => [History!Next]_(History!vars)
<1> SUFFICES ASSUME Inv, [Next]_vars
             PROVE  \/ History!Edit \/ History!Undo \/ History!Redo
                    \/ History!Open
                    \/ UNCHANGED <<Content(doc), versions, doc.idx>>
  BY DEF History!Next, History!vars
<1>1. Inv' => Content(doc') \in Seq(Entries)
  BY ContentType DEF Inv, TypeOK
<1>2. ASSUME Inv', doc'.idx = doc.idx + 1, RecordEdit PROVE History!Edit
  <2>1. versions' = Branch(versions, doc.idx, Content(doc'))
    BY <1>2, EditStep, Zenon
  <2> QED
    BY <1>1, <1>2, <2>1 DEF History!Edit, Branch
<1>3. CASE NewAnnotation
  BY <1>2, <1>3, NewAnnotationStep, Zenon DEF NewAnnotation
<1>4. CASE NewPoint
  BY <1>2, <1>4, NewPointStep, Zenon DEF NewPoint
<1>5. CASE RemoveAnnotation
  BY <1>2, <1>5, RemoveAnnotationStep, SMTT(30) DEF RemoveAnnotation
<1>6. CASE Undo
  BY <1>6, UndoInv DEF Undo, CanUndo, History!Undo
<1>7. CASE Redo
  <2>1. doc.idx + 1 < Len(versions)
    <3>1. Len(versions) = Len(doc.cmds) + 1 /\ doc.idx \in Nat
      BY InvParts, Zenon DEF DocInv, Hist
    <3>2. doc.idx < Len(doc.cmds) /\ Len(doc.cmds) \in Nat
      BY <1>7, InvParts DEF Redo, CanRedo, Documents
    <3> QED
      BY <3>1, <3>2
  <2> QED
    BY <1>7, <2>1, RedoInv DEF Redo, History!Redo
<1>8. CASE OpenNothing \/ OpenImage \/ OpenLabels \/ LoadShape
  BY <1>1, <1>8, OpenStep, Zenon DEF History!Open
<1>9. CASE \/ NewAnnotationWithoutImage \/ ReadStaleCurrent \/ ChangeDrawMode
           \/ UNCHANGED vars
  BY <1>9, QuietStep, Zenon
<1> QED
  BY <1>3, <1>4, <1>5, <1>6, <1>7, <1>8, <1>9, SMTT(30) DEF Next

\* Undo and redo show exactly the documents that were there before: the
\* document with its undo stack implements LinearHistory, for any number of
\* shapes, points and commands.
THEOREM UndoIsLinear == Spec => LinearUndo
BY HistoryInit, HistoryStep, Invariance, PTL DEF Spec, LinearUndo, History!Spec
=============================================================================
