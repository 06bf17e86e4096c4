-------------------------- MODULE CanvasBaseProofs --------------------------
(***************************************************************************)
(* Facts about the operators of CanvasBase: what a unique name is, and     *)
(* what adding, deleting and extending a shape do to the document.         *)
(***************************************************************************)
EXTENDS CanvasBase, FiniteSetTheorems, TLAPS

-----------------------------------------------------------------------------
(* Sequences.  The provers know them; these facts keep the steps small.    *)

\* An element.
LEMMA SeqElement ==
  ASSUME NEW T, NEW s \in Seq(T), NEW k \in 1 .. Len(s)
  PROVE  s[k] \in T
OBVIOUS

\* A sequence as a function.
LEMMA SeqLen ==
  ASSUME NEW T, NEW s \in Seq(T)
  PROVE  Len(s) \in Nat /\ DOMAIN s = 1 .. Len(s) /\ s \in [1 .. Len(s) -> T]
OBVIOUS

\* The sequence without elements.
LEMMA SeqEmpty ==
  ASSUME NEW T
  PROVE  /\ Len(<<>>) = 0 /\ <<>> \in Seq(T)
         /\ \A s \in Seq(T) : s # <<>> => Len(s) \in Nat \ {0}
OBVIOUS

\* Two sequences with the same elements are one.
LEMMA SeqSame ==
  ASSUME NEW T, NEW s \in Seq(T), NEW r \in Seq(T), Len(r) = Len(s),
         \A k \in 1 .. Len(s) : s[k] = r[k]
  PROVE  s = r
OBVIOUS

\* An element more.
LEMMA SeqAppend ==
  ASSUME NEW T, NEW s \in Seq(T), NEW x \in T
  PROVE  /\ Append(s, x) \in Seq(T) /\ Append(s, x) # <<>>
         /\ Len(Append(s, x)) = Len(s) + 1 /\ Append(s, x)[Len(s) + 1] = x
         /\ \A k \in 1 .. Len(s) : Append(s, x)[k] = s[k]
OBVIOUS

\* A part of a sequence.
LEMMA SeqPart ==
  ASSUME NEW T, NEW s, NEW a \in Int, NEW b \in Int, \A k \in a .. b : s[k] \in T
  PROVE  /\ SubSeq(s, a, b) \in Seq(T)
         /\ Len(SubSeq(s, a, b)) = IF a <= b THEN b - a + 1 ELSE 0
         /\ \A k \in 1 .. b - a + 1 : SubSeq(s, a, b)[k] = s[a + k - 1]
OBVIOUS

\* A part with no elements.
LEMMA SeqNoPart ==
  ASSUME NEW s, NEW a \in Int, NEW b \in Int, b < a
  PROVE  SubSeq(s, a, b) = <<>>
OBVIOUS

\* Nothing put before or after it.
LEMMA SeqConcatEmpty ==
  ASSUME NEW T, NEW s \in Seq(T)
  PROVE  <<>> \o s = s /\ s \o <<>> = s
OBVIOUS

-----------------------------------------------------------------------------
(* Names.                                                                  *)

\* Min() of a non-empty set of natural numbers is its least element.
LEMMA MinIsLeast ==
  ASSUME NEW S \in SUBSET Nat, S # {}
  PROVE  Min(S) \in S /\ \A n \in S : Min(S) <= n
<1> DEFINE R == {ss \in Nat \X Nat : ss[1] < ss[2]}
<1>1. IsWellFoundedOn(R, Nat)
  BY NatLessThanWellFounded DEF OpToRel
<1>2. \E x \in S : \A y \in S : ~(<<y, x>> \in R)
  <2> HIDE DEF R
  <2> QED BY <1>1, WFMin, Zenon
<1>3. PICK x \in S : \A y \in S : ~(<<y, x>> \in R)
  BY <1>2
<1>4. ASSUME NEW y \in S PROVE x =< y
  <2>1. ~(<<y, x>> \in R)
    BY <1>3
  <2> QED
    BY <2>1
<1> QED
  BY <1>4, Zenon DEF Min

\* The least of one number.
LEMMA MinOfOne ==
  ASSUME NEW n \in Nat
  PROVE  Min({n}) = n
<1>1. {n} \in SUBSET Nat /\ {n} # {}
  OBVIOUS
<1>2. Min({n}) \in {n}
  BY <1>1, MinIsLeast
<1> QED
  BY <1>2

\* CanvasBase::uniqueName: the loop ends, and the name it ends with is free.
\* Otherwise all of the first Cardinality(taken) + 1 names would be taken.
THEOREM UniqueNameIsFree ==
  ASSUME NEW taken, IsFiniteSet(taken), NEW text
  PROVE  /\ UniqueName(taken, text) \in {text} \X Nat
         /\ UniqueName(taken, text) \notin taken
<1> DEFINE n == Cardinality(taken)
           free == {i \in 0 .. n : <<text, i>> \notin taken}
<1>1. n \in Nat
  BY FS_CardinalityType
<1>2. free # {}
  <2>1. SUFFICES ASSUME free = {} PROVE FALSE
    OBVIOUS
  <2> DEFINE f == [i \in 0 .. n |-> <<text, i>>]
  <2>2. f \in [0 .. n -> taken]
    BY <2>1
  <2>3. IsFiniteSet(0 .. n) /\ Cardinality(0 .. n) = n + 1
    BY <1>1, FS_Interval
  <2>4. \E x, y \in 0 .. n : x # y /\ f[x] = f[y]
    <3> HIDE DEF f
    <3> QED BY <1>1, <2>2, <2>3, FS_PigeonHole
  <2> QED
    BY <2>4
<1>3. UniqueName(taken, text) = <<text, Min(free)>>
  BY DEF UniqueName
<1>4. free \in SUBSET Nat
  <2> HIDE DEF n
  <2> QED BY <1>1
<1>5. Min(free) \in free
  <2> HIDE DEF free
  <2> QED BY <1>2, <1>4, MinIsLeast
<1>6. Min(free) \in Nat /\ <<text, Min(free)>> \notin taken
  <2> DEFINE m == Min(free)
  <2>1. m \in free /\ m \in Nat
    BY <1>4, <1>5
  <2> HIDE DEF m
  <2>2. <<text, m>> \notin taken
    BY <2>1
  <2> QED
    BY <2>1, <2>2 DEF m
<1> HIDE DEF free
<1> QED
  BY <1>3, <1>6

\* typeToString of a draw mode is the text of a name.
LEMMA NameText ==
  ASSUME NEW type \in DrawModes, NEW n \in Nat
  PROVE  <<TypeToString(type), n>> \in Names
BY DEF Names

\* The name of an object before addShape() is a name.
LEMMA EmptyNameType == EmptyName \in Names
<1>1. TypeToString("Polyline") = "" /\ "Polyline" \in DrawModes
  BY DEF TypeToString, DrawModes
<1> QED
  BY <1>1, NameText, Zenon DEF EmptyName

\* The set of names uniqueName() compares with is finite.
LEMMA ListedNamesFinite ==
  ASSUME NEW d \in Documents
  PROVE  IsFiniteSet(ListedNames(d))
<1> DEFINE n == Len(d.list)
           f == [i \in 1 .. n |-> d.shape[d.list[i]].name]
<1>1. d.list \in Seq(ShapeIds) /\ n \in Nat /\ DOMAIN d.list = 1 .. n
  BY DEF Documents
<1>2. f \in Surjection(1 .. n, ListedNames(d))
  BY <1>1 DEF Surjection, ListedNames, Listed
<1>3. IsFiniteSet(1 .. n)
  BY <1>1, FS_Interval
<1> HIDE DEF f
<1> QED
  BY <1>2, <1>3, FS_Surjection

-----------------------------------------------------------------------------
(* The operations on the list.                                             *)

\* A new object is a shape.
LEMMA NewShapeType ==
  ASSUME NEW type \in DrawModes
  PROVE  NewShape(type) \in ShapeRecords
BY EmptyNameType DEF NewShape, ShapeRecords

\* A shape from a file is a shape.
LEMMA LoadedShapeType ==
  ASSUME NEW type \in DrawModes, NEW f \in FileShapes
  PROVE  LoadedShape(type, f) \in ShapeRecords
<1> DEFINE l == IF f.label = NoLabel THEN UnknownLabel ELSE f.label
<1>1. l \in Labels \cup {NoLabel, UnknownLabel} /\ f.pts \in Seq(Points)
  BY DEF FileShapes
<1>2. LoadedShape(type, f) =
        [NewShape(type) EXCEPT !.pts = f.pts, !.closed = TRUE, !.label = l]
  BY DEF LoadedShape
<1> HIDE DEF l
<1> QED
  BY <1>1, <1>2, NewShapeType, Zenon DEF ShapeRecords

\* The name addShape() gives shape s of document d.
NextName(d, s) == UniqueName(ListedNames(d), TypeToString(d.shape[s].type))

\* uniqueName() returns a name that no shape in the list has.
LEMMA NextNameIsFree ==
  ASSUME NEW d \in Documents, NEW s \in ShapeIds
  PROVE  NextName(d, s) \in Names /\ NextName(d, s) \notin ListedNames(d)
<1> DEFINE text == TypeToString(d.shape[s].type)
           u == UniqueName(ListedNames(d), text)
<1>1. u \in {text} \X Nat /\ u \notin ListedNames(d)
  BY ListedNamesFinite, UniqueNameIsFree
<1>2. d.shape[s].type \in DrawModes
  BY DEF Documents, ShapeRecords
<1>3. u \in Names
  <2> HIDE DEF u
  <2>1. PICK n \in Nat : u = <<text, n>>
    BY <1>1
  <2> QED
    BY <1>2, <2>1, NameText
<1> QED
  BY <1>1, <1>3 DEF NextName

\* CanvasBase::addShape appends the shape under a free name.
LEMMA AddShapeType ==
  ASSUME NEW d \in Documents, NEW s \in ShapeIds
  PROVE  /\ AddShape(d, s) \in Documents
         /\ AddShape(d, s).image = d.image
         /\ AddShape(d, s).list = Append(d.list, s)
         /\ AddShape(d, s).cur = Len(d.list)
         /\ AddShape(d, s).shape =
              [d.shape EXCEPT ![s] = [d.shape[s] EXCEPT !.name = NextName(d, s)]]
         /\ AddShape(d, s).cmds = d.cmds
         /\ AddShape(d, s).idx = d.idx
<1> DEFINE x == [d.shape[s] EXCEPT !.name = NextName(d, s)]
<1>1. AddShape(d, s) =
        [d EXCEPT !.list  = Append(d.list, s),
                  !.shape = [d.shape EXCEPT ![s] = x],
                  !.cur   = Len(d.list)]
  BY DEF AddShape, NextName, Documents
<1>2. NextName(d, s) \in Names
  BY NextNameIsFree
<1>3. x \in ShapeRecords
  BY <1>2, ZenonT(30) DEF Documents, ShapeRecords
<1> HIDE DEF x
<1>4. /\ Append(d.list, s) \in Seq(ShapeIds)
      /\ Len(d.list) \in Int
      /\ [d.shape EXCEPT ![s] = x] \in [ShapeIds -> ShapeRecords]
  BY <1>3 DEF Documents
<1>5. /\ AddShape(d, s) \in Documents
      /\ AddShape(d, s).image = d.image
      /\ AddShape(d, s).list = Append(d.list, s)
      /\ AddShape(d, s).cur = Len(d.list)
      /\ AddShape(d, s).shape = [d.shape EXCEPT ![s] = x]
      /\ AddShape(d, s).cmds = d.cmds
      /\ AddShape(d, s).idx = d.idx
  BY <1>1, <1>4, Zenon DEF Documents
<1> QED
  BY <1>5 DEF x

-----------------------------------------------------------------------------
(* What the operations do to the content of the canvas.                    *)

\* A function on 1 .. n is a sequence of length n.
LEMMA FunctionIsSeq ==
  ASSUME NEW n \in Nat, NEW S, NEW f \in [1 .. n -> S]
  PROVE  f \in Seq(S) /\ Len(f) = n /\ DOMAIN f = 1 .. n
OBVIOUS

\* The content of a document is one entry per shape in the list.
LEMMA ContentType ==
  ASSUME NEW d \in Documents
  PROVE  /\ Content(d) \in Seq(Entries)
         /\ Len(Content(d)) = Len(d.list)
         /\ DOMAIN Content(d) = 1 .. Len(d.list)
         /\ \A i \in 1 .. Len(d.list) :
              /\ Content(d)[i].id = d.list[i]
              /\ Content(d)[i].shape = d.shape[d.list[i]]
<1>1. /\ d.list \in Seq(ShapeIds)
      /\ d.shape \in [ShapeIds -> ShapeRecords]
      /\ Len(d.list) \in Nat
      /\ DOMAIN d.list = 1 .. Len(d.list)
  BY DEF Documents
<1>2. Content(d) = [i \in 1 .. Len(d.list) |->
                      [id |-> d.list[i], shape |-> d.shape[d.list[i]]]]
  BY <1>1 DEF Content
<1>3. \A i \in 1 .. Len(d.list) :
        [id |-> d.list[i], shape |-> d.shape[d.list[i]]] \in Entries
  BY <1>1 DEF Entries
<1>4. Content(d) \in [1 .. Len(d.list) -> Entries]
  BY <1>2, <1>3
<1>5. \A i \in 1 .. Len(d.list) :
        /\ Content(d)[i].id = d.list[i]
        /\ Content(d)[i].shape = d.shape[d.list[i]]
  BY <1>2
<1> QED
  BY <1>1, <1>4, <1>5, FunctionIsSeq

\* Deleting the newest shape by its name takes the last shape off the list,
\* provided that no other shape has the name.
LEMMA DeleteNewest ==
  ASSUME NEW d \in Documents, d.list # <<>>, UniquelyNamed(d),
         d.cur = Len(d.list) - 1,
         NEW name, name = d.shape[d.list[Len(d.list)]].name
  PROVE  /\ IndexOf(d, name) = Len(d.list) - 1
         /\ DeleteShape(d, name) \in Documents
         /\ DeleteShape(d, name).image = d.image
         /\ DeleteShape(d, name).list = Front(d.list)
         /\ DeleteShape(d, name).cur = Len(d.list) - 2
         /\ DeleteShape(d, name).shape = d.shape
         /\ DeleteShape(d, name).cmds = d.cmds
         /\ DeleteShape(d, name).idx = d.idx
         /\ Content(DeleteShape(d, name)) = Front(Content(d))
<1> DEFINE n == Len(d.list)
           left == RemoveAt(d.list, n)
           e == DeleteShape(d, name)
<1>1. /\ d.list \in Seq(ShapeIds)
      /\ n \in Nat \ {0}
      /\ DOMAIN d.list = 1 .. n
  BY SeqEmpty, SeqLen DEF Documents
<1>2. Positions(d, name) = {n}
  BY <1>1 DEF Positions, UniquelyNamed
<1>3. Min({n}) = n
  BY <1>1, MinOfOne
<1>4. IndexOf(d, name) = n - 1
  BY <1>2, <1>3 DEF IndexOf
<1>5. /\ left = Front(d.list)
      /\ left \in Seq(ShapeIds)
      /\ Len(left) = n - 1
      /\ \A i \in 1 .. n - 1 : left[i] = d.list[i]
  <2>1. SubSeq(d.list, n + 1, n) = <<>>
    BY <1>1, SeqNoPart
  <2>2. left = SubSeq(d.list, 1, n - 1) \o <<>>
    BY <2>1, Zenon DEF RemoveAt
  <2>3. /\ SubSeq(d.list, 1, n - 1) \in Seq(ShapeIds)
        /\ Len(SubSeq(d.list, 1, n - 1)) = n - 1
        /\ \A i \in 1 .. n - 1 : SubSeq(d.list, 1, n - 1)[i] = d.list[i]
    BY <1>1, SeqPart
  <2>4. SubSeq(d.list, 1, n - 1) \o <<>> = SubSeq(d.list, 1, n - 1)
    BY <2>3, SeqConcatEmpty
  <2> QED
    BY <2>2, <2>3, <2>4 DEF Front
<1> DEFINE cur == IF n - 1 > d.cur THEN d.cur
                  ELSE IF n - 1 = Len(left) THEN n - 1 - 1
                  ELSE n - 1
<1>6. e = [d EXCEPT !.list = left, !.cur = cur]
  BY <1>1, <1>4 DEF DeleteShape
<1>7. cur = n - 2 /\ cur \in Int
  <2> HIDE DEF left, n
  <2> QED BY <1>1, <1>5 DEF n
<1> HIDE DEF left, e, cur
<1>8. /\ e \in Documents
      /\ e.image = d.image
      /\ e.list = left
      /\ e.cur = cur
      /\ e.shape = d.shape
      /\ e.cmds = d.cmds
      /\ e.idx = d.idx
  BY <1>5, <1>6, <1>7, ZenonT(30) DEF Documents
<1>9. Content(e) = Front(Content(d))
  <2> DEFINE w == Front(Content(d))
  <2>1. /\ w \in Seq(Entries)
        /\ Len(w) = n - 1
        /\ \A i \in 1 .. n - 1 : w[i] = Content(d)[i]
    BY <1>1, ContentType, SeqPart DEF Front
  <2>2. Content(e) \in Seq(Entries) /\ Len(Content(e)) = n - 1
    BY <1>5, <1>8, ContentType
  <2>3. ASSUME NEW i \in 1 .. n - 1 PROVE Content(e)[i] = Content(d)[i]
    BY <1>1, <1>5, <1>8 DEF Content
  <2> HIDE DEF w
  <2>4. Content(e) = w
    BY <2>1, <2>2, <2>3, SeqSame, Zenon
  <2> QED
    BY <2>4 DEF w
<1> QED
  BY <1>4, <1>5, <1>7, <1>8, <1>9 DEF e

-----------------------------------------------------------------------------
(* The commands.                                                           *)

\* What the redo of an adding command changes.
LEMMA AddAndRememberFacts ==
  ASSUME NEW d \in Documents, NEW i \in DOMAIN d.cmds,
         d.cmds[i].op \in {"AddShape", "RemoveShape"},
         NEW s, s = d.cmds[i].shape
  PROVE  LET e == AddAndRemember(d, i)
             c == [d.cmds[i] EXCEPT !.name = NextName(d, s)]
         IN  /\ s \in ShapeIds
             /\ e \in Documents
             /\ e.image = d.image
             /\ e.list = Append(d.list, s)
             /\ e.cur = Len(d.list)
             /\ e.shape =
                  [d.shape EXCEPT ![s] = [d.shape[s] EXCEPT !.name = NextName(d, s)]]
             /\ e.cmds = [d.cmds EXCEPT ![i] = c]
             /\ e.idx = d.idx
             /\ s \notin Listed(d) => Content(e) = Content(AddShape(d, s))
<1> DEFINE a == AddShape(d, s)
           nm == NextName(d, s)
           c == [d.cmds[i] EXCEPT !.name = nm]
           e == AddAndRemember(d, i)
<1>1. d.cmds \in Seq(Commands) /\ d.cmds[i] \in Commands
  BY DEF Documents
<1>2. s \in ShapeIds
  BY <1>1 DEF Commands
<1>3. /\ a \in Documents
      /\ a.image = d.image
      /\ a.list = Append(d.list, s)
      /\ a.cur = Len(d.list)
      /\ a.shape = [d.shape EXCEPT ![s] = [d.shape[s] EXCEPT !.name = nm]]
      /\ a.cmds = d.cmds
      /\ a.idx = d.idx
  BY <1>2, AddShapeType
<1>4. a.shape[s].name = nm
  BY <1>2, <1>3 DEF Documents, ShapeRecords
<1>5. nm \in Names
  BY <1>2, NextNameIsFree
<1> HIDE DEF a, nm
<1>6. c \in Commands
  BY <1>1, <1>5 DEF Commands
<1>7. e = [a EXCEPT !.cmds = [d.cmds EXCEPT ![i] = c]]
  BY <1>3, <1>4, Zenon DEF AddAndRemember, a, Documents
<1>8. [d.cmds EXCEPT ![i] = c] \in Seq(Commands)
  BY <1>1, <1>6
<1> HIDE DEF c, e
<1>9. /\ e \in Documents
      /\ e.image = a.image
      /\ e.list = a.list
      /\ e.cur = a.cur
      /\ e.shape = a.shape
      /\ e.cmds = [d.cmds EXCEPT ![i] = c]
      /\ e.idx = a.idx
  BY <1>3, <1>7, <1>8, Zenon DEF Documents
<1>10. Content(e) = Content(a)
  BY <1>9 DEF Content
<1> QED
  BY <1>2, <1>3, <1>9, <1>10 DEF a, c, e, nm

-----------------------------------------------------------------------------
(* push().                                                                 *)

\* The first n + 1 elements of a sequence after an append to its first n.
LEMMA AppendToPrefix ==
  ASSUME NEW S, NEW s \in Seq(S), NEW n \in 0 .. Len(s), NEW x \in S,
         NEW t, t = Append(SubSeq(s, 1, n), x)
  PROVE  /\ t \in Seq(S)
         /\ Len(t) = n + 1
         /\ DOMAIN t = 1 .. n + 1
         /\ \A i \in 1 .. n : t[i] = s[i]
         /\ t[n + 1] = x
<1> DEFINE q == SubSeq(s, 1, n)
<1>1. q \in Seq(S) /\ Len(q) = n /\ \A i \in 1 .. n : q[i] = s[i]
  <2>1. \A i \in 1 .. n : s[i] \in S
    BY SeqElement, SeqLen
  <2> QED
    BY <2>1, SeqPart
<1>2. t = Append(q, x)
  OBVIOUS
<1> HIDE DEF q
<1> QED
  BY <1>1, <1>2, SeqAppend

\* The document on which push() runs redo() of the new command c.
Pushed(d, c) == [d EXCEPT !.cmds = Append(SubSeq(@, 1, d.idx), c),
                          !.idx  = @ + 1]

\* What p has kept of d and what is new.
PushedFrom(d, c, p) ==
  /\ Push(d, c) = RedoCommand(p, p.idx)
  /\ p \in Documents
  /\ p.image = d.image /\ p.list = d.list /\ p.cur = d.cur /\ p.shape = d.shape
  /\ Content(p) = Content(d)
  /\ p.idx = d.idx + 1
  /\ DOMAIN p.cmds = 1 .. d.idx + 1
  /\ Len(p.cmds) = d.idx + 1
  /\ \A i \in 1 .. d.idx : p.cmds[i] = d.cmds[i]
  /\ p.cmds[d.idx + 1] = c

\* push() cuts off the commands ahead and redoes the new one.
LEMMA PushedFacts ==
  ASSUME NEW d \in Documents, d.idx <= Len(d.cmds), NEW c \in Commands,
         NEW p, p = Pushed(d, c)
  PROVE  PushedFrom(d, c, p)
<1> DEFINE cs == Append(SubSeq(d.cmds, 1, d.idx), c)
<1>1. d.cmds \in Seq(Commands) /\ d.idx \in 0 .. Len(d.cmds) /\ d.idx \in Nat
  BY DEF Documents
<1>2. /\ cs \in Seq(Commands)
      /\ Len(cs) = d.idx + 1
      /\ DOMAIN cs = 1 .. d.idx + 1
      /\ \A i \in 1 .. d.idx : cs[i] = d.cmds[i]
      /\ cs[d.idx + 1] = c
  BY <1>1, AppendToPrefix
<1>3. p = [d EXCEPT !.cmds = cs, !.idx = d.idx + 1]
  BY DEF Pushed
<1>4. Push(d, c) = RedoCommand(p, p.idx)
  BY DEF Push, Pushed
<1> HIDE DEF cs
<1>5. /\ p \in Documents
      /\ p.image = d.image /\ p.list = d.list /\ p.cur = d.cur /\ p.shape = d.shape
      /\ p.cmds = cs
      /\ p.idx = d.idx + 1
  <2> DEFINE m == d.idx + 1
  <2>1. m \in Nat
    BY <1>1
  <2>2. p = [d EXCEPT !.cmds = cs, !.idx = m]
    BY <1>3
  <2> HIDE DEF m
  <2>3. /\ p \in Documents
        /\ p.image = d.image /\ p.list = d.list /\ p.cur = d.cur /\ p.shape = d.shape
        /\ p.cmds = cs
        /\ p.idx = m
    BY <1>2, <2>1, <2>2, Zenon DEF Documents
  <2> QED
    BY <2>3 DEF m
<1>6. Content(p) = Content(d)
  BY <1>5 DEF Content
<1> QED
  BY <1>2, <1>4, <1>5, <1>6, Zenon DEF PushedFrom

-----------------------------------------------------------------------------
(* The vertices of a shape.                                                *)

\* One sequence after the other.
LEMMA SeqConcat ==
  ASSUME NEW T, NEW s \in Seq(T), NEW r \in Seq(T)
  PROVE  /\ s \o r \in Seq(T) /\ Len(s \o r) = Len(s) + Len(r)
         /\ \A k \in 1 .. Len(s) + Len(r) :
              (s \o r)[k] = IF k <= Len(s) THEN s[k] ELSE r[k - Len(s)]
OBVIOUS

\* An element put in the place of another.
LEMMA SeqExcept ==
  ASSUME NEW T, NEW s \in Seq(T), NEW k \in 1 .. Len(s), NEW x \in T
  PROVE  /\ [s EXCEPT ![k] = x] \in Seq(T) /\ Len([s EXCEPT ![k] = x]) = Len(s)
         /\ \A j \in 1 .. Len(s) : [s EXCEPT ![k] = x][j] = IF j = k THEN x ELSE s[j]
OBVIOUS

\* Shape y is shape x with other vertices.
Reshaped(x, y) ==
  /\ y \in ShapeRecords
  /\ y.type = x.type /\ y.name = x.name /\ y.label = x.label
  /\ y.closed = x.closed /\ y.press = x.press /\ y.drag = x.drag

\* Every operation on the vertices leaves the rest alone.
LEMMA OtherVertices ==
  ASSUME NEW x \in ShapeRecords, NEW q \in Seq(Points)
  PROVE  Reshaped(x, [x EXCEPT !.pts = q]) /\ [x EXCEPT !.pts = q].pts = q
BY DEF ShapeRecords, Reshaped

\* So does giving it a name.
LEMMA OtherName ==
  ASSUME NEW x \in ShapeRecords, NEW nm \in Names, NEW y, y = [x EXCEPT !.name = nm]
  PROVE  /\ y \in ShapeRecords /\ y.name = nm /\ y.pts = x.pts /\ y.closed = x.closed
         /\ y.press = x.press /\ y.drag = x.drag /\ y.label = x.label
BY DEF ShapeRecords

\* A shape is a reshaping of itself, and its vertices are a sequence.
LEMMA SameShape ==
  ASSUME NEW x \in ShapeRecords
  PROVE  Reshaped(x, x) /\ x.pts \in Seq(Points) /\ Len(x.pts) \in Nat
BY DEF ShapeRecords, Reshaped

\* addPoint() of a shape.
LEMMA AppendReshapes ==
  ASSUME NEW x \in ShapeRecords, NEW p \in Points
  PROVE  /\ Reshaped(x, AppendPoint(x, p))
         /\ AppendPoint(x, p).pts = Append(x.pts, p)
         /\ Len(AppendPoint(x, p).pts) = Len(x.pts) + 1
         /\ Front(AppendPoint(x, p).pts) = x.pts
<1> DEFINE q == Append(x.pts, p)
           n == Len(x.pts)
<1>1. x.pts \in Seq(Points) /\ n \in Nat
  BY SameShape
<1>2. /\ q \in Seq(Points) /\ Len(q) = n + 1
      /\ \A i \in 1 .. n : q[i] = x.pts[i]
  BY <1>1, SeqAppend
<1>3. AppendPoint(x, p) = [x EXCEPT !.pts = q]
  BY DEF AppendPoint
<1>4. Front(q) = x.pts
  BY <1>1 DEF Front
<1> HIDE DEF q
<1>5. Reshaped(x, [x EXCEPT !.pts = q]) /\ [x EXCEPT !.pts = q].pts = q
  BY <1>2, OtherVertices
<1> QED
  BY <1>2, <1>3, <1>4, <1>5 DEF q

\* Shape::deletePoint takes one vertex or none.
LEMMA DeleteReshapes ==
  ASSUME NEW x \in ShapeRecords, NEW k \in Nat
  PROVE  /\ Reshaped(x, DeletePoint(x, k))
         /\ \/ DeletePoint(x, k) = x
            \/ Len(DeletePoint(x, k).pts) = Len(x.pts) - 1
         /\ Len(DeletePoint(x, k).pts) >= Len(x.pts) - 1
<1> DEFINE n == Len(x.pts)
           q == RemoveAt(x.pts, k + 1)
<1>1. x.pts \in Seq(Points) /\ n \in Nat /\ Reshaped(x, x)
  BY SameShape
<1>2. CASE k >= n
  <2>1. DeletePoint(x, k) = x
    BY <1>2 DEF DeletePoint
  <2> QED
    BY <1>1, <2>1
<1>3. CASE ~(k >= n)
  <2> DEFINE a == SubSeq(x.pts, 1, (k + 1) - 1)
             b == SubSeq(x.pts, (k + 1) + 1, n)
  <2>1. q = a \o b
    BY DEF RemoveAt
  <2>2. a \in Seq(Points) /\ Len(a) = k
    <3>1. \A i \in 1 .. (k + 1) - 1 : x.pts[i] \in Points
      BY <1>1, <1>3, SeqElement
    <3> QED
      BY <3>1, SeqPart
  <2>3. b \in Seq(Points) /\ Len(b) = n - k - 1
    <3>1. \A i \in (k + 1) + 1 .. n : x.pts[i] \in Points
      BY <1>1, <1>3, SeqElement
    <3> QED
      BY <1>1, <1>3, <3>1, SeqPart
  <2> HIDE DEF a, b
  <2>4. q \in Seq(Points) /\ Len(q) = n - 1
    <3>1. a \o b \in Seq(Points) /\ Len(a \o b) = Len(a) + Len(b)
      BY <2>2, <2>3, SeqConcat, Zenon
    <3>2. k + (n - k - 1) = n - 1
      BY <1>1
    <3> HIDE DEF n
    <3> QED
      BY <2>1, <2>2, <2>3, <3>1, <3>2, Zenon
  <2>5. DeletePoint(x, k) = [x EXCEPT !.pts = q]
    BY <1>3 DEF DeletePoint
  <2> HIDE DEF q
  <2> QED
    BY <1>1, <2>4, <2>5, OtherVertices
<1> QED
  BY <1>2, <1>3

-----------------------------------------------------------------------------
(* The document.                                                           *)

IsAdd(c) == c.op = "AddShape"

\* A command of the stack that adds a shape: when it is done its shape is on the
\* canvas, with the name it remembers, and what comes behind it in the list was
\* added by later ones; when it is undone its shape is off the canvas.
AddHolds(d, i) ==
  IF i <= d.idx
  THEN \E k \in DOMAIN d.list :
         /\ d.list[k] = d.cmds[i].shape /\ d.shape[d.list[k]].name = d.cmds[i].name
         /\ \A m \in k + 1 .. Len(d.list) : \E j \in i + 1 .. d.idx :
              IsAdd(d.cmds[j]) /\ d.cmds[j].shape = d.list[m]
  ELSE d.cmds[i].shape \notin Listed(d)

Stacked(d) ==
  /\ \A i, j \in DOMAIN d.cmds :
       IsAdd(d.cmds[i]) /\ IsAdd(d.cmds[j]) /\ d.cmds[i].shape = d.cmds[j].shape => i = j
  /\ \A i \in DOMAIN d.cmds : IsAdd(d.cmds[i]) => AddHolds(d, i)

\* What the handlers keep of the document.
DocOK(d) ==
  /\ d \in Documents
  /\ d.idx <= Len(d.cmds)
  /\ \A i \in DOMAIN d.cmds : d.cmds[i].op \in {"AddShape", "AddPoint"}
  /\ d.cur >= -1 /\ NewestIsCurrent(d)
  /\ \A i, j \in DOMAIN d.list : d.list[i] = d.list[j] => i = j
  /\ UniquelyNamed(d)
  /\ Stacked(d)

\* The types of a document, for the provers.
LEMMA DocTypes ==
  ASSUME NEW d \in Documents
  PROVE  /\ d.image \in BOOLEAN
         /\ d.list \in Seq(ShapeIds) /\ Len(d.list) \in Nat /\ DOMAIN d.list = 1 .. Len(d.list)
         /\ \A k \in DOMAIN d.list : d.list[k] \in ShapeIds
         /\ d.cur \in Int /\ d.shape \in [ShapeIds -> ShapeRecords]
         /\ d.cmds \in Seq(Commands) /\ Len(d.cmds) \in Nat /\ DOMAIN d.cmds = 1 .. Len(d.cmds)
         /\ \A i \in DOMAIN d.cmds : d.cmds[i] \in Commands /\ d.cmds[i].shape \in ShapeIds
         /\ d.idx \in Nat
<1>1. /\ d.image \in BOOLEAN /\ d.list \in Seq(ShapeIds) /\ d.cur \in Int
      /\ d.shape \in [ShapeIds -> ShapeRecords] /\ d.cmds \in Seq(Commands) /\ d.idx \in Nat
  BY DEF Documents
<1>2. \A c \in Commands : c.shape \in ShapeIds
  BY DEF Commands
<1>3. /\ Len(d.list) \in Nat /\ DOMAIN d.list = 1 .. Len(d.list)
      /\ Len(d.cmds) \in Nat /\ DOMAIN d.cmds = 1 .. Len(d.cmds)
      /\ \A k \in DOMAIN d.list : d.list[k] \in ShapeIds
      /\ \A i \in DOMAIN d.cmds : d.cmds[i] \in Commands
  BY <1>1
<1> QED
  BY <1>1, <1>2, <1>3

\* Documents d and e differ in the objects, but not in the names of those on the
\* canvas, and in which of the commands are done that add no shape.
SameAdds(d, e) ==
  /\ e \in Documents /\ e.list = d.list /\ e.cur = d.cur
  /\ Len(e.cmds) = Len(d.cmds) /\ e.idx <= Len(d.cmds)
  /\ \A i \in DOMAIN d.cmds :
       /\ e.cmds[i].op = d.cmds[i].op /\ e.cmds[i].shape = d.cmds[i].shape
       /\ IsAdd(d.cmds[i]) => /\ e.cmds[i].name = d.cmds[i].name
                              /\ i <= e.idx <=> i <= d.idx
  /\ \A s \in Listed(d) : e.shape[s].name = d.shape[s].name

\* A handler may make that difference.
LEMMA SameAddsOK ==
  ASSUME NEW d, DocOK(d), NEW e, SameAdds(d, e)
  PROVE  DocOK(e)
<1> USE DEF SameAdds
<1>1. d \in Documents /\ Stacked(d)
  BY DEF DocOK
<1>2. \A k \in DOMAIN d.list : e.shape[e.list[k]].name = d.shape[d.list[k]].name
  BY DEF Listed
<1>3. Listed(e) = Listed(d)
  BY DEF Listed
<1>4. /\ DOMAIN d.cmds = 1 .. Len(d.cmds) /\ DOMAIN e.cmds = DOMAIN d.cmds
      /\ d.idx \in Nat /\ e.idx \in Nat /\ Len(d.cmds) \in Nat /\ d.idx <= Len(d.cmds)
  <2>1. d.idx <= Len(d.cmds)
    BY DEF DocOK
  <2> QED
    BY <1>1, <2>1, DocTypes
<1>5. \A i \in DOMAIN d.cmds : IsAdd(e.cmds[i]) <=> IsAdd(d.cmds[i])
  BY DEF IsAdd
<1>6. ASSUME NEW i \in DOMAIN d.cmds, IsAdd(d.cmds[i]) PROVE AddHolds(e, i)
  <2>1. AddHolds(d, i)
    BY <1>1, <1>6 DEF Stacked
  <2>2. CASE i <= d.idx
    <3>1. PICK k \in DOMAIN d.list :
            /\ d.list[k] = d.cmds[i].shape /\ d.shape[d.list[k]].name = d.cmds[i].name
            /\ \A m \in k + 1 .. Len(d.list) : \E j \in i + 1 .. d.idx :
                 IsAdd(d.cmds[j]) /\ d.cmds[j].shape = d.list[m]
      BY <2>1, <2>2 DEF AddHolds
    <3>2. ASSUME NEW m \in k + 1 .. Len(d.list)
          PROVE  \E j \in i + 1 .. e.idx : IsAdd(e.cmds[j]) /\ e.cmds[j].shape = e.list[m]
      <4>1. PICK j \in i + 1 .. d.idx : IsAdd(d.cmds[j]) /\ d.cmds[j].shape = d.list[m]
        BY <3>1
      <4>2. j \in DOMAIN d.cmds /\ j <= d.idx
        BY <1>4
      <4>3. j \in i + 1 .. e.idx
        BY <1>4, <4>1, <4>2
      <4> QED
        BY <1>5, <4>1, <4>2, <4>3, SMTT(30)
    <3>3. i <= e.idx
      BY <1>6, <2>2, Zenon
    <3>4. /\ e.list[k] = e.cmds[i].shape /\ e.shape[e.list[k]].name = e.cmds[i].name
          /\ k \in DOMAIN e.list
      BY <1>2, <1>6, <3>1
    <3> QED
      BY <3>2, <3>3, <3>4 DEF AddHolds
  <2>3. CASE ~(i <= d.idx)
    BY <1>3, <1>6, <2>1, <2>3 DEF AddHolds
  <2> QED
    BY <2>2, <2>3
<1>7. Stacked(e)
  BY <1>1, <1>4, <1>5, <1>6 DEF Stacked
<1>8. UniquelyNamed(e) /\ NewestIsCurrent(e) /\ e.cur >= -1
  BY <1>2 DEF DocOK, UniquelyNamed, NewestIsCurrent
<1> QED
  BY <1>4, <1>7, <1>8 DEF DocOK

\* Document e is c after the redo of its command n, which adds shape s and gives
\* it the name nm.
Added(c, n, s, nm, e) ==
  /\ n = c.idx + 1 /\ n \in DOMAIN c.cmds /\ IsAdd(c.cmds[n]) /\ s = c.cmds[n].shape
  /\ nm \in Names /\ nm \notin ListedNames(c)
  /\ e \in Documents /\ e.list = Append(c.list, s) /\ e.cur = Len(c.list) /\ e.idx = n
  /\ e.shape = [c.shape EXCEPT ![s] = [c.shape[s] EXCEPT !.name = nm]]
  /\ e.cmds = [c.cmds EXCEPT ![n] = [c.cmds[n] EXCEPT !.name = nm]]

\* What that does to the lists, element by element.
AddedLists(c, n, s, nm, e) ==
  LET l == Len(c.list) IN
  /\ s \in ShapeIds /\ s \notin Listed(c)
  /\ Len(e.list) = l + 1 /\ DOMAIN e.list = 1 .. l + 1 /\ e.list[l + 1] = s
  /\ \A k \in 1 .. l : e.list[k] = c.list[k] /\ e.list[k] # s
  /\ DOMAIN e.cmds = DOMAIN c.cmds /\ Len(e.cmds) = Len(c.cmds)
  /\ \A i \in DOMAIN c.cmds :
       /\ e.cmds[i].op = c.cmds[i].op /\ e.cmds[i].shape = c.cmds[i].shape
       /\ i # n => e.cmds[i].name = c.cmds[i].name
  /\ e.cmds[n].name = nm
  /\ \A k \in 1 .. l : e.shape[e.list[k]] = c.shape[c.list[k]]
  /\ e.shape[s].name = nm

\* And it does.
LEMMA AddedFacts ==
  ASSUME NEW c, DocOK(c), NEW n, NEW s, NEW nm, NEW e, Added(c, n, s, nm, e)
  PROVE  AddedLists(c, n, s, nm, e)
<1> DEFINE l == Len(c.list)
<1>1. c \in Documents /\ Stacked(c)
  BY DEF DocOK
<1>2. /\ l \in Nat /\ DOMAIN c.list = 1 .. l /\ c.idx \in Nat
      /\ c.list \in Seq(ShapeIds) /\ \A k \in 1 .. l : c.list[k] \in ShapeIds
      /\ Len(c.cmds) \in Nat /\ DOMAIN c.cmds = 1 .. Len(c.cmds)
      /\ \A i \in DOMAIN c.cmds : c.cmds[i] \in Commands /\ c.cmds[i].shape \in ShapeIds
      /\ c.shape \in [ShapeIds -> ShapeRecords]
  BY <1>1, DocTypes, Zenon
<1> HIDE DEF l
<1>3. n \in DOMAIN c.cmds /\ IsAdd(c.cmds[n]) /\ ~(n <= c.idx) /\ s = c.cmds[n].shape
      /\ s \in ShapeIds
  <2>1. n \in DOMAIN c.cmds /\ IsAdd(c.cmds[n]) /\ n = c.idx + 1 /\ s = c.cmds[n].shape
    BY Zenon DEF Added
  <2>2. c.idx \in Nat
    BY <1>2, Zenon
  <2>3. ~(n <= c.idx)
    BY <2>1, <2>2
  <2> QED
    BY <1>2, <2>1, <2>3, Zenon
<1>4. s \notin Listed(c)
  BY <1>1, <1>3 DEF Stacked, AddHolds
<1>5. \A k \in 1 .. l : c.list[k] # s
  BY <1>2, <1>4 DEF Listed
<1>6. /\ Len(e.list) = l + 1 /\ DOMAIN e.list = 1 .. l + 1 /\ e.list[l + 1] = s
      /\ \A k \in 1 .. l : e.list[k] = c.list[k]
  <2>1. e.list = Append(c.list, s)
    BY Zenon DEF Added
  <2> QED
    BY <1>2, <1>3, <2>1, SeqAppend, SMTT(30)
<1>7. /\ DOMAIN e.cmds = DOMAIN c.cmds /\ Len(e.cmds) = Len(c.cmds)
      /\ \A i \in DOMAIN c.cmds :
           /\ e.cmds[i].op = c.cmds[i].op /\ e.cmds[i].shape = c.cmds[i].shape
           /\ i # n => e.cmds[i].name = c.cmds[i].name
      /\ e.cmds[n].name = nm
  <2>1. e.cmds = [c.cmds EXCEPT ![n] = [c.cmds[n] EXCEPT !.name = nm]] /\ e \in Documents
    BY Zenon DEF Added
  <2>3. DOMAIN e.cmds = DOMAIN c.cmds /\ \A i \in DOMAIN c.cmds : i # n => e.cmds[i] = c.cmds[i]
    BY <2>1
  <2>2. c.cmds[n] \in Commands /\ e.cmds[n] = [c.cmds[n] EXCEPT !.name = nm]
    BY <1>2, <1>3, <2>1
  <2>4. e.cmds[n].op = c.cmds[n].op /\ e.cmds[n].shape = c.cmds[n].shape /\ e.cmds[n].name = nm
    BY <2>2, SMTT(30) DEF Commands
  <2>5. Len(e.cmds) \in Nat /\ DOMAIN e.cmds = 1 .. Len(e.cmds)
    BY <2>1, DocTypes
  <2>6. Len(e.cmds) = Len(c.cmds)
    BY <1>2, <2>3, <2>5
  <2> QED
    BY <2>3, <2>4, <2>6, Zenon
<1>8. /\ \A k \in 1 .. l : e.shape[e.list[k]] = c.shape[c.list[k]]
      /\ e.shape[s].name = nm
  <2>1. e.shape = [c.shape EXCEPT ![s] = [c.shape[s] EXCEPT !.name = nm]]
    BY Zenon DEF Added
  <2>2. e.shape[s] = [c.shape[s] EXCEPT !.name = nm] /\ c.shape[s] \in ShapeRecords
    BY <1>2, <1>3, <2>1
  <2>3. e.shape[s].name = nm
    BY <2>2, Zenon DEF ShapeRecords
  <2> QED
    BY <1>2, <1>5, <1>6, <2>1, <2>3, SMTT(30)
<1> QED
  BY <1>3, <1>4, <1>5, <1>6, <1>7, <1>8, Zenon DEF AddedLists, l

\* The document after it is as good as before.
LEMMA AddedOK ==
  ASSUME NEW c, DocOK(c), NEW n, NEW s, NEW nm, NEW e, Added(c, n, s, nm, e)
  PROVE  DocOK(e)
<1> DEFINE l == Len(c.list)
<1> HIDE DEF l
<1>10. AddedLists(c, n, s, nm, e)
  BY AddedFacts
<1>1. /\ s \in ShapeIds /\ s \notin Listed(c)
      /\ Len(e.list) = l + 1 /\ DOMAIN e.list = 1 .. l + 1 /\ e.list[l + 1] = s
      /\ \A k \in 1 .. l : e.list[k] = c.list[k] /\ e.list[k] # s
  BY <1>10, Zenon DEF AddedLists, l
<1>11. /\ DOMAIN e.cmds = DOMAIN c.cmds /\ Len(e.cmds) = Len(c.cmds)
       /\ \A i \in DOMAIN c.cmds :
            /\ e.cmds[i].op = c.cmds[i].op /\ e.cmds[i].shape = c.cmds[i].shape
            /\ i # n => e.cmds[i].name = c.cmds[i].name
       /\ e.cmds[n].name = nm
  BY <1>10, Zenon DEF AddedLists, l
<1>12. /\ \A k \in 1 .. l : e.shape[e.list[k]] = c.shape[c.list[k]]
       /\ e.shape[s].name = nm
  BY <1>10, Zenon DEF AddedLists, l
<1>2. /\ c \in Documents /\ Stacked(c) /\ c.idx <= Len(c.cmds)
      /\ \A i \in DOMAIN c.cmds : c.cmds[i].op \in {"AddShape", "AddPoint"}
      /\ \A i, j \in DOMAIN c.list : c.list[i] = c.list[j] => i = j
      /\ UniquelyNamed(c)
  BY DEF DocOK
<1>3. /\ l \in Nat /\ DOMAIN c.list = 1 .. l /\ c.idx \in Nat
      /\ Len(c.cmds) \in Nat /\ DOMAIN c.cmds = 1 .. Len(c.cmds)
  BY <1>2, DocTypes, Zenon DEF l
<1>4. /\ n = c.idx + 1 /\ n \in DOMAIN c.cmds /\ IsAdd(c.cmds[n]) /\ s = c.cmds[n].shape
      /\ nm \notin ListedNames(c) /\ e \in Documents /\ e.cur = l /\ e.idx = n
  BY Zenon DEF Added, l
<1>5. \A i, j \in DOMAIN e.list : e.list[i] = e.list[j] => i = j
  <2>1. \A i, j \in 1 .. l : e.list[i] = e.list[j] => i = j
    BY <1>1, <1>2, <1>3, SMTT(30)
  <2>2. \A i \in 1 .. l + 1 : i \in 1 .. l \/ i = l + 1
    BY <1>3
  <2> QED
    BY <1>1, <2>1, <2>2
<1>6. UniquelyNamed(e)
  <2>1. \A k \in 1 .. l : e.shape[e.list[k]].name # nm
    <3>1. \A k \in 1 .. l : c.shape[c.list[k]].name \in ListedNames(c)
      BY <1>3 DEF ListedNames, Listed
    <3> QED
      BY <1>4, <1>12, <3>1
  <2>2. \A i, j \in 1 .. l : e.shape[e.list[i]].name = e.shape[e.list[j]].name => i = j
    BY <1>2, <1>3, <1>12, ZenonT(30) DEF UniquelyNamed
  <2>3. \A i \in 1 .. l + 1 : i \in 1 .. l \/ i = l + 1
    BY <1>3
  <2> QED
    BY <1>1, <1>12, <2>1, <2>2, <2>3 DEF UniquelyNamed
<1>7. \A i \in DOMAIN c.cmds : IsAdd(e.cmds[i]) <=> IsAdd(c.cmds[i])
  BY <1>11 DEF IsAdd
<1>8. ASSUME NEW i \in DOMAIN c.cmds, IsAdd(c.cmds[i]) PROVE AddHolds(e, i)
  <2>1. AddHolds(c, i)
    BY <1>2, <1>8 DEF Stacked
  <2>2. CASE i <= c.idx
    <3>1. PICK k \in DOMAIN c.list :
            /\ c.list[k] = c.cmds[i].shape /\ c.shape[c.list[k]].name = c.cmds[i].name
            /\ \A m \in k + 1 .. l : \E j \in i + 1 .. c.idx :
                 IsAdd(c.cmds[j]) /\ c.cmds[j].shape = c.list[m]
      BY <2>1, <2>2 DEF AddHolds, l
    <3>2. ASSUME NEW m \in k + 1 .. l + 1
          PROVE  \E j \in i + 1 .. e.idx : IsAdd(e.cmds[j]) /\ e.cmds[j].shape = e.list[m]
      <4>1. CASE m = l + 1
        <5>1. n \in i + 1 .. e.idx
          BY <1>3, <1>4, <2>2
        <5>2. IsAdd(e.cmds[n]) /\ e.cmds[n].shape = s
          BY <1>4, <1>7, <1>11
        <5> QED
          BY <1>1, <4>1, <5>1, <5>2
      <4>2. CASE m \in k + 1 .. l
        <5>1. PICK j \in i + 1 .. c.idx : IsAdd(c.cmds[j]) /\ c.cmds[j].shape = c.list[m]
          BY <3>1, <4>2
        <5>2. j \in DOMAIN c.cmds /\ j \in i + 1 .. e.idx /\ m \in 1 .. l
          BY <1>2, <1>3, <1>4, <4>2, SMTT(30)
        <5> QED
          BY <1>1, <1>7, <1>11, <5>1, <5>2
      <4> QED
        BY <1>3, <4>1, <4>2
    <3>3. i <= e.idx /\ i # n
      BY <1>3, <1>4, <2>2
    <3>4. /\ e.list[k] = e.cmds[i].shape /\ e.shape[e.list[k]].name = e.cmds[i].name
          /\ k \in DOMAIN e.list
      <4>1. k \in 1 .. l /\ k \in 1 .. l + 1
        BY <1>3
      <4> QED
        BY <1>1, <1>11, <1>12, <3>1, <3>3, <4>1, Zenon
    <3> QED
      BY <1>1, <3>2, <3>3, <3>4 DEF AddHolds
  <2>3. CASE i = n
    <3>1. l + 1 \in DOMAIN e.list /\ \A m \in l + 1 + 1 .. l + 1 : FALSE
      BY <1>1, <1>3
    <3>2. /\ e.list[l + 1] = e.cmds[i].shape
          /\ e.shape[e.list[l + 1]].name = e.cmds[i].name
      BY <1>1, <1>4, <1>11, <1>12, <2>3, Zenon
    <3>3. i <= e.idx
      BY <1>3, <1>4, <2>3
    <3> QED
      BY <1>1, <3>1, <3>2, <3>3 DEF AddHolds
  <2>4. CASE ~(i <= c.idx) /\ i # n
    <3>1. ~(i <= e.idx)
      BY <1>3, <1>4, <2>4
    <3>2. c.cmds[i].shape \notin Listed(c) /\ c.cmds[i].shape # s
      <4>1. c.cmds[i].shape \notin Listed(c)
        BY <2>1, <2>4 DEF AddHolds
      <4>2. c.cmds[i].shape # s
        BY <1>2, <1>4, <1>8, <2>4 DEF Stacked
      <4> QED
        BY <4>1, <4>2
    <3>3. \A k \in 1 .. l : c.list[k] # c.cmds[i].shape
      BY <1>3, <3>2 DEF Listed
    <3>4. e.cmds[i].shape \notin Listed(e)
      <4>1. \A k \in 1 .. l + 1 : e.list[k] # c.cmds[i].shape
        BY <1>1, <1>3, <3>2, <3>3
      <4> QED
        BY <1>1, <1>11, <4>1 DEF Listed
    <3> QED
      BY <3>1, <3>4 DEF AddHolds
  <2> QED
    BY <2>2, <2>3, <2>4
<1>9. Stacked(e)
  BY <1>2, <1>7, <1>8, <1>11, Zenon DEF Stacked
<1>13. e.cur >= -1 /\ NewestIsCurrent(e) /\ e.idx <= Len(e.cmds)
  BY <1>1, <1>3, <1>4, <1>11 DEF NewestIsCurrent
<1> QED
  BY <1>2, <1>4, <1>5, <1>6, <1>9, <1>13, <1>11 DEF DocOK

\* push() cuts the stack off behind the commands that are done and puts the new
\* one there; then it is redone.
LEMMA CutOK ==
  ASSUME NEW d, DocOK(d), NEW p \in Documents, p.list = d.list, p.cur = d.cur,
         p.idx = d.idx, Len(p.cmds) = d.idx + 1,
         \A i \in 1 .. d.idx : p.cmds[i] = d.cmds[i],
         NEW c, p.cmds[d.idx + 1] = c, c.op \in {"AddShape", "AddPoint"},
         IsAdd(c) => c.shape \notin Referenced(d),
         \A s \in Listed(d) : p.shape[s].name = d.shape[s].name
  PROVE  DocOK(p)
<1> DEFINE n == d.idx
<1>1. /\ d \in Documents /\ Stacked(d) /\ n <= Len(d.cmds)
      /\ \A i \in DOMAIN d.cmds : d.cmds[i].op \in {"AddShape", "AddPoint"}
  BY DEF DocOK
<1>2. /\ n \in Nat /\ Len(d.cmds) \in Nat /\ DOMAIN d.cmds = 1 .. Len(d.cmds)
      /\ DOMAIN p.cmds = 1 .. n + 1
  BY <1>1, DocTypes
<1>3. \A k \in DOMAIN d.list : p.shape[p.list[k]].name = d.shape[d.list[k]].name
  BY DEF Listed
<1>4. Listed(p) = Listed(d)
  BY DEF Listed
<1>5. \A i \in 1 .. n : i \in DOMAIN d.cmds /\ i <= n /\ p.cmds[i] = d.cmds[i]
  BY <1>1, <1>2
<1>6. \A i \in 1 .. n + 1 : i \in 1 .. n \/ i = n + 1
  BY <1>2
<1>7. \A i \in 1 .. n : IsAdd(c) => c.shape # p.cmds[i].shape
  BY <1>5 DEF Referenced
<1>8. IsAdd(c) => c.shape \notin Listed(p)
  BY <1>4, SMTT(30) DEF Referenced
<1>9. ASSUME NEW i \in 1 .. n, IsAdd(p.cmds[i]) PROVE AddHolds(p, i)
  <2>1. AddHolds(d, i) /\ i <= n
    BY <1>1, <1>5, <1>9 DEF Stacked
  <2>2. PICK k \in DOMAIN d.list :
          /\ d.list[k] = d.cmds[i].shape /\ d.shape[d.list[k]].name = d.cmds[i].name
          /\ \A m \in k + 1 .. Len(d.list) : \E j \in i + 1 .. n :
               IsAdd(d.cmds[j]) /\ d.cmds[j].shape = d.list[m]
    BY <2>1 DEF AddHolds
  <2>3. \A m \in k + 1 .. Len(p.list) : \E j \in i + 1 .. p.idx :
          IsAdd(p.cmds[j]) /\ p.cmds[j].shape = p.list[m]
    <3>1. \A j \in i + 1 .. n : j \in 1 .. n
      BY <1>2
    <3> QED
      BY <1>5, <2>2, <3>1
  <2> QED
    BY <1>3, <1>5, <2>1, <2>2, <2>3 DEF AddHolds
<1>10. IsAdd(c) => AddHolds(p, n + 1)
  <2>1. ~(n + 1 <= p.idx)
    BY <1>2
  <2> QED
    BY <1>8, <2>1 DEF AddHolds
<1>11. Stacked(p)
  <2>1. \A i \in DOMAIN p.cmds : IsAdd(p.cmds[i]) => AddHolds(p, i)
    BY <1>2, <1>6, <1>9, <1>10, Zenon
  <2>2. \A i, j \in 1 .. n : IsAdd(p.cmds[i]) /\ IsAdd(p.cmds[j])
                             /\ p.cmds[i].shape = p.cmds[j].shape => i = j
    BY <1>1, <1>5 DEF Stacked
  <2>3. \A i, j \in DOMAIN p.cmds : IsAdd(p.cmds[i]) /\ IsAdd(p.cmds[j])
                                    /\ p.cmds[i].shape = p.cmds[j].shape => i = j
    BY <1>2, <1>6, <1>7, <2>2, Zenon
  <2> QED
    BY <2>1, <2>3, Zenon DEF Stacked
<1>12. \A i \in DOMAIN p.cmds : p.cmds[i].op \in {"AddShape", "AddPoint"}
  BY <1>1, <1>2, <1>5, <1>6, Zenon
<1>13. UniquelyNamed(p) /\ NewestIsCurrent(p) /\ p.cur >= -1
  BY <1>3 DEF DocOK, UniquelyNamed, NewestIsCurrent
<1>14. p.idx <= Len(p.cmds) /\ \A i, j \in DOMAIN p.list : p.list[i] = p.list[j] => i = j
  BY <1>2 DEF DocOK
<1> QED
  BY <1>11, <1>12, <1>13, <1>14, Zenon DEF DocOK

\* The undo stack's own field.
LEMMA IndexSet ==
  ASSUME NEW d \in Documents, NEW n \in Nat, NEW e, e = [d EXCEPT !.idx = n]
  PROVE  /\ e \in Documents /\ e.idx = n
         /\ e.image = d.image /\ e.list = d.list /\ e.cur = d.cur
         /\ e.shape = d.shape /\ e.cmds = d.cmds
BY Zenon DEF Documents

\* And the objects.
LEMMA ShapeSet ==
  ASSUME NEW d \in Documents, NEW s \in ShapeIds, NEW x \in ShapeRecords,
         NEW e, e = SetShape(d, s, x)
  PROVE  /\ e \in Documents /\ e.shape = [d.shape EXCEPT ![s] = x]
         /\ e.image = d.image /\ e.list = d.list /\ e.cur = d.cur
         /\ e.cmds = d.cmds /\ e.idx = d.idx
BY Zenon DEF SetShape, Documents

\* The document after redo of a command that adds shape s under name nm.
Redone(d, i, s, nm, e) ==
  /\ s \in ShapeIds /\ e \in Documents /\ e.image = d.image /\ e.idx = d.idx
  /\ e.list = Append(d.list, s) /\ e.cur = Len(d.list)
  /\ e.shape = [d.shape EXCEPT ![s] = [d.shape[s] EXCEPT !.name = nm]]
  /\ e.cmds = [d.cmds EXCEPT ![i] = [d.cmds[i] EXCEPT !.name = nm]]

\* The name is one that is free.
LEMMA RedoneAdd ==
  ASSUME NEW d \in Documents, NEW i \in DOMAIN d.cmds, d.cmds[i].op = "AddShape",
         NEW s, s = d.cmds[i].shape, NEW e, e = AddAndRemember(d, i)
  PROVE  Redone(d, i, s, NextName(d, s), e)
BY AddAndRememberFacts DEF Redone

\* Any change of the objects that leaves the names on the canvas.
LEMMA ObjectsOK ==
  ASSUME NEW d, DocOK(d), NEW e \in Documents, e.list = d.list, e.cur = d.cur,
         e.cmds = d.cmds, e.idx = d.idx,
         \A s \in ShapeIds : e.shape[s].name = d.shape[s].name
  PROVE  DocOK(e)
<1>1. d \in Documents /\ d.idx <= Len(d.cmds)
  BY DEF DocOK
<1>2. \A s \in Listed(d) : s \in ShapeIds
  BY <1>1, DocTypes DEF Listed
<1>3. SameAdds(d, e)
  BY <1>1, <1>2, Zenon DEF SameAdds
<1> QED
  BY <1>3, SameAddsOK

\* Document e is d with other objects of the same names.
Handled(d, e) == DocOK(e) /\ e.image = d.image /\ e.list = d.list

\* The document after it has replaced object s by x.
Replaced(d, s, x, e) ==
  /\ Handled(d, e) /\ e.shape[s] = x /\ e.cmds = d.cmds
  /\ \A r \in ShapeIds : r # s => e.shape[r] = d.shape[r]

\* A handler that replaces one object by one of its name.
LEMMA ShapeSetOK ==
  ASSUME NEW d, DocOK(d), NEW s \in ShapeIds, NEW x \in ShapeRecords,
         x.name = d.shape[s].name, NEW e, e = SetShape(d, s, x)
  PROVE  Replaced(d, s, x, e)
<1>1. d \in Documents /\ d.shape \in [ShapeIds -> ShapeRecords]
  BY DocTypes DEF DocOK
<1>2. /\ e \in Documents /\ e.shape = [d.shape EXCEPT ![s] = x]
      /\ e.image = d.image /\ e.list = d.list /\ e.cur = d.cur
      /\ e.cmds = d.cmds /\ e.idx = d.idx
  BY <1>1, ShapeSet
<1>3. e.shape[s] = x /\ \A r \in ShapeIds : r # s => e.shape[r] = d.shape[r]
  BY <1>1, <1>2
<1>4. \A r \in ShapeIds : e.shape[r].name = d.shape[r].name
  BY <1>3
<1>5. DocOK(e)
  BY <1>2, <1>4, ObjectsOK, Zenon
<1> QED
  BY <1>2, <1>3, <1>5, Zenon DEF Handled, Replaced

\* The shapes on the canvas when there is one more.
LEMMA AppendedList ==
  ASSUME NEW d \in Documents, NEW s \in ShapeIds, NEW r, r = Append(d.list, s)
  PROVE  \A k \in DOMAIN r : r[k] \in Listed(d) \cup {s}
<1> DEFINE l == Len(d.list)
<1>1. l \in Nat /\ DOMAIN d.list = 1 .. l /\ d.list \in Seq(ShapeIds)
  BY DocTypes
<1>2. /\ DOMAIN r = 1 .. l + 1 /\ r[l + 1] = s
      /\ \A k \in 1 .. l : r[k] = d.list[k]
  BY <1>1
<1>3. \A k \in 1 .. l + 1 : k \in 1 .. l \/ k = l + 1
  BY <1>1
<1>4. \A k \in 1 .. l : d.list[k] \in Listed(d)
  BY <1>1 DEF Listed
<1> HIDE DEF l
<1> QED
  BY <1>2, <1>3, <1>4, Zenon

\* The shape of a command is referenced.
LEMMA CommandShape ==
  ASSUME NEW d, NEW i \in DOMAIN d.cmds
  PROVE  d.cmds[i].shape \in Referenced(d)
BY DEF Referenced

\* The document after CanvasView::addShape.
ShapePushed(d, s, type, e) ==
  /\ DocOK(e) /\ e.image = d.image /\ e.list = Append(d.list, s) /\ e.cur = Len(d.list)
  /\ \E nm \in Names :
       e.shape = [d.shape EXCEPT ![s] = [NewShape(type) EXCEPT !.name = nm]]
  /\ e.idx = d.idx + 1 /\ Referenced(e) \subseteq Referenced(d) \cup {s}

\* A new shape leaves the document as good as it was.
LEMMA PushAddShapeOK ==
  ASSUME NEW d, DocOK(d), NEW s \in ShapeIds, s \notin Referenced(d), NEW type \in DrawModes,
         NEW e, e = PushAddShape(d, s, type)
  PROVE  ShapePushed(d, s, type, e)
<1> DEFINE x == NewShape(type)
           d1 == SetShape(d, s, x)
           c == [op |-> "AddShape", shape |-> s, name |-> EmptyName]
           p == Pushed(d1, c)
           n == d.idx + 1
           q == [p EXCEPT !.idx = d.idx]
           nm == NextName(p, s)
<1>1. d \in Documents /\ x \in ShapeRecords /\ d.idx <= Len(d.cmds)
  BY NewShapeType DEF DocOK
<1>2. /\ s \notin Listed(d) /\ \A i \in DOMAIN d.cmds : d.cmds[i].shape # s
      /\ d.shape \in [ShapeIds -> ShapeRecords] /\ d.idx \in Nat
  BY <1>1, DocTypes DEF Referenced
<1> HIDE DEF x
<1>3. /\ d1 \in Documents /\ d1.shape = [d.shape EXCEPT ![s] = x]
      /\ d1.image = d.image /\ d1.list = d.list /\ d1.cur = d.cur
      /\ d1.cmds = d.cmds /\ d1.idx = d.idx
  BY <1>1, ShapeSet
<1> HIDE DEF d1
<1>4. /\ c \in Commands /\ c.op = "AddShape" /\ c.shape = s
  BY EmptyNameType DEF Commands
<1>5. e = Push(d1, c)
  BY DEF PushAddShape, d1, x
<1> HIDE DEF c
<1>6. /\ e = RedoCommand(p, p.idx)
      /\ p \in Documents
      /\ p.image = d.image /\ p.list = d.list /\ p.cur = d.cur /\ p.shape = d1.shape
      /\ p.idx = n /\ DOMAIN p.cmds = 1 .. n /\ Len(p.cmds) = n
      /\ \A i \in 1 .. d.idx : p.cmds[i] = d.cmds[i]
      /\ p.cmds[n] = c
  <2>1. PushedFrom(d1, c, p)
    BY <1>1, <1>3, <1>4, PushedFacts, Zenon
  <2> QED
    BY <1>3, <1>5, <2>1, Zenon DEF PushedFrom
<1> HIDE DEF p
<1>7. /\ q \in Documents /\ q.idx = d.idx
      /\ q.image = p.image /\ q.list = p.list /\ q.cur = p.cur
      /\ q.shape = p.shape /\ q.cmds = p.cmds
  BY <1>2, <1>6, IndexSet
<1> HIDE DEF q
<1>8. \A t \in Listed(d) : q.shape[t].name = d.shape[t].name
  BY <1>2, <1>3, <1>6, <1>7
<1>9. DocOK(q)
  <2>1. IsAdd(c) => c.shape \notin Referenced(d)
    BY <1>4
  <2> QED
    BY <1>4, <1>6, <1>7, <1>8, <2>1, CutOK
<1>10. n \in DOMAIN p.cmds /\ n \in Nat
  BY <1>2, <1>6
<1>11. e = AddAndRemember(p, n)
  BY <1>4, <1>6 DEF RedoCommand
<1>12. /\ e \in Documents /\ e.image = p.image
       /\ e.list = Append(p.list, s) /\ e.cur = Len(p.list)
       /\ e.shape = [p.shape EXCEPT ![s] = [p.shape[s] EXCEPT !.name = nm]]
       /\ e.cmds = [p.cmds EXCEPT ![n] = [p.cmds[n] EXCEPT !.name = nm]]
       /\ e.idx = n
  <2>1. p.cmds[n].op = "AddShape" /\ s = p.cmds[n].shape
    BY <1>4, <1>6
  <2>2. Redone(p, n, s, nm, e)
    BY <1>6, <1>10, <1>11, <2>1, RedoneAdd, Zenon
  <2> QED
    BY <1>6, <2>2, Zenon DEF Redone
<1>13. nm \in Names /\ nm \notin ListedNames(p)
  BY <1>6, NextNameIsFree
<1> HIDE DEF nm
<1>14. ListedNames(q) = ListedNames(p)
  BY <1>7, SMTT(30) DEF ListedNames, Listed
<1>15. Added(q, n, s, nm, e)
  <2>1. IsAdd(q.cmds[n]) /\ s = q.cmds[n].shape /\ n \in DOMAIN q.cmds
    BY <1>4, <1>6, <1>7, <1>10 DEF IsAdd
  <2> QED
    BY <1>7, <1>12, <1>13, <1>14, <2>1, ZenonT(30) DEF Added
<1>16. DocOK(e)
  BY <1>9, <1>15, AddedOK
<1>17. e.shape = [d.shape EXCEPT ![s] = [NewShape(type) EXCEPT !.name = nm]]
  <2>1. p.shape[s] = x
    BY <1>2, <1>3, <1>6
  <2>2. e.shape = [p.shape EXCEPT ![s] = [x EXCEPT !.name = nm]]
    BY <1>12, <2>1
  <2> DEFINE y == [x EXCEPT !.name = nm]
  <2> HIDE DEF y
  <2>3. e.shape = [d.shape EXCEPT ![s] = y]
    BY <1>3, <1>6, <2>2 DEF y
  <2> QED
    BY <2>3 DEF x, y
<1>18. Referenced(e) \subseteq Referenced(d) \cup {s}
  <2>1. \A k \in DOMAIN e.list : e.list[k] \in Listed(d) \cup {s}
    BY <1>1, <1>6, <1>12, AppendedList, Zenon
  <2>2. \A i \in DOMAIN e.cmds : e.cmds[i].shape \in Referenced(d) \cup {s}
    <3>1. ASSUME NEW i \in 1 .. n PROVE e.cmds[i].shape = p.cmds[i].shape
      <4>1. p.cmds[i] \in Commands /\ p.cmds \in Seq(Commands)
        BY <1>6, DocTypes
      <4>2. [p.cmds[i] EXCEPT !.name = nm].shape = p.cmds[i].shape
        BY <4>1 DEF Commands
      <4> QED
        BY <1>6, <1>12, <4>1, <4>2, Zenon
    <3>2. DOMAIN e.cmds = 1 .. n
      BY <1>6, <1>12
    <3>3. \A i \in 1 .. d.idx : p.cmds[i].shape \in Referenced(d)
      <4>1. \A i \in 1 .. d.idx : i \in DOMAIN d.cmds
        BY <1>1, <1>2, DocTypes
      <4> QED
        BY <1>6, <4>1, CommandShape, Zenon
    <3>4. \A i \in 1 .. n : i \in 1 .. d.idx \/ i = n
      BY <1>2
    <3> QED
      BY <1>4, <1>6, <3>1, <3>2, <3>3, <3>4
  <2> QED
    BY <2>1, <2>2, Zenon DEF Referenced, Listed
<1> QED
  BY <1>6, <1>12, <1>13, <1>16, <1>17, <1>18, Zenon DEF ShapePushed

\* What redo and undo of AddPointCommand leave alone.
PointChanged(d, i, x, e) ==
  /\ e \in Documents /\ e.image = d.image /\ e.list = d.list /\ e.cur = d.cur
  /\ e.idx = d.idx /\ DOMAIN e.cmds = DOMAIN d.cmds /\ Len(e.cmds) = Len(d.cmds)
  /\ \A j \in DOMAIN d.cmds :
       /\ e.cmds[j].op = d.cmds[j].op /\ e.cmds[j].shape = d.cmds[j].shape
       /\ IsAdd(d.cmds[j]) => e.cmds[j].name = d.cmds[j].name
  /\ e.shape = [d.shape EXCEPT ![d.cmds[i].shape] = x]

\* Redo of AddPointCommand.
LEMMA PointRedone ==
  ASSUME NEW d \in Documents, NEW i \in DOMAIN d.cmds, d.cmds[i].op = "AddPoint",
         NEW e, e = RedoCommand(d, i)
  PROVE  /\ d.cmds[i].shape \in ShapeIds /\ d.cmds[i].point \in Points
         /\ PointChanged(d, i, AppendPoint(d.shape[d.cmds[i].shape], d.cmds[i].point), e)
<1> DEFINE c == d.cmds[i]
           s == c.shape
           x == AppendPoint(d.shape[s], c.point)
           m == Len(d.shape[s].pts)
           y == [c EXCEPT !.name = m]
           cs == [d.cmds EXCEPT ![i] = y]
<1>1. c \in Commands /\ s \in ShapeIds /\ d.shape \in [ShapeIds -> ShapeRecords]
      /\ d.cmds \in Seq(Commands) /\ Len(d.cmds) \in Nat /\ DOMAIN d.cmds = 1 .. Len(d.cmds)
  BY DocTypes
<1>2. c.point \in Points
  BY <1>1 DEF Commands
<1>3. Reshaped(d.shape[s], x) /\ m \in Nat
  BY <1>1, <1>2, AppendReshapes, SameShape
<1>4. e = [d EXCEPT !.shape = [d.shape EXCEPT ![s] = x], !.cmds = cs]
  BY ZenonT(30) DEF RedoCommand, Documents
<1> HIDE DEF x, m
<1>5. y \in Commands /\ y.op = c.op /\ y.shape = c.shape
  BY <1>1, <1>3 DEF Commands
<1> HIDE DEF y
<1>6. cs \in Seq(Commands) /\ DOMAIN cs = DOMAIN d.cmds /\ Len(cs) = Len(d.cmds)
  BY <1>1, <1>5, SeqExcept
<1>7. \A j \in DOMAIN d.cmds :
        /\ cs[j].op = d.cmds[j].op /\ cs[j].shape = d.cmds[j].shape
        /\ IsAdd(d.cmds[j]) => cs[j].name = d.cmds[j].name
  BY <1>5, Zenon DEF IsAdd
<1> HIDE DEF cs
<1>8. [d.shape EXCEPT ![s] = x] \in [ShapeIds -> ShapeRecords]
  BY <1>1, <1>3 DEF Reshaped
<1>9. /\ e \in Documents /\ e.image = d.image /\ e.list = d.list /\ e.cur = d.cur
      /\ e.idx = d.idx /\ e.cmds = cs /\ e.shape = [d.shape EXCEPT ![s] = x]
  BY <1>4, <1>6, <1>8, ZenonT(30) DEF Documents
<1>10. PointChanged(d, i, x, e)
  BY <1>6, <1>7, <1>9 DEF PointChanged
<1> QED
  BY <1>1, <1>2, <1>10, Zenon DEF x

\* Undo of AddPointCommand.
LEMMA PointUndone ==
  ASSUME NEW d \in Documents, NEW i \in DOMAIN d.cmds, d.cmds[i].op = "AddPoint",
         NEW e, e = UndoCommand(d, i)
  PROVE  /\ d.cmds[i].shape \in ShapeIds /\ d.cmds[i].name \in Nat
         /\ PointChanged(d, i, DeletePoint(d.shape[d.cmds[i].shape], d.cmds[i].name), e)
<1> DEFINE c == d.cmds[i]
           s == c.shape
           x == DeletePoint(d.shape[s], c.name)
<1>1. c \in Commands /\ s \in ShapeIds /\ d.shape \in [ShapeIds -> ShapeRecords]
  BY DocTypes
<1>2. c.name \in Nat
  BY <1>1 DEF Commands
<1>3. x \in ShapeRecords
  BY <1>1, <1>2, DeleteReshapes, ZenonT(30) DEF Reshaped
<1>4. e = SetShape(d, s, x)
  BY ZenonT(30) DEF UndoCommand, SetShape
<1> HIDE DEF x
<1>5. /\ e \in Documents /\ e.shape = [d.shape EXCEPT ![s] = x]
      /\ e.image = d.image /\ e.list = d.list /\ e.cur = d.cur
      /\ e.cmds = d.cmds /\ e.idx = d.idx
  BY <1>1, <1>3, <1>4, ShapeSet
<1>6. PointChanged(d, i, x, e)
  BY <1>5, Zenon DEF PointChanged
<1> QED
  BY <1>1, <1>2, <1>6 DEF x

\* Document e is a good one, and all that it shows otherwise than d is the shape
\* of command i.
PointMoved(d, i, x, e) ==
  /\ DocOK(e) /\ e.image = d.image /\ e.list = d.list /\ e.cur = d.cur
  /\ e.shape = [d.shape EXCEPT ![d.cmds[i].shape] = x]
  /\ Len(e.cmds) = Len(d.cmds) /\ \A j \in DOMAIN d.cmds : e.cmds[j].shape = d.cmds[j].shape

\* Neither does harm to the document, wherever the index goes that passes no
\* command that adds a shape.
LEMMA PointChangedOK ==
  ASSUME NEW d, DocOK(d), NEW i \in DOMAIN d.cmds, NEW x, Reshaped(d.shape[d.cmds[i].shape], x),
         NEW f, PointChanged(d, i, x, f),
         NEW n \in Nat, n <= Len(d.cmds), NEW e, e = [f EXCEPT !.idx = n],
         \A j \in DOMAIN d.cmds : IsAdd(d.cmds[j]) => (j <= n <=> j <= d.idx)
  PROVE  PointMoved(d, i, x, e)
<1>1. d \in Documents /\ f \in Documents
  BY DEF DocOK, PointChanged
<1>2. /\ e \in Documents /\ e.idx = n
      /\ e.image = f.image /\ e.list = f.list /\ e.cur = f.cur
      /\ e.shape = f.shape /\ e.cmds = f.cmds
  BY <1>1, IndexSet
<1>3. /\ e.image = d.image /\ e.list = d.list /\ e.cur = d.cur
      /\ e.shape = [d.shape EXCEPT ![d.cmds[i].shape] = x]
      /\ Len(e.cmds) = Len(d.cmds)
      /\ \A j \in DOMAIN d.cmds :
           /\ e.cmds[j].op = d.cmds[j].op /\ e.cmds[j].shape = d.cmds[j].shape
           /\ IsAdd(d.cmds[j]) => e.cmds[j].name = d.cmds[j].name
  BY <1>2, Zenon DEF PointChanged
<1>4. \A s \in ShapeIds : e.shape[s].name = d.shape[s].name
  <2>1. d.shape \in [ShapeIds -> ShapeRecords]
    BY <1>1, DocTypes
  <2>2. x.name = d.shape[d.cmds[i].shape].name
    BY DEF Reshaped
  <2> QED
    BY <1>3, <2>1, <2>2
<1>5. \A s \in Listed(d) : e.shape[s].name = d.shape[s].name
  BY <1>1, <1>4, DocTypes DEF Listed
<1>6. \A j \in DOMAIN d.cmds :
        /\ e.cmds[j].op = d.cmds[j].op /\ e.cmds[j].shape = d.cmds[j].shape
        /\ IsAdd(d.cmds[j]) => /\ e.cmds[j].name = d.cmds[j].name
                               /\ j <= e.idx <=> j <= d.idx
  BY <1>2, <1>3, Zenon
<1>7. DocOK(e)
  <2>1. SameAdds(d, e)
    BY <1>2, <1>3, <1>5, <1>6, Zenon DEF SameAdds
  <2> QED
    BY <2>1, SameAddsOK
<1> QED
  BY <1>3, <1>7 DEF PointMoved

\* The newest shape is the current one.
LEMMA CurrentIsLast ==
  ASSUME NEW d, DocOK(d), d.list # <<>>
  PROVE  /\ d.cur + 1 = Len(d.list) /\ Len(d.list) \in DOMAIN d.list
         /\ CurrentShape(d) = Last(d.list) /\ CurrentShape(d) \in ShapeIds
         /\ CurrentShape(d) \in Listed(d)
<1>1. d \in Documents /\ d.cur = Len(d.list) - 1
  BY DEF DocOK, NewestIsCurrent
<1>2. /\ d.list \in Seq(ShapeIds) /\ Len(d.list) \in Nat /\ DOMAIN d.list = 1 .. Len(d.list)
      /\ \A k \in DOMAIN d.list : d.list[k] \in ShapeIds
  BY <1>1, DocTypes
<1>3. Len(d.list) # 0
  BY <1>2, SeqEmpty
<1>4. d.cur + 1 = Len(d.list) /\ Len(d.list) \in DOMAIN d.list
  BY <1>1, <1>2, <1>3, SMTT(30)
<1> QED
  BY <1>2, <1>4 DEF CurrentShape, Last, Listed

\* The document after CanvasView::addPoint.
PointPushed(d, pt, e) ==
  /\ DocOK(e) /\ e.image = d.image /\ e.list = d.list /\ e.cur = d.cur
  /\ e.shape = [d.shape EXCEPT ![Last(d.list)] = AppendPoint(d.shape[Last(d.list)], pt)]
  /\ e.cmds # <<>>

\* A new vertex leaves the document as good as it was.
LEMMA PushAddPointOK ==
  ASSUME NEW d, DocOK(d), d.list # <<>>, NEW pt \in Points, NEW e, e = PushAddPoint(d, pt)
  PROVE  PointPushed(d, pt, e)
<1> DEFINE s == Last(d.list)
           c == [op |-> "AddPoint", shape |-> s, name |-> 0, point |-> pt]
           p == Pushed(d, c)
           n == d.idx + 1
           q == [p EXCEPT !.idx = d.idx]
           x == AppendPoint(d.shape[s], pt)
<1>1. d \in Documents /\ d.idx <= Len(d.cmds)
  BY DEF DocOK
<1>2. /\ d.cur + 1 = Len(d.list) /\ Len(d.list) \in DOMAIN d.list
      /\ CurrentShape(d) = s /\ s \in ShapeIds
      /\ d.shape \in [ShapeIds -> ShapeRecords] /\ d.idx \in Nat
  BY <1>1, CurrentIsLast, DocTypes
<1>3. d.cur # -1
  BY <1>1, <1>2, DocTypes
<1> HIDE DEF s
<1>4. c \in Commands /\ c.op = "AddPoint" /\ c.shape = s /\ c.point = pt
  BY <1>2 DEF Commands
<1>5. e = Push(d, c)
  BY <1>2, <1>3 DEF PushAddPoint
<1> HIDE DEF c
<1>6. /\ e = RedoCommand(p, p.idx)
      /\ p \in Documents
      /\ p.image = d.image /\ p.list = d.list /\ p.cur = d.cur /\ p.shape = d.shape
      /\ p.idx = n /\ DOMAIN p.cmds = 1 .. n /\ Len(p.cmds) = n
      /\ \A i \in 1 .. d.idx : p.cmds[i] = d.cmds[i]
      /\ p.cmds[n] = c
  <2>1. PushedFrom(d, c, p)
    BY <1>1, <1>4, PushedFacts, Zenon
  <2> QED
    BY <1>5, <2>1, Zenon DEF PushedFrom
<1> HIDE DEF p
<1>7. /\ q \in Documents /\ q.idx = d.idx
      /\ q.image = p.image /\ q.list = p.list /\ q.cur = p.cur
      /\ q.shape = p.shape /\ q.cmds = p.cmds
  BY <1>2, <1>6, IndexSet
<1> HIDE DEF q
<1>8. DocOK(q)
  <2>1. IsAdd(c) => c.shape \notin Referenced(d)
    BY <1>4 DEF IsAdd
  <2> QED
    BY <1>4, <1>6, <1>7, <2>1, CutOK
<1>9. n \in DOMAIN p.cmds /\ n \in Nat /\ n <= Len(q.cmds)
  BY <1>2, <1>6, <1>7
<1>10. PointChanged(p, n, x, e)
  BY <1>4, <1>6, <1>9, PointRedone
<1>11. Reshaped(d.shape[s], x)
  BY <1>2, AppendReshapes
<1> HIDE DEF x
<1> DEFINE f == [e EXCEPT !.idx = d.idx]
<1>12. PointChanged(q, n, x, f) /\ e = [f EXCEPT !.idx = n]
  <2>1. e \in Documents /\ e.idx = n
    BY <1>6, <1>10 DEF PointChanged
  <2>2. /\ f \in Documents /\ f.idx = d.idx
        /\ f.image = e.image /\ f.list = e.list /\ f.cur = e.cur
        /\ f.shape = e.shape /\ f.cmds = e.cmds
    BY <1>2, <2>1, IndexSet
  <2>3. e = [f EXCEPT !.idx = n]
    BY <2>1, Zenon DEF Documents
  <2> HIDE DEF f
  <2>4. PointChanged(q, n, x, f)
    <3>1. /\ f.image = q.image /\ f.list = q.list /\ f.cur = q.cur
          /\ f.shape = [q.shape EXCEPT ![q.cmds[n].shape] = x]
      BY <1>7, <1>10, <2>2 DEF PointChanged
    <3>2. /\ DOMAIN f.cmds = DOMAIN q.cmds /\ Len(f.cmds) = Len(q.cmds)
          /\ \A j \in DOMAIN q.cmds :
               /\ f.cmds[j].op = q.cmds[j].op /\ f.cmds[j].shape = q.cmds[j].shape
               /\ IsAdd(q.cmds[j]) => f.cmds[j].name = q.cmds[j].name
      BY <1>7, <1>10, <2>2 DEF PointChanged
    <3> QED
      BY <1>7, <2>2, <3>1, <3>2, Zenon DEF PointChanged
  <2> QED
    BY <2>3, <2>4
<1> HIDE DEF f
<1>13. \A j \in DOMAIN q.cmds : IsAdd(q.cmds[j]) => (j <= n <=> j <= q.idx)
  <2>1. \A j \in 1 .. n : j # n => (j <= n <=> j <= d.idx)
    BY <1>2
  <2>2. ~IsAdd(q.cmds[n])
    BY <1>4, <1>6, <1>7, SMTT(30) DEF IsAdd
  <2> QED
    BY <1>6, <1>7, <2>1, <2>2
<1>14. PointMoved(q, n, x, e)
  <2>1. Reshaped(q.shape[q.cmds[n].shape], x) /\ n \in DOMAIN q.cmds
    BY <1>4, <1>6, <1>7, <1>9, <1>11, SMTT(30)
  <2> QED
    BY <1>8, <1>9, <1>12, <1>13, <2>1, PointChangedOK, SMTT(30)
<1>15. e.cmds # <<>>
  <2>1. Len(e.cmds) = n
    BY <1>6, <1>7, <1>14 DEF PointMoved
  <2> QED
    BY <1>2, <2>1
<1> QED
  BY <1>4, <1>6, <1>7, <1>14, <1>15 DEF PointPushed, PointMoved, s, x

\* The shape that the last command added is the newest one.
LEMMA LastAdded ==
  ASSUME NEW d, DocOK(d), CanUndo(d), IsAdd(d.cmds[d.idx])
  PROVE  /\ d.idx \in DOMAIN d.cmds /\ d.list # <<>>
         /\ Len(d.list) \in DOMAIN d.list /\ d.cur = Len(d.list) - 1
         /\ d.list[Len(d.list)] = d.cmds[d.idx].shape
         /\ d.shape[d.list[Len(d.list)]].name = d.cmds[d.idx].name
<1> DEFINE i == d.idx
           n == Len(d.list)
<1>1. d \in Documents /\ i <= Len(d.cmds) /\ NewestIsCurrent(d) /\ Stacked(d)
  BY DEF DocOK
<1>2. /\ n \in Nat /\ DOMAIN d.list = 1 .. n /\ i \in Nat
      /\ Len(d.cmds) \in Nat /\ DOMAIN d.cmds = 1 .. Len(d.cmds)
  BY <1>1, DocTypes
<1>3. i \in DOMAIN d.cmds /\ i <= i
  BY <1>1, <1>2 DEF CanUndo
<1>4. AddHolds(d, i)
  BY <1>1, <1>3 DEF Stacked
<1>5. PICK k \in DOMAIN d.list :
        /\ d.list[k] = d.cmds[i].shape /\ d.shape[d.list[k]].name = d.cmds[i].name
        /\ \A m \in k + 1 .. n : \E j \in i + 1 .. i :
             IsAdd(d.cmds[j]) /\ d.cmds[j].shape = d.list[m]
  BY <1>3, <1>4 DEF AddHolds
<1>6. k = n
  <2>1. CASE k < n
    <3>1. n \in k + 1 .. n
      BY <1>2, <2>1
    <3>2. PICK j \in i + 1 .. i : TRUE
      BY <1>5, <3>1
    <3> QED
      BY <1>2, <3>2
  <2> QED
    BY <1>2, <2>1
<1>7. d.list # <<>>
  BY <1>2, <1>5
<1> QED
  BY <1>1, <1>3, <1>5, <1>6, <1>7 DEF NewestIsCurrent

\* Undo of AddShapeCommand takes it off again.
LEMMA UnaddedOK ==
  ASSUME NEW d, DocOK(d), CanUndo(d), IsAdd(d.cmds[d.idx]), NEW e \in Documents,
         e.list = Front(d.list), e.cur = Len(d.list) - 2, e.cmds = d.cmds, e.shape = d.shape,
         e.idx = d.idx - 1
  PROVE  DocOK(e)
<1> DEFINE z == d.idx
           n == Len(d.list)
<1>1. /\ d \in Documents /\ z <= Len(d.cmds) /\ Stacked(d) /\ UniquelyNamed(d)
      /\ \A i, j \in DOMAIN d.list : d.list[i] = d.list[j] => i = j
      /\ \A i \in DOMAIN d.cmds : d.cmds[i].op \in {"AddShape", "AddPoint"}
  BY DEF DocOK
<1>2. /\ n \in Nat /\ DOMAIN d.list = 1 .. n /\ z \in Nat /\ d.list \in Seq(ShapeIds)
      /\ Len(d.cmds) \in Nat /\ DOMAIN d.cmds = 1 .. Len(d.cmds)
  BY <1>1, DocTypes
<1>3. z \in DOMAIN d.cmds /\ n \in 1 .. n /\ d.list[n] = d.cmds[z].shape
  BY <1>2, LastAdded
<1>4. /\ DOMAIN e.list = 1 .. n - 1 /\ Len(e.list) = n - 1
      /\ \A k \in 1 .. n - 1 : e.list[k] = d.list[k]
  <2>1. \A k \in 1 .. n - 1 : d.list[k] \in ShapeIds
    BY <1>2
  <2>2. /\ Len(Front(d.list)) = n - 1 /\ Front(d.list) \in Seq(ShapeIds)
        /\ \A k \in 1 .. n - 1 : Front(d.list)[k] = d.list[k]
    BY <1>2, <1>3, <2>1, SeqPart DEF Front
  <2> QED
    BY <2>2
<1> HIDE DEF n, z
<1>5. \A k \in 1 .. n - 1 : k \in DOMAIN d.list /\ k # n
  BY <1>2
<1>6. \A k \in 1 .. n - 1 : d.list[k] # d.list[n]
  BY <1>1, <1>2, <1>3, <1>5, Zenon
<1>7. ASSUME NEW i \in DOMAIN d.cmds, IsAdd(d.cmds[i]) PROVE AddHolds(e, i)
  <2>1. AddHolds(d, i) /\ i \in Nat
    BY <1>1, <1>2, <1>7 DEF Stacked
  <2>2. CASE i = z
    <3>1. ~(i <= e.idx)
      BY <1>2, <2>2 DEF z
    <3>2. e.cmds[i].shape \notin Listed(e)
      BY <1>3, <1>4, <1>6, <2>2 DEF Listed
    <3> QED
      BY <3>1, <3>2, Zenon DEF AddHolds
  <2>3. CASE i > z
    <3>1. ~(i <= e.idx) /\ ~(i <= d.idx)
      BY <1>2, <2>1, <2>3 DEF z
    <3>2. d.cmds[i].shape \notin Listed(d)
      BY <2>1, <3>1 DEF AddHolds
    <3>3. e.cmds[i].shape \notin Listed(e)
      BY <1>4, <1>5, <3>2, SMTT(30) DEF Listed
    <3> QED
      BY <3>1, <3>3 DEF AddHolds
  <2>4. CASE i < z
    <3>1. i <= e.idx /\ i <= d.idx
      BY <1>2, <2>1, <2>4 DEF z
    <3>2. PICK k \in DOMAIN d.list :
            /\ d.list[k] = d.cmds[i].shape /\ d.shape[d.list[k]].name = d.cmds[i].name
            /\ \A m \in k + 1 .. n : \E j \in i + 1 .. z :
                 IsAdd(d.cmds[j]) /\ d.cmds[j].shape = d.list[m]
      BY <2>1, <3>1, SMTT(30) DEF AddHolds, n, z
    <3>3. k # n
      <4>1. IsAdd(d.cmds[z]) /\ i # z
        BY <2>1, <2>4 DEF z
      <4> QED
        BY <1>1, <1>3, <1>7, <3>2, <4>1 DEF Stacked
    <3>4. k \in 1 .. n - 1
      BY <1>2, <3>3
    <3>5. ASSUME NEW m \in k + 1 .. n - 1
          PROVE  \E j \in i + 1 .. e.idx : IsAdd(e.cmds[j]) /\ e.cmds[j].shape = e.list[m]
      <4>1. m \in k + 1 .. n /\ m \in 1 .. n - 1
        BY <1>2, <3>4
      <4>2. PICK j \in i + 1 .. z : IsAdd(d.cmds[j]) /\ d.cmds[j].shape = d.list[m]
        BY <3>2, <4>1
      <4>3. j # z
        BY <1>3, <1>6, <4>1, <4>2
      <4>4. j \in i + 1 .. e.idx
        BY <1>2, <2>1, <4>3 DEF z
      <4> QED
        BY <1>4, <4>1, <4>2, <4>4
    <3> QED
      BY <1>4, <3>1, <3>2, <3>4, <3>5 DEF AddHolds
  <2> QED
    BY <1>2, <2>1, <2>2, <2>3, <2>4
<1>8. Stacked(e)
  BY <1>1, <1>7 DEF Stacked
<1>9. /\ \A i, j \in DOMAIN e.list : e.list[i] = e.list[j] => i = j
      /\ UniquelyNamed(e)
  BY <1>1, <1>4, <1>5, SMTT(30) DEF UniquelyNamed
<1>10. e.cur >= -1 /\ NewestIsCurrent(e)
  <2>1. n - 2 >= -1 /\ n - 2 = (n - 1) - 1
    BY <1>2, <1>3
  <2> QED
    BY <1>4, <2>1 DEF NewestIsCurrent, n
<1>11. e.idx <= Len(e.cmds)
  BY <1>1, <1>2, SMTT(30) DEF z
<1> QED
  BY <1>1, <1>8, <1>9, <1>10, <1>11, Zenon DEF DocOK

\* Undo and redo bring no shape object that was not there before, and change no
\* label.
Walked(d, e) ==
  /\ Len(e.cmds) = Len(d.cmds) /\ Referenced(e) \subseteq Referenced(d)
  /\ \A s \in ShapeIds : e.shape[s].label = d.shape[s].label

\* So it is when the commands keep their shapes and the list takes from them.
LEMMA WalkedFrom ==
  ASSUME NEW d \in Documents, NEW e \in Documents, Len(e.cmds) = Len(d.cmds),
         \A j \in DOMAIN d.cmds : e.cmds[j].shape = d.cmds[j].shape,
         \A k \in DOMAIN e.list : e.list[k] \in Referenced(d),
         \A s \in ShapeIds : e.shape[s].label = d.shape[s].label
  PROVE  Walked(d, e)
<1>1. DOMAIN e.cmds = DOMAIN d.cmds
  BY DocTypes
<1> QED
  BY <1>1, Zenon DEF Walked, Referenced, Listed

\* QUndoStack::undo.
LEMMA UndoStepOK ==
  ASSUME NEW d, DocOK(d), CanUndo(d), NEW e, e = UndoStep(d),
         NEW i, i = d.idx
  PROVE  /\ DocOK(e) /\ e.image = d.image /\ Walked(d, e)
         /\ \/ e.shape = d.shape
            \/ /\ d.cmds[i].op = "AddPoint" /\ d.cmds[i].name \in Nat
               /\ e.shape = [d.shape EXCEPT ![d.cmds[i].shape] =
                               DeletePoint(d.shape[d.cmds[i].shape], d.cmds[i].name)]
<1> DEFINE f == UndoCommand(d, i)
           c == d.cmds[i]
<1>1. /\ d \in Documents /\ i <= Len(d.cmds) /\ UniquelyNamed(d)
      /\ \A j \in DOMAIN d.cmds : d.cmds[j].op \in {"AddShape", "AddPoint"}
  BY SMTT(30) DEF DocOK
<1>2. /\ i \in Nat /\ Len(d.cmds) \in Nat /\ DOMAIN d.cmds = 1 .. Len(d.cmds)
      /\ d.shape \in [ShapeIds -> ShapeRecords]
  BY <1>1, DocTypes
<1>3. i \in DOMAIN d.cmds /\ i - 1 \in Nat /\ i - 1 <= Len(d.cmds)
  BY <1>1, <1>2 DEF CanUndo
<1>4. e = [f EXCEPT !.idx = i - 1]
  BY DEF UndoStep
<1>5. CASE c.op = "AddShape"
  <2>1. /\ d.list # <<>> /\ d.cur = Len(d.list) - 1
        /\ c.name = d.shape[d.list[Len(d.list)]].name
    BY <1>5, LastAdded DEF IsAdd
  <2>2. f = DeleteShape(d, c.name)
    BY <1>5, Zenon DEF UndoCommand
  <2>3. /\ f \in Documents /\ f.image = d.image /\ f.list = Front(d.list)
        /\ f.cur = Len(d.list) - 2 /\ f.shape = d.shape /\ f.cmds = d.cmds
    <3> HIDE DEF c, f
    <3>1. d \in Documents /\ UniquelyNamed(d)
      BY <1>1, Zenon
    <3> QED
      BY <2>1, <2>2, <3>1, DeleteNewest, ZenonT(30)
  <2> HIDE DEF f
  <2>4. /\ e \in Documents /\ e.idx = i - 1
        /\ e.image = f.image /\ e.list = f.list /\ e.cur = f.cur
        /\ e.shape = f.shape /\ e.cmds = f.cmds
    BY <1>3, <1>4, <2>3, IndexSet
  <2>5. DocOK(e)
    BY <1>5, <2>3, <2>4, UnaddedOK, SMTT(30) DEF IsAdd
  <2>6. Walked(d, e)
    <3>1. \A k \in DOMAIN e.list : e.list[k] \in Referenced(d)
      <4>1. d.list \in Seq(ShapeIds) /\ Len(d.list) \in Nat /\ DOMAIN d.list = 1 .. Len(d.list)
        BY <1>1, DocTypes
      <4>2. \A k \in 1 .. Len(d.list) - 1 : d.list[k] \in Listed(d)
        BY <4>1 DEF Listed
      <4>3. \A k \in DOMAIN Front(d.list) : Front(d.list)[k] \in Listed(d)
        BY <4>1, <4>2, SeqPart, SMTT(30) DEF Front
      <4> QED
        BY <2>3, <2>4, <4>3 DEF Referenced
    <3> QED
      BY <1>1, <2>3, <2>4, <3>1, WalkedFrom, Zenon
  <2> QED
    BY <2>3, <2>4, <2>5, <2>6
<1>6. CASE c.op = "AddPoint"
  <2> DEFINE x == DeletePoint(d.shape[c.shape], c.name)
  <2>1. c.shape \in ShapeIds /\ c.name \in Nat /\ PointChanged(d, i, x, f)
    BY <1>1, <1>3, <1>6, PointUndone, SMTT(30)
  <2>2. Reshaped(d.shape[c.shape], x)
    BY <1>2, <2>1, DeleteReshapes
  <2> HIDE DEF f, x
  <2>3. \A j \in DOMAIN d.cmds : IsAdd(d.cmds[j]) => (j <= i - 1 <=> j <= d.idx)
    <3>1. \A j \in DOMAIN d.cmds : j # i => (j <= i - 1 <=> j <= d.idx)
      BY <1>2
    <3> QED
      BY <1>6, <3>1 DEF IsAdd
  <2>4. PointMoved(d, i, x, e)
    BY <1>3, <1>4, <2>1, <2>2, <2>3, PointChangedOK
  <2>5. Walked(d, e)
    <3>1. \A k \in DOMAIN e.list : e.list[k] \in Referenced(d)
      BY <2>4, Zenon DEF PointMoved, Referenced, Listed
    <3>2. \A t \in ShapeIds : e.shape[t].label = d.shape[t].label
      BY <1>2, <2>1, <2>2, <2>4, Zenon DEF PointMoved, Reshaped
    <3>3. e \in Documents
      BY <2>4 DEF PointMoved, DocOK
    <3> QED
      BY <1>1, <2>4, <3>1, <3>2, <3>3, WalkedFrom, Zenon DEF PointMoved
  <2> QED
    BY <1>6, <2>1, <2>4, <2>5 DEF PointMoved, x
<1> QED
  BY <1>1, <1>3, <1>5, <1>6, Zenon

\* The user does not see a difference between shapes x and y in what is finished
\* or held.
SameFlags(x, y) == y.closed = x.closed /\ y.press = x.press /\ y.drag = x.drag

\* QUndoStack::redo.
LEMMA RedoStepOK ==
  ASSUME NEW d, DocOK(d), CanRedo(d), NEW e, e = RedoStep(d)
  PROVE  /\ DocOK(e) /\ e.image = d.image /\ Walked(d, e)
         /\ \A s \in ShapeIds : SameFlags(d.shape[s], e.shape[s])
<1> DEFINE i == d.idx + 1
           f == RedoCommand(d, i)
           c == d.cmds[i]
<1>1. /\ d \in Documents
      /\ \A j \in DOMAIN d.cmds : d.cmds[j].op \in {"AddShape", "AddPoint"}
  BY DEF DocOK
<1>2. /\ d.idx \in Nat /\ Len(d.cmds) \in Nat /\ DOMAIN d.cmds = 1 .. Len(d.cmds)
      /\ d.shape \in [ShapeIds -> ShapeRecords]
      /\ \A j \in DOMAIN d.cmds : d.cmds[j].shape \in ShapeIds
  BY <1>1, DocTypes
<1>3. i \in DOMAIN d.cmds /\ i \in Nat /\ i <= Len(d.cmds)
  BY <1>1, <1>2 DEF CanRedo
<1>4. e = [f EXCEPT !.idx = i]
  BY SMTT(30) DEF RedoStep
<1>5. CASE c.op = "AddShape"
  <2> DEFINE s == c.shape
             nm == NextName(d, s)
  <2>1. f = AddAndRemember(d, i)
    BY <1>5, ZenonT(30) DEF RedoCommand
  <2>2. /\ s \in ShapeIds /\ f \in Documents /\ f.image = d.image
        /\ f.list = Append(d.list, s) /\ f.cur = Len(d.list)
        /\ f.shape = [d.shape EXCEPT ![s] = [d.shape[s] EXCEPT !.name = nm]]
        /\ f.cmds = [d.cmds EXCEPT ![i] = [d.cmds[i] EXCEPT !.name = nm]]
    <3>1. Redone(d, i, s, nm, f)
      BY <1>1, <1>3, <1>5, <2>1, RedoneAdd, Zenon
    <3> QED
      BY <3>1, Zenon DEF Redone
  <2>3. nm \in Names /\ nm \notin ListedNames(d)
    BY <1>1, <2>2, NextNameIsFree, ZenonT(30)
  <2> HIDE DEF f, nm
  <2>4. /\ e \in Documents /\ e.idx = i
        /\ e.image = f.image /\ e.list = f.list /\ e.cur = f.cur
        /\ e.shape = f.shape /\ e.cmds = f.cmds
    <3>1. f \in Documents /\ i \in Nat
      BY <1>3, <2>2, Zenon
    <3> HIDE DEF i
    <3> QED
      BY <1>4, <3>1, IndexSet
  <2>5. Added(d, i, s, nm, e)
    BY <1>3, <1>5, <2>2, <2>3, <2>4, ZenonT(30) DEF Added, IsAdd
  <2>6. DocOK(e)
    BY <2>5, AddedOK
  <2>7. ASSUME NEW t \in ShapeIds PROVE SameFlags(d.shape[t], e.shape[t])
    <3>1. \A x \in ShapeRecords : SameFlags(x, [x EXCEPT !.name = nm])
      BY DEF ShapeRecords, SameFlags
    <3>2. e.shape[t] = IF t = s THEN [d.shape[s] EXCEPT !.name = nm] ELSE d.shape[t]
      BY <1>2, <2>2, <2>4, ZenonT(30)
    <3> QED
      BY <1>2, <3>1, <3>2, ZenonT(30) DEF SameFlags
  <2>8. Walked(d, e)
    <3>1. \A k \in DOMAIN e.list : e.list[k] \in Referenced(d)
      <4>1. s \in Referenced(d) /\ Listed(d) \subseteq Referenced(d)
        BY <1>3, CommandShape, Zenon DEF Referenced
      <4>2. \A k \in DOMAIN e.list : e.list[k] \in Listed(d) \cup {s}
        <5>1. s \in ShapeIds /\ e.list = Append(d.list, s)
          BY <2>2, <2>4, Zenon
        <5> HIDE DEF s
        <5> QED
          BY <1>1, <5>1, AppendedList, Zenon
      <4> QED
        BY <4>1, <4>2, Zenon
    <3>2. /\ Len(e.cmds) = Len(d.cmds)
          /\ \A j \in DOMAIN d.cmds : e.cmds[j].shape = d.cmds[j].shape
      <4>1. AddedLists(d, i, s, nm, e)
        BY <2>5, AddedFacts, Zenon
      <4> QED
        BY <4>1, Zenon DEF AddedLists
    <3>3. ASSUME NEW t \in ShapeIds PROVE e.shape[t].label = d.shape[t].label
      <4>1. \A x \in ShapeRecords : [x EXCEPT !.name = nm].label = x.label
        BY DEF ShapeRecords
      <4>2. [d.shape[s] EXCEPT !.name = nm].label = d.shape[s].label
        BY <1>2, <2>2, <4>1, ZenonT(30)
      <4> QED
        BY <1>2, <2>2, <2>4, <4>2, ZenonT(30)
    <3> QED
      BY <1>1, <2>4, <3>1, <3>2, <3>3, WalkedFrom, Zenon
  <2> QED
    BY <2>2, <2>4, <2>6, <2>7, <2>8, ZenonT(30)
<1>6. CASE c.op = "AddPoint"
  <2> DEFINE x == AppendPoint(d.shape[c.shape], c.point)
  <2>1. c.shape \in ShapeIds /\ c.point \in Points /\ PointChanged(d, i, x, f)
    BY <1>1, <1>3, <1>6, PointRedone, Zenon
  <2>2. Reshaped(d.shape[c.shape], x)
    BY <1>2, <2>1, AppendReshapes, ZenonT(30)
  <2> HIDE DEF f, x
  <2>3. \A j \in DOMAIN d.cmds : IsAdd(d.cmds[j]) => (j <= i <=> j <= d.idx)
    <3>1. \A j \in DOMAIN d.cmds : j # i => (j <= i <=> j <= d.idx)
      BY <1>2
    <3> QED
      BY <1>6, <3>1 DEF IsAdd
  <2>4. PointMoved(d, i, x, e)
    BY <1>3, <1>4, <2>1, <2>2, <2>3, PointChangedOK, SMTT(30)
  <2>5. e.shape = [d.shape EXCEPT ![c.shape] = x]
    BY <2>4, SMTT(30) DEF PointMoved
  <2>6. ASSUME NEW t \in ShapeIds PROVE SameFlags(d.shape[t], e.shape[t])
    BY <1>2, <2>1, <2>2, <2>5, ZenonT(30) DEF SameFlags, Reshaped
  <2>7. Walked(d, e)
    <3>1. \A k \in DOMAIN e.list : e.list[k] \in Referenced(d)
      BY <2>4, Zenon DEF PointMoved, Referenced, Listed
    <3>2. \A t \in ShapeIds : e.shape[t].label = d.shape[t].label
      BY <1>2, <2>1, <2>2, <2>4, Zenon DEF PointMoved, Reshaped
    <3>3. e \in Documents
      BY <2>4 DEF PointMoved, DocOK
    <3> QED
      BY <1>1, <2>4, <3>1, <3>2, <3>3, WalkedFrom, Zenon DEF PointMoved
  <2> QED
    BY <2>4, <2>6, <2>7 DEF PointMoved
<1> QED
  BY <1>1, <1>3, <1>5, <1>6

\* An empty canvas with an empty undo stack.
LEMMA BlankOK ==
  ASSUME NEW e \in Documents, e.list = <<>>, e.cmds = <<>>, e.idx = 0, e.cur >= -1
  PROVE  DocOK(e)
<1>1. DOMAIN e.list = {} /\ DOMAIN e.cmds = {} /\ Len(e.cmds) = 0
  OBVIOUS
<1>2. Stacked(e) /\ UniquelyNamed(e) /\ NewestIsCurrent(e)
  BY <1>1, Zenon DEF Stacked, UniquelyNamed, NewestIsCurrent
<1> QED
  BY <1>1, <1>2 DEF DocOK

\* The canvas at the start of the program.
LEMMA EmptyOK == DocOK(EmptyDocument) /\ \A s \in ShapeIds : ~Grab(EmptyDocument.shape[s])
<1> DEFINE e == EmptyDocument
<1>1. NoObjects \in [ShapeIds -> ShapeRecords] /\ \A s \in ShapeIds : ~Grab(NoObjects[s])
  <2>1. NewShape("Polygon") \in ShapeRecords
    BY NewShapeType DEF DrawModes
  <2>2. ~Grab(NewShape("Polygon"))
    BY DEF Grab, NewShape
  <2> QED
    BY <2>1, <2>2 DEF NoObjects
<1>2. /\ e.list = <<>> /\ e.cmds = <<>> /\ e.idx = 0 /\ e.cur = -1 /\ e.shape = NoObjects
      /\ e.image = FALSE
  BY DEF EmptyDocument
<1>3. e \in Documents
  <2>1. <<>> \in Seq(ShapeIds) /\ <<>> \in Seq(Commands) /\ -1 \in Int /\ 0 \in Nat
    OBVIOUS
  <2> QED
    BY <1>1, <2>1, Zenon DEF EmptyDocument, Documents
<1> HIDE DEF e
<1>4. DocOK(e)
  BY <1>2, <1>3, BlankOK
<1> QED
  BY <1>1, <1>2, <1>4 DEF e

\* CanvasBase::clean, and the image that openFile loads after it.
LEMMA CleanOK ==
  ASSUME NEW d, DocOK(d), NEW b \in BOOLEAN,
         NEW e, (e = Clean(d) /\ b = FALSE) \/ e = [Clean(d) EXCEPT !.image = b]
  PROVE  /\ DocOK(e) /\ e.image = b /\ e.list = <<>> /\ e.cmds = <<>>
         /\ \A s \in ShapeIds : ~Grab(e.shape[s])
<1> DEFINE z == EmptyDocument
<1>1. /\ z \in Documents /\ z.list = <<>> /\ z.cmds = <<>> /\ z.idx = 0 /\ z.image = FALSE
      /\ \A s \in ShapeIds : ~Grab(z.shape[s])
  BY EmptyOK DEF DocOK, EmptyDocument
<1>2. d.cur \in Int /\ d.cur >= -1
  BY DocTypes DEF DocOK
<1>3. Clean(d) = [z EXCEPT !.cur = d.cur]
  BY DEF Clean
<1> HIDE DEF z
<1>4. /\ e \in Documents /\ e.list = <<>> /\ e.cmds = <<>> /\ e.idx = 0 /\ e.cur = d.cur
      /\ e.shape = z.shape /\ e.image = b
  BY <1>1, <1>2, <1>3, ZenonT(30) DEF Documents
<1> QED
  BY <1>1, <1>2, <1>4, BlankOK

\* Document e is d with a shape of a label file at the end of the list.
ShapeLoaded(d, s, type, f, e) ==
  /\ DocOK(e) /\ e.image = d.image /\ e.cmds = <<>> /\ e.list = Append(d.list, s)
  /\ \A t \in ShapeIds : t # s => e.shape[t] = d.shape[t]
  /\ ~Grab(e.shape[s])
  /\ \E nm \in Names : e.shape[s] = [LoadedShape(type, f) EXCEPT !.name = nm]

\* A shape of a label file goes on the canvas past the undo stack.
LEMMA LoadedOK ==
  ASSUME NEW d, DocOK(d), d.cmds = <<>>, NEW s \in ShapeIds, s \notin Listed(d),
         NEW type \in DrawModes, NEW f \in FileShapes, NEW e, e = AddLoaded(d, s, type, f)
  PROVE  ShapeLoaded(d, s, type, f, e)
<1> DEFINE x == LoadedShape(type, f)
           d1 == SetShape(d, s, x)
           nm == NextName(d1, s)
           l == Len(d.list)
<1>1. /\ d \in Documents /\ UniquelyNamed(d) /\ d.idx <= Len(d.cmds) /\ x \in ShapeRecords
      /\ \A i, j \in DOMAIN d.list : d.list[i] = d.list[j] => i = j
  BY LoadedShapeType DEF DocOK
<1>2. x.press = FALSE /\ x.drag = FALSE
  BY DEF LoadedShape, NewShape
<1>3. /\ l \in Nat /\ DOMAIN d.list = 1 .. l /\ d.list \in Seq(ShapeIds)
      /\ \A k \in 1 .. l : d.list[k] \in ShapeIds
      /\ d.shape \in [ShapeIds -> ShapeRecords] /\ d.idx \in Nat
  BY <1>1, DocTypes, SMTT(30)
<1> HIDE DEF x
<1>4. /\ d1 \in Documents /\ d1.shape = [d.shape EXCEPT ![s] = x]
      /\ d1.image = d.image /\ d1.list = d.list /\ d1.cur = d.cur
      /\ d1.cmds = d.cmds /\ d1.idx = d.idx
  BY <1>1, ShapeSet
<1>5. e = AddShape(d1, s)
  BY DEF AddLoaded, x
<1> HIDE DEF d1
<1>6. /\ e \in Documents /\ e.image = d.image /\ e.list = Append(d.list, s)
      /\ e.cur = l /\ e.cmds = <<>> /\ e.idx = d.idx
      /\ e.shape = [d1.shape EXCEPT ![s] = [d1.shape[s] EXCEPT !.name = nm]]
  <2> DEFINE a == AddShape(d1, s)
  <2>1. /\ a \in Documents /\ a.image = d1.image /\ a.list = Append(d1.list, s)
        /\ a.cur = Len(d1.list) /\ a.cmds = d1.cmds /\ a.idx = d1.idx
        /\ a.shape = [d1.shape EXCEPT ![s] = [d1.shape[s] EXCEPT !.name = nm]]
    BY <1>4, AddShapeType, Zenon
  <2> HIDE DEF a, nm
  <2>2. e = a
    BY <1>5, SMTT(30) DEF a
  <2> QED
    BY <1>4, <2>1, <2>2, Zenon
<1>7. nm \in Names /\ nm \notin ListedNames(d1)
  BY <1>4, NextNameIsFree
<1> HIDE DEF nm
<1>8. e.shape[s] = [x EXCEPT !.name = nm] /\ \A t \in ShapeIds : t # s => e.shape[t] = d.shape[t]
  <2>1. d1.shape[s] = x /\ d1.shape \in [ShapeIds -> ShapeRecords]
    BY <1>3, <1>4, DocTypes
  <2>2. e.shape[s] = [x EXCEPT !.name = nm]
    BY <1>6, <2>1
  <2>3. \A t \in ShapeIds : t # s => e.shape[t] = d1.shape[t] /\ d1.shape[t] = d.shape[t]
    BY <1>3, <1>4, <1>6, <2>1
  <2> QED
    BY <2>2, <2>3, SMTT(30)
<1>9. e.shape[s].name = nm /\ ~Grab(e.shape[s])
  BY <1>1, <1>2, <1>7, <1>8, SMTT(30) DEF ShapeRecords, Grab
<1>10. \A k \in 1 .. l : d.list[k] # s
  BY <1>3 DEF Listed
<1>11. /\ Len(e.list) = l + 1 /\ DOMAIN e.list = 1 .. l + 1 /\ e.list[l + 1] = s
       /\ \A k \in 1 .. l : e.list[k] = d.list[k]
  BY <1>3, <1>6, SeqAppend, SMTT(30)
<1>12. \A k \in 1 .. l : e.shape[e.list[k]].name # nm
  <2>1. \A k \in 1 .. l : d1.shape[d1.list[k]].name \in ListedNames(d1)
    BY <1>3, <1>4 DEF ListedNames, Listed
  <2>2. \A k \in 1 .. l : d1.shape[d1.list[k]] = e.shape[e.list[k]]
    BY <1>3, <1>4, <1>8, <1>10, <1>11, SMTT(30)
  <2> QED
    BY <1>7, <2>1, <2>2, Zenon
<1> HIDE DEF l
<1>13. \A i \in 1 .. l + 1 : i \in 1 .. l \/ i = l + 1
  BY <1>3, SMTT(30)
<1>14. UniquelyNamed(e)
  <2>1. \A i, j \in 1 .. l : e.shape[e.list[i]].name = e.shape[e.list[j]].name => i = j
    <3>1. \A k \in 1 .. l : e.shape[e.list[k]] = d.shape[d.list[k]]
      BY <1>3, <1>8, <1>10, <1>11, SMTT(30)
    <3> QED
      BY <1>1, <1>3, <3>1, SMTT(30) DEF UniquelyNamed
  <2> QED
    BY <1>9, <1>11, <1>12, <1>13, <2>1, SMTT(30) DEF UniquelyNamed
<1>15. \A i, j \in DOMAIN e.list : e.list[i] = e.list[j] => i = j
  BY <1>1, <1>3, <1>10, <1>11, <1>13
<1>16. e.cur >= -1 /\ NewestIsCurrent(e)
  BY <1>3, <1>6, <1>11 DEF NewestIsCurrent
<1>17. DOMAIN e.cmds = {} /\ Len(e.cmds) = 0 /\ e.idx <= Len(e.cmds)
  BY <1>1, <1>3, <1>6
<1>18. Stacked(e)
  BY <1>17, Zenon DEF Stacked
<1>19. DocOK(e)
  BY <1>6, <1>14, <1>15, <1>16, <1>17, <1>18, Zenon DEF DocOK
<1> QED
  BY <1>6, <1>7, <1>8, <1>9, <1>19, Zenon DEF x, ShapeLoaded
=============================================================================
