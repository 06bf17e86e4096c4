----------------------------- MODULE MCSession ------------------------------
(***************************************************************************)
(* Instances of Session for TLC.                                           *)
(***************************************************************************)
EXTENDS Session, TLC

CONSTANTS s1, s2

MCShapeIds == {s1, s2}
MCPoints   == -2 .. 6

Picture(d, b, x) == [dir |-> d, base |-> b, suffix |-> x]

\* Two pictures in a directory, and one in another that has the name of one of
\* them.
MCPictures == {Picture("d1", "a", "jpg"), Picture("d1", "b", "jpg"),
               Picture("d2", "b", "jpg")}
MCWidth == [p \in MCPictures |-> IF p.base = "a" THEN 4 ELSE 3]

\* At first there is one label file: with a picture of odd width, where it may
\* be unreadable at its end, or with one of even width.
FirstShape(label, pts) ==
  [type |-> "polygon", label |-> label, note |-> "own", pts |-> pts]
FirstDisk(state, image, shapes) ==
  [[f \in LabelFiles |-> Absent] EXCEPT
     ![<<"d2", "a">>] = [state |-> state, image |-> image, shapes |-> shapes]]
MCFirstDisks ==
  {FirstDisk(state, Picture("d2", "b", "jpg"), <<FirstShape(NoLabel, <<3>>)>>) :
     state \in {"whole", "part"}}
  \cup {FirstDisk("whole", Picture("d1", "a", "jpg"),
                  <<FirstShape(NoLabel, <<4, 5>>), FirstShape("cat", <<>>)>>)}

Symmetry == Permutations(MCShapeIds)
=============================================================================
