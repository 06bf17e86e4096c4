----------------------------- MODULE MCDocument -----------------------------
(***************************************************************************)
(* Instances of Document for TLC.                                          *)
(***************************************************************************)
EXTENDS Document, TLC

CONSTANTS p1, s1, s2, s3

MCShapeIds == {s1, s2, s3}
MCPoints   == {p1}

\* No shape, one, and two shapes in a file.
MCLabelFiles ==
  LET f == [pts |-> <<p1>>, label |-> NoLabel]
      g == [pts |-> <<>>, label |-> "cat"]
  IN  {<<>>, <<f>>, <<f, g>>}

Symmetry == Permutations(MCShapeIds)
=============================================================================
