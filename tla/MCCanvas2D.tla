----------------------------- MODULE MCCanvas2D -----------------------------
(***************************************************************************)
(* Instances of Canvas2D for TLC.                                          *)
(***************************************************************************)
EXTENDS Canvas2D, TLC

CONSTANTS p1, s1, s2, s3

MCShapeIds == {s1, s2, s3}
TwoShapeIds == {s1, s2}
MCPoints == {p1}
MCShifts == {[p \in MCPoints |-> p]}

\* Two finished shapes: with enough vertices to have an area, and with few.
MCLabelFiles ==
  LET f == [pts |-> <<p1, p1, p1>>, label |-> NoLabel]
      g == [pts |-> <<p1, p1>>, label |-> NoLabel]
  IN  {<<f>>, <<g, f>>}

Symmetry == Permutations(MCShapeIds)
TwoSymmetry == Permutations(TwoShapeIds)
=============================================================================
