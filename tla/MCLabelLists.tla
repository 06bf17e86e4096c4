---------------------------- MODULE MCLabelLists ----------------------------
EXTENDS LabelLists, TLC

MCLabelFiles == {<<"cat", NoLabel>>, <<"cat", "cat">>}
Symmetric == Permutations(ShapeIds)
=============================================================================
