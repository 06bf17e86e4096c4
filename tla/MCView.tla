------------------------------- MODULE MCView -------------------------------
EXTENDS View

\* The images are fitted at 9.8, 10.78, 0.049 and 0.0539 times their size, on both
\* sides of the limits of zooming.
MCImages == {<<2, 2>>, <<400, 400>>}
MCViews == {<<20, 30>>, <<22, 30>>}
MCCenters == {0, 5}
MCCursor == {-1, 0, 1}
=============================================================================
