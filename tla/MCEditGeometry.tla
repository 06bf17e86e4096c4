--------------------------- MODULE MCEditGeometry ---------------------------
(* EditGeometry for TLC: the mouse is on a grid that goes past the image.  *)
EXTENDS EditGeometry

Grid(xs, ys) == {MapFromImg(<<Pixel * x, Pixel * y>>) : x \in xs, y \in ys}
MouseGrid == Grid({2, 5, 12}, {3, 5, 11})
=============================================================================
