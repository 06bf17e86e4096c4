-------------------------------- MODULE View --------------------------------
(***************************************************************************)
(* The view on the image: zoom by the wheel and by the menu, and fitting   *)
(* the image to the window (CanvasBase::wheelEvent, zoomIn, zoomOut and    *)
(* setSize, CanvasView::adjustFitWindow).  The canvas keeps the scale      *)
(* twice: in m_scaleValue and, by setScale, in the graphics item.          *)
(*                                                                         *)
(* One axis stands for both: a scale and a position are whole numbers in   *)
(* 1/Unit, in which MaxZooms zooms after a fit are exact.                  *)
(***************************************************************************)
EXTENDS Integers

CONSTANTS
  Images,    \* widths and heights of images, <<w, h>>
  Views,     \* sizes of the view
  Centers,   \* where the middle of the view can be in the scene
  Cursor,    \* positions of the mouse on the canvas
  Unit,
  MaxZooms   \* bound: zooms after a fit

ASSUME ViewAssumption ==
  /\ Images \subseteq (Nat \ {0}) \X (Nat \ {0}) /\ Views \subseteq Nat \X Nat
  /\ Centers \subseteq Int /\ Cursor \subseteq Int
  /\ Unit \in Nat \ {0} /\ MaxZooms \in Nat

NoImage == <<0, 0>>

VARIABLES
  image,       \* size of m_image
  view,        \* size of the view
  scaleValue,  \* m_scaleValue
  scale,       \* scale() of the item
  itemPos,     \* pos() of the item
  zooms,       \* zooms since the last fit
  fault        \* "none" or "uncaught"
viewVars == <<image, view, scaleValue, scale, itemPos, zooms, fault>>

ViewInit ==
  /\ image = NoImage /\ view \in Views
  /\ scaleValue = Unit /\ scale = Unit /\ itemPos = 0
  /\ zooms = 0 /\ fault = "none"

-----------------------------------------------------------------------------
(* Zooming by a twentieth, m_scaleStep.                                    *)

Step(s) == s \div 20

ZoomedIn(s) == IF s >= 10 * Unit THEN s ELSE s + Step(s)
ZoomedOut(s) == IF s <= Step(Unit) THEN s ELSE s - Step(s)

\* zoomIn and zoomOut: setScale is not called when a limit is met.
Zoom(s) ==
  /\ s # scaleValue /\ zooms < MaxZooms
  /\ scaleValue' = s /\ scale' = s
  /\ zooms' = zooms + 1

ZoomMenu ==
  /\ fault = "none"
  /\ Zoom(ZoomedIn(scaleValue)) \/ Zoom(ZoomedOut(scaleValue))
  /\ UNCHANGED <<image, view, itemPos, fault>>

\* Mutant: the canvas moves by the new scale.
ShiftByNew(old, new, p) == IF new > old THEN -(p * Step(new)) ELSE p * Step(new)

\* moveBy of wheelEvent.
Shift(old, new, p) == IF new > old THEN -(p * Step(old)) ELSE p * Step(old)

Wheel(p) ==
  /\ fault = "none"
  /\ \E s \in {ZoomedIn(scaleValue), ZoomedOut(scaleValue)} :
       /\ Zoom(s)
       /\ itemPos' = itemPos + Shift(scaleValue, s, p)
  /\ UNCHANGED <<image, view, fault>>

-----------------------------------------------------------------------------
(* Fitting.                                                                *)

FitScale(size, img) ==
  LET a1 == (98 * (Unit \div 100) * size[1]) \div img[1]
      a2 == (98 * (Unit \div 100) * size[2]) \div img[2]
  IN  IF a1 < a2 THEN a1 ELSE a2

\* setSize and setPos with an image.
Fit(size, img) ==
  /\ scaleValue' = FitScale(size, img)
  /\ scale' = scaleValue'
  /\ itemPos' \in Centers /\ zooms' = 0

\* setSize sets m_scaleValue before imgWidth() throws without an image.
FitNothing == scaleValue' = Unit /\ UNCHANGED <<scale, itemPos, zooms>>

\* resizeEvent catches the exception.
Resize ==
  /\ fault = "none"
  /\ view' \in Views
  /\ IF image = NoImage THEN FitNothing ELSE Fit(view', image)
  /\ UNCHANGED <<image, fault>>

\* The action that fits the image to the window does not.
FitMenu ==
  /\ fault = "none"
  /\ IF image = NoImage
     THEN FitNothing /\ fault' = "uncaught"
     ELSE Fit(view, image) /\ UNCHANGED fault
  /\ UNCHANGED <<image, view>>

\* CanvasView::loadImage with an image.
LoadImage ==
  /\ fault = "none"
  /\ image' \in Images
  /\ Fit(view, image')
  /\ UNCHANGED <<view, fault>>

\* CanvasBase::clean, which openFile calls before its dialog.
Clean ==
  /\ fault = "none"
  /\ image' = NoImage
  /\ UNCHANGED <<view, scaleValue, scale, itemPos, zooms, fault>>

ViewNext ==
  \/ ZoomMenu
  \/ \E p \in Cursor : Wheel(p)
  \/ Resize
  \/ FitMenu
  \/ LoadImage
  \/ Clean

ViewSpec == ViewInit /\ [][ViewNext]_viewVars

-----------------------------------------------------------------------------
(* Properties.                                                             *)

\* The point of the scene at which a point of the canvas is.
Scene(p) == itemPos + scale * p

\* The wheel keeps the point of an image under the mouse where it is, at
\* every scale and after every resize.
ImageStaysUnderMouse ==
  [][\A p \in Cursor : Wheel(p) /\ image # NoImage => Scene(p)' = Scene(p)]_viewVars
=============================================================================
