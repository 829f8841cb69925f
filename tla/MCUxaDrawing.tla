---------------------------- MODULE MCUxaDrawing ---------------------------
EXTENDS UxaDrawing, TLC

CONSTANTS wp, A, M, t1, t2, bits, m1, m2, Everywhere

MCPixmaps == {Screen, Client, SolidClear, wp, A, M, t1, t2, bits, m1, m2}
MCWidth ==
  Screen :> 6 @@ Client :> 6 @@ SolidClear :> 1 @@ wp :> 3 @@ A :> 5 @@ M :> 4
    @@ t1 :> 1 @@ t2 :> 2 @@ bits :> 2 @@ m1 :> 5 @@ m2 :> 5
MCSurfaced == {MCPixmaps \ {Client, M, bits, m2}, {Screen, wp, t1}}
MCScratch == {m1, m2}

Window(p, x, w, delta) ==
  [pixmap |-> p, x |-> x, y |-> 0, width |-> w, delta |-> delta, window |-> TRUE]
root == Window(Screen, 0, 6, 0)
plain == Window(Screen, 1, 4, 0)
redirected == Window(wp, 1, 3, -1)
MCAtOrigin == {root, OfPixmap(A), OfPixmap(M)} \union IF Everywhere THEN {plain} ELSE {}
MCDrawables == {root, plain, redirected, OfPixmap(A), OfPixmap(M)}
MCSources == {plain, OfPixmap(A), OfPixmap(bits)}

Gc(fill, isPlain, tile, stipple) ==
  [fill |-> fill, plain |-> isPlain, tile |-> tile, origin |-> 1, stipple |-> stipple]
MCGcs ==
  {Gc("solid", TRUE, NoPixmap, NoPixmap), Gc("solid", FALSE, NoPixmap, NoPixmap),
   Gc("tiled", TRUE, t1, NoPixmap), Gc("tiled", TRUE, t2, NoPixmap),
   Gc("tiled", FALSE, t2, bits), Gc("stippled", TRUE, NoPixmap, bits)}

MCPictures ==
  {SolidPicture(FALSE), SolidPicture(TRUE), PictureOf(t1, "xrgb", TRUE),
   PictureOf(t2, "argb", TRUE), PictureOf(A, "argb", FALSE),
   [PictureOf(A, "xrgb", TRUE) EXCEPT !.tx = 1],
   [PictureOf(A, "argb", FALSE) EXCEPT !.transform = "affine"],
   [PictureOf(M, "argb", FALSE) EXCEPT !.transform = "odd"],
   [PictureOf(A, "argb", FALSE) EXCEPT !.alphaMap = TRUE]}
MCMasks == {PictureOf(m1, "a8", FALSE), PictureOf(m2, "a8", FALSE), SolidPicture(FALSE)}
MCAreas == {{0, 1, 3}, {2}, 0 .. 4}
MCOffsets == {0, 1}
=============================================================================
