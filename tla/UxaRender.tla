------------------------------ MODULE UxaRender -----------------------------
(***************************************************************************)
(* The requests of the RENDER extension (uxa-render.c).  A picture is      *)
(*   drawable   or NoDrawable: a solid colour                              *)
(*   clip       what may be drawn of it                                    *)
(*   format     "argb", "xrgb", "a8" or "other"                            *)
(*   transform  "shift", by the integer tx, "affine", or "odd": neither,   *)
(*              or a convolution                                           *)
(*   repeat, alphaMap, opaque (of a solid colour)                          *)
(* Coordinates xSrc, xMask and xDst are those of the request.              *)
(***************************************************************************)
EXTENDS UxaCore

CONSTANTS
  NoDrawable, NoPicture,
  SolidClear          \* the pixmap of solid_clear, once it is made

VARIABLE capable      \* can the device composite: qxl_has_composite

None == <<"none">>      \* outside a picture: transparent

SolidPicture(opaque) ==
  [drawable |-> NoDrawable, clip |-> {}, format |-> "argb", transform |-> "shift",
   tx |-> 0, repeat |-> TRUE, alphaMap |-> FALSE, opaque |-> opaque]

PictureOf(p, format, repeat) ==
  [SolidPicture(FALSE) EXCEPT !.drawable = OfPixmap(p), !.clip = Pixels(p),
                              !.format = format, !.repeat = repeat]

Transformed(pict, u) ==
  CASE pict.transform = "shift" -> u + pict.tx
    [] pict.transform = "affine" -> 2 * u
    [] pict.transform = "odd" -> 1 - u

(* What fbComposite takes from a picture at point u of its drawable.       *)
Sample(pict, u) ==
  LET d == pict.drawable
      at == Transformed(pict, u)
  IN IF d = NoDrawable THEN Ink
     ELSE IF pict.repeat THEN Pixel(d.pixmap, (at % d.width) + d.x + d.delta)
     ELSE IF at \in 0 .. d.width - 1 THEN Pixel(d.pixmap, at + d.x + d.delta)
     ELSE None

(* And the device from its surface, whose transform it may be told is not  *)
(* the picture's own.                                                      *)
DeviceSample(pict, transform, u) ==
  LET p == pict.drawable.pixmap
      at == Transformed(transform, u)
  IN IF pict.repeat THEN Pixel(p, at % Width[p])
     ELSE IF at \in Pixels(p) THEN Pixel(p, at) ELSE None

Opaque(pict) == IF pict.drawable = NoDrawable THEN pict.opaque ELSE pict.format = "xrgb"

(* Which operators replace what was there.                                 *)
RuleOf(op, src, mask) ==
  IF op \in {"Clear", "Src"} \/ (op = "Over" /\ mask = NoPicture /\ Opaque(src))
  THEN "copy" ELSE op

Combined(op, source, mask) ==
  IF op = "Clear" THEN Zero ELSE IF mask = Ink THEN source ELSE In(source, mask)

(* miComputeCompositeRegion                                                *)
Composed(dst, xDst, w) ==
  (xDst + dst.drawable.x .. xDst + dst.drawable.x + w - 1) \intersect dst.clip

(* What a request to composite is to show, pixel by pixel.                 *)
Terms(op, src, mask, dst, xSrc, xMask, xDst, w) ==
  LET d == dst.drawable
      rel(x) == x - d.delta - d.x - xDst
  IN [x \in Here(Composed(dst, xDst, w), d) |->
        Combined(op, Sample(src, rel(x) + xSrc),
                 IF mask = NoPicture THEN Ink ELSE Sample(mask, rel(x) + xMask))]

-----------------------------------------------------------------------------
(* uxa_check_composite; the region is uxa_damage_composite's.              *)
AccessTo(pict, body) ==
  IF pict = NoPicture THEN body
  ELSE IF pict.drawable = NoDrawable THEN body
  ELSE Access(pict.drawable, NoRegion, "RO", body)

CheckComposite(op, src, mask, dst, xSrc, xMask, xDst, w) ==
  Access(dst.drawable, Of(Composed(dst, xDst, w)), "RW",
    AccessTo(src, AccessTo(mask,
      Draw("cpu", dst.drawable.pixmap,
           Terms(op, src, mask, dst, xSrc, xMask, xDst, w), RuleOf(op, src, mask)))))

-----------------------------------------------------------------------------
(* uxa_solid_clear, made when first needed                                 *)
MakeSolidClear ==
  IF (IF SolidClear \in offscreen THEN device ELSE host)[SolidClear][0] = Zero THEN <<>>
  ELSE Access(OfPixmap(SolidClear), NoRegion, "RW",
         Draw("cpu", SolidClear, [x \in {0} |-> Zero], "copy"))

(* uxa_try_driver_solid_fill: no colour is had from or for other formats.  *)
FillsSolid(src, dst) ==
  /\ IsOffscreen(dst.drawable)
  /\ src.format = dst.format \/ "other" \notin {src.format, dst.format}

TryDriverSolidFill(src, dst, xDst, w) ==
  LET S == Composed(dst, xDst, w) IN
  IF S = {} THEN <<>>
  ELSE IF src.drawable = NoDrawable THEN Solid(dst.drawable, S, Ink)
  ELSE FirstPixel(src.drawable.pixmap) \o Solid(dst.drawable, S, First)

(* qxl_check_composite                                                     *)
CanAcceleratePicture(pict) ==
  \/ pict = NoPicture
  \/ /\ pict.format # "other"
     /\ pict.drawable # NoDrawable
     /\ pict.transform # "odd"

CheckDriver(src, mask, dst) ==
  /\ capable
  /\ \A pict \in {src, mask, dst} : CanAcceleratePicture(pict)

(* uxa_try_driver_composite, which fails unless all have surfaces.  The    *)
(* driver takes every texture, so that pictures are acquired as they are.  *)
(* qxl_surface_composite has the device transform the mask as the source.  *)
Acquired(pict, from) == from + pict.drawable.x

Composites(src, mask, dst) ==
  /\ CheckDriver(src, mask, dst)
  /\ \A pict \in {src, mask, dst} \ {NoPicture} : IsOffscreen(pict.drawable)

DriverComposite(op, src, mask, dst, xSrc, xMask, xDst, w) ==
  LET d == dst.drawable
      at(x, pict, from) ==
        x - d.delta + (Acquired(pict, from) + pict.drawable.delta) - (xDst + d.x)
      source(x) == DeviceSample(src, src, at(x, src, xSrc))
      masks(x) == IF mask = NoPicture THEN Ink ELSE DeviceSample(mask, src, at(x, mask, xMask))
  IN Draw("device", d.pixmap,
          [x \in Here(Composed(dst, xDst, w), d) |-> Combined(op, source(x), masks(x))],
          RuleOf(op, src, mask))

-----------------------------------------------------------------------------
(* uxa_composite.  Its third, two-pass attempt is out of reach: the driver *)
(* refuses its operators whenever it refused the first attempt.            *)
DrawableContains(d, x, w) == x >= 0 /\ x + w <= d.width

Unrepeated(pict, x, w) ==
  IF /\ pict # NoPicture
     /\ pict.drawable # NoDrawable
     /\ pict.transform = "shift" /\ pict.drawable.width > 1
     /\ DrawableContains(pict.drawable, x + pict.tx, w)
  THEN [pict EXCEPT !.repeat = FALSE] ELSE pict

CompatibleFormats(op, dst, src) ==
  \/ op = "Src" /\ (src.format = dst.format \/ <<src.format, dst.format>> = <<"argb", "xrgb">>)
  \/ op = "Over" /\ src.format = "xrgb" /\ dst.format = "xrgb"

Rest(op, src, mask, dst, xSrc, xMask, xDst, w) ==
  LET m == Unrepeated(mask, xMask, w) IN
  IF Composites(src, m, dst) THEN DriverComposite(op, src, m, dst, xSrc, xMask, xDst, w)
  ELSE CheckComposite(op, src, m, dst, xSrc, xMask, xDst, w)

(* The pattern's origin counts from the screen, not from the drawable; and *)
(* when the tiling fails, the request goes on with coordinates that have   *)
(* been translated to the screen already.                                  *)
Repeated(op, src, dst, xSrc, xDst, w) ==
  LET xDst2 == xDst + dst.drawable.x
      xSrc2 == xSrc + src.drawable.x + src.tx
      S == Composed(dst, xDst, w)
  IN IF Composites(src, NoPicture, dst)
     THEN DriverComposite(op, src, NoPicture, dst, xSrc, 0, xDst, w)
     ELSE IF S = {} THEN <<>>
     ELSE FillRegionTiled(dst.drawable, S, src.drawable.pixmap, xDst2 - xSrc2, TRUE,
            Rest(op, src, NoPicture, dst, xSrc2, 0, xDst2, w))

Unmasked(op, src, dst, xSrc, xDst, w) ==
  LET d == src.drawable
      rest == Rest(op, src, NoPicture, dst, xSrc, 0, xDst, w)
      fills == op # "Clear" /\ FillsSolid(src, dst) /\ RuleOf(op, src, NoPicture) = "copy"
      compatible == CompatibleFormats(op, dst, src) /\ src.transform = "shift"
      off == (xSrc + d.x + src.tx) - (xDst + dst.drawable.x)
  IN IF d = NoDrawable \/ (d # NoDrawable /\ d.width = 1 /\ src.repeat)
     THEN IF fills THEN TryDriverSolidFill(src, dst, xDst, w) ELSE rest
     ELSE IF compatible /\ ~src.repeat /\ DrawableContains(d, xSrc + src.tx, w)
     THEN CopyNtoN(d, dst.drawable, TRUE, Boxes(Composed(dst, xDst, w), 0), off)
     ELSE IF compatible /\ src.repeat /\ ~d.window
     THEN Repeated(op, src, dst, xSrc, xDst, w)
     ELSE rest

Composite(op, source, mask, dst, xSrc, xMask, xDst, w) ==
  LET src == Unrepeated(source, xSrc, w) IN
  IF \/ swappedOut \/ ~IsOffscreen(dst.drawable)
     \/ dst.alphaMap \/ source.alphaMap \/ (mask # NoPicture /\ mask.alphaMap)
  THEN CheckComposite(op, source, mask, dst, xSrc, xMask, xDst, w)
  ELSE IF mask # NoPicture THEN Rest(op, src, mask, dst, xSrc, xMask, xDst, w)
  ELSE IF op = "Clear"
  THEN MakeSolidClear
       \o LET clear == PictureOf(SolidClear, "argb", TRUE) IN
          IF FillsSolid(clear, dst) THEN TryDriverSolidFill(clear, dst, xDst, w)
          ELSE Unmasked(op, src, dst, xSrc, xDst, w)
  ELSE Unmasked(op, src, dst, xSrc, xDst, w)

-----------------------------------------------------------------------------
(* uxa_solid_rects; falls back to the server's miCompositeRects.  To clear *)
(* is to draw with a colour of zeros.                                      *)
SolidRects(op, dst, opaque, S, plainGc) ==
  LET d == dst.drawable
      rects == Boxes(S, 0)
      replaces == op \in {"Src", "Clear"} \/ (op = "Over" /\ opaque)
      fallback ==
        IF replaces THEN PolyFillRect(plainGc, d, S)
        ELSE Concat([i \in DOMAIN rects |->
               Composite(op, SolidPicture(opaque), NoPicture, dst, 0, 0,
                         Min(rects[i]) - d.x, Cardinality(rects[i]))])
  IN IF S = {} THEN <<>>
     ELSE IF ~dst.alphaMap /\ IsOffscreen(d) /\ replaces /\ dst.format # "other"
     THEN Solid(d, S, Ink)
     ELSE fallback

(* uxa_trapezoids and uxa_triangles draw a mask and composite through it;  *)
(* to add to a solid alpha channel they draw straight into it.             *)
AddDirect(dst, S) ==
  Access(dst.drawable, NoRegion, "RW",
    Draw("cpu", dst.drawable.pixmap, [x \in Here(S, dst.drawable) |-> Ink], "Add"))

(* uxa_picture_from_pixman_image: converts from a1, puts, or copies.       *)
FromImage(m, w, a1) ==
  LET image == [x \in 0 .. w - 1 |-> Ink] IN
  IF a1 THEN Access(OfPixmap(m), NoRegion, "RW", Draw("cpu", m, image, "copy"))
  ELSE IF m \in offscreen THEN Put(m, image)
  ELSE Access(OfPixmap(m), Of(0 .. w - 1), "RW", Draw("cpu", m, image, "copy"))

MaskFormat(a1) == IF a1 THEN "other" ELSE "a8"

Trapezoids(op, src, dst, m, xSrc, xDst, w, a1) ==
  (IF IsOffscreen(dst.drawable) THEN FromImage(m, w, a1)
   ELSE Draw("cpu", m, [x \in 0 .. w - 1 |-> Ink], "copy"))
  \o Composite(op, src, PictureOf(m, "a8", FALSE), dst, xSrc, 0, xDst, w)

Triangles_Mutant(op, src, dst, m, xSrc, xDst, w, a1, plainGc) ==
  Check(plainGc, OfPixmap(m), 0 .. w - 1)        \* slip: finishes too late
  \o Access(OfPixmap(m), NoRegion, "RW",
       Draw("cpu", m, [x \in 0 .. w - 1 |-> Ink], "copy")
       \o Composite(op, src, PictureOf(m, MaskFormat(a1), FALSE), dst, xSrc, 0, xDst, w))

Triangles(op, src, dst, m, xSrc, xDst, w, a1, plainGc) ==
  Check(plainGc, OfPixmap(m), 0 .. w - 1)
  \o Access(OfPixmap(m), NoRegion, "RW",
       Draw("cpu", m, [x \in 0 .. w - 1 |-> Ink], "copy"))
  \o Composite(op, src, PictureOf(m, MaskFormat(a1), FALSE), dst, xSrc, 0, xDst, w)
=============================================================================
