------------------------------- MODULE UxaCore ------------------------------
(***************************************************************************)
(* The core drawing requests: the functions of uxa-accel.c, which let the  *)
(* device draw, and those of uxa-unaccel.c they fall back to, which have   *)
(* the fb layer draw with the CPU.                                         *)
(*                                                                         *)
(* Sets of pixels are in the coordinates of X, that is of the screen: S is *)
(* what a request draws of drawable d, clipped.  A GC is a record          *)
(*   fill     "solid", "tiled" or "stippled"                               *)
(*   plain    GXcopy with a solid plane mask                               *)
(*   tile     the tile's pixmap; origin is where it begins (patOrg)        *)
(*   stipple  the stipple's pixmap, or NoPixmap                            *)
(***************************************************************************)
EXTENDS UxaHooks

CONSTANT NoPixmap

Tile(gc) == OfPixmap(gc.tile)

(* What a GC draws onto pixel x of drawable d's pixmap.                    *)
InkAt(gc, d, x) ==
  CASE gc.fill = "solid" -> Ink
    [] gc.fill = "tiled" ->
         Pixel(gc.tile, (x - d.delta - d.x - gc.origin) % Width[gc.tile])
    [] gc.fill = "stippled" ->
         In(Ink, Pixel(gc.stipple, (x - d.delta - d.x - gc.origin) % Width[gc.stipple]))

Rule(gc) == IF gc.plain THEN "copy" ELSE "rop"

Inks(gc, d, S) == [x \in Here(S, d) |-> InkAt(gc, d, x)]

(* The fb layer draws with the GC.                                         *)
Fb(gc, d, S) == Draw("cpu", d.pixmap, Inks(gc, d, S), Rule(gc))

-----------------------------------------------------------------------------
(* uxa-unaccel.c                                                           *)

(* uxa_prepare_access_gc, the drawing, uxa_finish_access_gc                *)
AccessGc_Mutant(gc, body) ==                     \* slip: the tile is forgotten
  IF gc.stipple = NoPixmap THEN body
  ELSE Access(OfPixmap(gc.stipple), NoRegion, "RO", body)

AccessGc(gc, body) ==
  LET tiled == IF gc.fill = "tiled" THEN Access(Tile(gc), NoRegion, "RO", body)
               ELSE body
  IN IF gc.stipple = NoPixmap THEN tiled
     ELSE Access(OfPixmap(gc.stipple), NoRegion, "RO", tiled)

(* uxa_check_fill_spans, _poly_fill_rect: with the damage of what is drawn *)
(* as the region.                                                          *)
Check(gc, d, S) == Access(d, Of(S), "RW", AccessGc(gc, Fb(gc, d, S)))

(* uxa_check_image_glyph_blt and _poly_glyph_blt; other requests for text  *)
(* come down to these.                                                     *)
GlyphBlt(gc, d, S) == Check(gc, d, S)

(* uxa_check_set_spans, _put_image, _poly_point, _add_traps: all of the    *)
(* drawable.                                                               *)
CheckAll(d, draws) == Access(d, NoRegion, "RW", draws)

CheckPushPixels(gc, bitmap, d, S, at) ==
  Access(d, Of(S), "RW",
    Access(OfPixmap(bitmap), NoRegion, "RO",
      AccessGc(gc, Draw("cpu", d.pixmap,
                        [x \in Here(S, d) |->
                           In(InkAt(gc, d, x), Pixel(bitmap, x - d.delta - d.x - at))],
                        Rule(gc)))))

CheckGetSpans(d, reads) == Access(d, NoRegion, "RO", Draw("cpu", Client, reads, "copy"))

(* Copies: pixel x of the destination is to show pixel x + off of the      *)
(* source.  Boxes are drawn in turn.                                       *)
Begins(S) == {x \in S : x - 1 \notin S}

Box(S, x) == x .. Min({y \in x .. Max(S) : y + 1 \notin S})

(* REGION_RECTS; miDoCopy lets none overwrite what a later one reads.      *)
Boxes(S, off) ==
  LET ascending == off >= 0
      begins == SetToSortSeq(Begins(S), LAMBDA x, y : IF ascending THEN x < y ELSE x > y)
  IN [i \in DOMAIN begins |-> Box(S, begins[i])]

Concat(seqs) == FlattenSeq(seqs)

FbCopyNtoN(s, d, rule, boxes, off) ==
  Concat([i \in DOMAIN boxes |->
    Draw("cpu", d.pixmap,
         [x \in Here(boxes[i], d) |-> Pixel(s.pixmap, x - d.delta + off + s.delta)], rule)])

(* The boxes of both are passed as the client gave them.                   *)
CheckCopyArea(s, d, rule, S, srcx, dstx, w) ==
  LET off == (srcx + s.x) - (dstx + d.x) IN
  Access(d, Of(dstx .. dstx + w - 1), "RW",
    Access(s, Of(srcx .. srcx + w - 1), "RO",
      FbCopyNtoN(s, d, rule, Boxes(S, off), off)))

CheckCopyPlane(s, d, rule, S, off) ==
  Access(d, NoRegion, "RW",
    Access(s, NoRegion, "RO", FbCopyNtoN(s, d, rule, Boxes(S, off), off)))

-----------------------------------------------------------------------------
(* uxa-accel.c: fills.                                                     *)

(* uxa_fill_region_solid and the solid half of uxa_fill_spans: the driver  *)
(* composites from no source without a drawable, so try_solid it is.       *)
(* qxl_check_solid wants a plain GC; preparing never fails.                *)
Solid(d, S, term) ==
  Draw("device", d.pixmap, [x \in Here(S, d) |-> term], "copy")

FillRegionSolid(d, S, term, plain, otherwise) ==
  IF IsOffscreen(d) /\ plain THEN Solid(d, S, term) ELSE otherwise

FillSpans(gc, d, S) ==
  IF ~swappedOut /\ gc.fill = "solid" /\ IsOffscreen(d) /\ gc.plain
  THEN Solid(d, S, Ink)
  ELSE Check(gc, d, S)

(* uxa_fill_region_tiled: one tile per box from the tile's pixmap, and the *)
(* rest of the box from what is there, doubling.  (Along the row; the code *)
(* goes on to do the same along the column.)                               *)
TilePieces(d, box, tile, origin) ==
  LET x1 == Min(box)
      w == Min({Cardinality(box), Width[tile]})
      tileX == (x1 - d.delta - d.x - origin) % Width[tile]
      first == Min({Width[tile] - tileX, w})
  IN DeviceCopy(d.pixmap, [x \in x1 .. x1 + first - 1 |-> tileX + x - x1])
     \o DeviceCopy(d.pixmap, [x \in x1 + first .. x1 + w - 1 |-> x - x1 - first])

Doublings(box, tile) ==
  LET x1 == Min(box)
      x2 == Max(box) + 1
      starts == SetToSortSeq({x1 + Width[tile] * 2 ^ k : k \in 0 .. 3} \intersect box, <)
  IN Concat([i \in DOMAIN starts |->
       LET to == starts[i]
           w == Min({x2 - to, to - x1})
       IN <<[to |-> to, w |-> w, from |-> x1]>>])

SelfCopies(d, box, tile) ==
  LET copies == Doublings(box, tile)
  IN Concat([i \in DOMAIN copies |->
       DeviceCopy(d.pixmap, [x \in copies[i].to .. copies[i].to + copies[i].w - 1 |->
                               copies[i].from + x - copies[i].to])])

FillRegionTiled(d, S, tile, origin, plain, otherwise) ==
  LET boxes == Boxes(Here(S, d), 0)
      all(F(_)) == Concat([i \in DOMAIN boxes |-> F(boxes[i])])
      pieces == all(LAMBDA b : TilePieces(d, b, tile, origin))
      copies == all(LAMBDA b : SelfCopies(d, b, tile))
      more == IF copies = <<>> THEN <<>> ELSE Copying(d.pixmap, d.pixmap, copies, otherwise)
  IN IF Width[tile] = 1
     THEN FirstPixel(tile) \o FillRegionSolid(d, S, First, plain, otherwise)
     ELSE IF ~IsOffscreen(d) \/ tile \notin offscreen \/ ~plain THEN otherwise
     ELSE Copying(tile, d.pixmap, pieces \o more, otherwise)

(* Where not plain, qxl_check_solid and qxl_check_copy refuse all tries.   *)
PolyFillRect(gc, d, S) ==
  LET fallback == Check(gc, d, S) IN
  IF S = {} THEN <<>>
  ELSE IF swappedOut \/ ~IsOffscreen(d) THEN fallback
  ELSE IF gc.fill = "solid"
       THEN FillRegionSolid(d, S, Ink, gc.plain, fallback)
  ELSE IF gc.fill = "tiled"
       THEN FillRegionTiled(d, S, gc.tile, gc.origin, gc.plain, fallback)
  ELSE fallback

PolyPoint(gc, d, S) ==
  IF gc.fill = "solid" THEN PolyFillRect(gc, d, S)
  ELSE CheckAll(d, Draw("cpu", d.pixmap, [x \in Here(S, d) |-> Ink], Rule(gc)))

(* For wide lines mi calls the GC's FillSpans, with no access open; for    *)
(* arcs, always.  Thin solid horizontal and vertical lines are rectangles. *)
CheckPolyLines(gc, d, S, wide) ==
  IF wide THEN FillSpans(gc, d, S) ELSE Check(gc, d, S)

PolyLines(gc, d, S, wide, straight) ==
  IF ~wide /\ gc.fill = "solid" /\ straight THEN PolyFillRect(gc, d, S)
  ELSE CheckPolyLines(gc, d, S, wide)

PolyArc(gc, d, S) == FillSpans(gc, d, S)

-----------------------------------------------------------------------------
(* uxa-accel.c: images and copies.                                         *)

(* zpixmap: a ZPixmap of eight bits or more; reads is what the pixels of S *)
(* are to show.                                                            *)
PutImage(gc, d, S, zpixmap) ==
  LET image == [x \in Here(S, d) |-> Ink] IN
  IF zpixmap /\ ~swappedOut /\ gc.plain /\ IsOffscreen(d)
  THEN Put(d.pixmap, image)
  ELSE CheckAll(d, Draw("cpu", d.pixmap, image, Rule(gc)))

CopyNtoN(s, d, plain, boxes, off) ==
  LET S == UNION Range(boxes)
      fallback == Access(d, Of(S), "RW",
                    Access(s, Of(Shift(S, off)), "RO",
                      FbCopyNtoN(s, d, IF plain THEN "copy" ELSE "rop", boxes, off)))
      reads(b, Source(_)) == [x \in Here(b, d) |-> Source(x - d.delta + off + s.delta)]
      copies == Concat([i \in DOMAIN boxes |->
                  DeviceCopy(d.pixmap, reads(boxes[i], LAMBDA x : x))])
      puts == Concat([i \in DOMAIN boxes |->
                Put(d.pixmap, reads(boxes[i], LAMBDA x : Pixel(s.pixmap, x)))])
  IN IF ~plain \/ ~IsOffscreen(d) THEN fallback
     ELSE IF IsOffscreen(s)
          THEN Copying(s.pixmap, d.pixmap, copies, fallback)
     ELSE puts

CopyArea(gc, s, d, S, srcx, dstx, w) ==
  LET off == (srcx + s.x) - (dstx + d.x) IN
  IF swappedOut THEN CheckCopyArea(s, d, Rule(gc), S, srcx, dstx, w)
  ELSE CopyNtoN(s, d, gc.plain, Boxes(S, off), off)

(* uxa_copy_window moves S, on the pixmap of the window, by off.           *)
CopyWindow(d, S, off) ==
  LET p == OfPixmap(d.pixmap)
  IN CopyNtoN(p, p, TRUE, Boxes(Here(S, d), off), off)

(* The box is offset with the drawable's y in place of its x, and with the *)
(* deltas, which uxa_prepare_access adds again.                            *)
GetImage(d, x, w) ==
  LET x1 == d.y + x + d.delta IN
  Access(d, Of(x1 .. x1 + w - 1), "RO",
    Draw("cpu", Client,
         [i \in 0 .. w - 1 |-> Pixel(d.pixmap, d.x + x + i + d.delta)], "copy"))

-----------------------------------------------------------------------------
(* uxa.c: functions that look at pixmaps of a GC or a window.              *)

(* fbPadPixmap rewrites a tile in place.                                   *)
ValidateGc(gc, changes) ==
  (IF "tile" \in changes
   THEN Access(Tile(gc), NoRegion, "RW",
          Draw("cpu", gc.tile, [x \in Pixels(gc.tile) |-> Pixel(gc.tile, x)], "copy"))
   ELSE <<>>)
  \o
  (IF "stipple" \in changes /\ gc.stipple # NoPixmap
   THEN Access(OfPixmap(gc.stipple), NoRegion, "RW", Touch(gc.stipple))
   ELSE <<>>)

(* background and border: the pixmaps of each, or NoPixmap                 *)
ChangeWindowAttributes(background, border) ==
  LET looks(p) == IF p = NoPixmap THEN <<>> ELSE Touch(p)
      open(p, body) == IF p = NoPixmap THEN body
                       ELSE Access(OfPixmap(p), NoRegion, "RO", body)
  IN open(background, open(border, looks(background) \o looks(border)))

BitmapToRegion(p) == Access(OfPixmap(p), NoRegion, "RO", Touch(p))
=============================================================================
