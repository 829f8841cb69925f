----------------------------- MODULE UxaDrawing ----------------------------
(***************************************************************************)
(* The UXA layer at work: X serves drawing requests one after the other,   *)
(* and between two of them takes the screen away and brings it back, as    *)
(* when the user switches to another VT.  What each request is to show is  *)
(* known from the protocol; how it is drawn, from UxaCore and UxaRender.   *)
(***************************************************************************)
EXTENDS UxaRender

CONSTANTS
  Surfaced,      \* which pixmaps may have surfaces: some sets
  Drawables, Sources, Gcs, Pictures, Masks,
  Areas,         \* sets of pixels, in coordinates of drawables
  Offsets,       \* by how much copies move
  Scratch,       \* the pixmap of masks
  AtOrigin,      \* drawables to use where there is no region
  Translated     \* repeat sources with, or in coordinates with, an offset too

VARIABLES
  serving,       \* a request
  wanted,        \* what it is to show: on a pixmap, at some pixels
  evacuated      \* pixmaps that get their surfaces back with the VT

vars == <<screen, device, host, access, copy_src, pixel, todo, capable,
          serving, wanted, evacuated>>

-----------------------------------------------------------------------------
(* Between requests every pixel may show something of its own, as may what *)
(* is left of it where it was before.                                      *)
Resting(p, there) ==
  IF there THEN [x \in Pixels(p) |-> Old] ELSE [x \in Pixels(p) |-> Bad]

AtRest(there) == [p \in Pixmaps |-> Resting(p, p \in there)]

Init ==
  /\ offscreen \in Surfaced
  /\ capable \in BOOLEAN
  /\ Scratch \intersect offscreen # {} => capable
  /\ vtSema = TRUE /\ disableFbCount = 0
  /\ device = [AtRest(offscreen) EXCEPT ![SolidClear] = [x \in {0} |-> Bad]]
  /\ host = [AtRest(Pixmaps \ offscreen) EXCEPT ![SolidClear] = [x \in {0} |-> Bad]]
  /\ access_region = [p \in Pixmaps |-> {}]
  /\ access_type = [p \in Pixmaps |-> "RO"]
  /\ mapped = {}
  /\ copy_src = [p \in Pixmaps |-> p]
  /\ pixel = Zero
  /\ todo = <<>>
  /\ serving = FALSE
  /\ wanted = [pixmap |-> Client, shows |-> <<>>]
  /\ evacuated = {}

(* A request comes in: trace is what X does about it.                      *)
Serve(trace, p, shows) ==
  /\ serving' = TRUE
  /\ todo' = trace
  /\ wanted' = [pixmap |-> p, shows |-> shows]
  /\ pixel' = Zero
  /\ UNCHANGED <<screen, device, host, access, copy_src, capable, evacuated>>

(* A window on a screen that is taken away shows nothing: xf86SetRootClip. *)
Visible(d) == IF swappedOut /\ d.window /\ d.pixmap = Screen THEN {} ELSE Shift(0 .. d.width - 1, d.x)

Clipped(d, area) == Shift(area, d.x) \intersect Visible(d)

(* What drawing terms by a rule shows.                                     *)
Shows(terms, rule) == [x \in DOMAIN terms |-> Merge(rule, terms[x], Old)]

Served(trace, d, terms, rule) == Serve(trace, d.pixmap, Shows(terms, rule))

Unclipped == {d \in AtOrigin : d \in Drawables}

-----------------------------------------------------------------------------
(* Requests.                                                               *)
Ready == ~serving

Fills ==
  /\ Ready
  /\ \E gc \in Gcs, d \in Drawables, area \in Areas :
       LET S == Clipped(d, area)
           filled(trace) == Served(trace, d, Inks(gc, d, S), Rule(gc))
       IN \/ filled(FillSpans(gc, d, S))
          \/ filled(PolyFillRect(gc, d, S))
          \/ \E wide, straight \in BOOLEAN : filled(PolyLines(gc, d, S, wide, straight))
          \/ filled(PolyArc(gc, d, S))
          \/ filled(GlyphBlt(gc, d, S))

Points ==
  /\ Ready
  /\ \E gc \in Gcs, d \in Drawables, area \in Areas :
       LET S == Clipped(d, area) IN
       /\ gc.fill # "solid" => d \in Unclipped
       /\ Served(PolyPoint(gc, d, S), d, [x \in Here(S, d) |-> Ink], Rule(gc))

PushPixels ==
  /\ Ready
  /\ \E gc \in Gcs, d \in Drawables, bitmap \in Sources, at \in Offsets :
       LET S == Clipped(d, Shift(Pixels(bitmap.pixmap), at))
           in(x) == In(Ink, Pixel(bitmap.pixmap, x - d.delta - d.x - at))
       IN /\ gc.fill = "solid" /\ ~bitmap.window /\ bitmap.pixmap # d.pixmap
          /\ Served(CheckPushPixels(gc, bitmap.pixmap, d, S, at), d,
                    [x \in Here(S, d) |-> in(x)], Rule(gc))

Images ==
  /\ Ready
  /\ \E gc \in Gcs, d \in Drawables, area \in Areas, zpixmap \in BOOLEAN :
       LET S == Clipped(d, area) IN
       /\ d \in Unclipped \/ (zpixmap /\ gc.plain /\ ~swappedOut)
       /\ Served(PutImage(gc, d, S, zpixmap), d, [x \in Here(S, d) |-> Ink], Rule(gc))

SetSpans ==
  /\ Ready
  /\ \E d \in Unclipped, area \in Areas :
       LET ink == [x \in Here(Clipped(d, area), d) |-> Ink]
       IN Served(CheckAll(d, Draw("cpu", d.pixmap, ink, "copy")), d, ink, "copy")

(* Of what the client asks for, all that is there is copied; the rest of   *)
(* the destination is left to an expose event.                             *)
Copies ==
  /\ Ready
  /\ \E gc \in Gcs, d \in Drawables, s \in Sources, area \in Areas, move \in Offsets :
       LET x1 == Min(area)
           w == Max(area) - x1 + 1
           off == (move + s.x) - d.x
           S == Clipped(d, area) \intersect Shift(Visible(s), -off)
           terms == [x \in Here(S, d) |-> Pixel(s.pixmap, x - d.delta + off + s.delta)]
       IN \/ /\ swappedOut => {s, d} \subseteq Unclipped
             /\ Served(CopyArea(gc, s, d, S, x1 + move, x1, w), d, terms, Rule(gc))
          \/ /\ {s, d} \subseteq Unclipped
             /\ Served(CheckCopyPlane(s, d, Rule(gc), S, off), d, terms, Rule(gc))

CopiesWindow ==
  /\ Ready
  /\ \E d \in Drawables, area \in Areas, move \in Offsets :
       LET p == OfPixmap(d.pixmap)
           S == {x \in Clipped(d, area) : x + move + d.delta \in Pixels(d.pixmap)}
       IN /\ d.window
          /\ Served(CopyWindow(d, S, move), d,
                    [x \in Here(S, d) |-> Pixel(d.pixmap, x + move)], "copy")

Readable(d) == d.pixmap \in offscreen => vtSema

Reads ==
  /\ Ready
  /\ \E d \in Unclipped :
       LET reads == [x \in Pixels(d.pixmap) |-> Pixel(d.pixmap, x)] IN
       /\ Readable(d)
       /\ \/ Serve(CheckGetSpans(d, reads), Client, reads)
          \/ \E area \in Areas :
               LET x == Min(area)
                   w == Max(area) - x + 1
               IN /\ area \subseteq 0 .. d.width - 1
                  /\ Serve(GetImage(d, x, w), Client,
                           [i \in 0 .. w - 1 |-> Pixel(d.pixmap, d.x + x + i + d.delta)])

Looks ==
  /\ Ready
  /\ \/ \E gc \in Gcs, changes \in SUBSET {"tile", "stipple"} :
          /\ "tile" \in changes => gc.fill = "tiled"
          /\ Serve(ValidateGc(gc, changes), Client, <<>>)
     \/ \E background, border \in {s.pixmap : s \in Sources} \union {NoPixmap} :
          Serve(ChangeWindowAttributes(background, border), Client, <<>>)
     \/ \E s \in Sources : Serve(BitmapToRegion(s.pixmap), Client, <<>>)

-----------------------------------------------------------------------------
(* Requests of the RENDER extension.                                       *)
Destination(d, format) ==
  [PictureOf(d.pixmap, format, FALSE) EXCEPT !.drawable = d, !.clip = Visible(d)]

Destinations == {Destination(d, format) : d \in Drawables, format \in {"argb", "xrgb", "other"}}

(* fbComposite is not asked to read what it writes.                        *)
Apart(dst, pict) == pict.drawable.pixmap # dst.drawable.pixmap

(* Without Translated, sources are repeated only where coordinates that    *)
(* have been translated to the screen, and by the transform, are the same. *)
Unmoved(src, dst) == src.tx = 0 /\ dst.drawable.x = 0

Usable(src, dst) ==
  src.drawable # NoDrawable =>
    /\ Apart(dst, src)
    /\ src.repeat /\ src.drawable.width > 1 => Translated \/ Unmoved(src, dst)

ServesComposite(op, src, mask, dst, area, move) ==
  LET x == Min(area)
      w == Max(area) - x + 1
  IN Served(Composite(op, src, mask, dst, x + move, x + move, x, w), dst.drawable,
            Terms(op, src, mask, dst, x + move, x + move, x, w), RuleOf(op, src, mask))

CompositesOne ==
  /\ Ready
  /\ \E op \in {"Clear", "Src", "Over"}, src \in Pictures, dst \in Destinations,
        area \in Areas, move \in Offsets :
       Usable(src, dst) /\ ServesComposite(op, src, NoPicture, dst, area, move)

(* The transforms of source and mask are the same.                         *)
CompositesMasked ==
  /\ Ready
  /\ \E src \in Pictures, mask \in Masks, dst \in Destinations, area \in Areas :
       /\ Usable(src, dst) /\ Usable(mask, dst)
       /\ <<src.transform, src.tx>> = <<mask.transform, mask.tx>>
       /\ ServesComposite("Over", src, mask, dst, area, 0)

Plain == CHOOSE gc \in Gcs : gc.plain /\ gc.fill = "solid" /\ gc.stipple = NoPixmap

Rects ==
  /\ Ready
  /\ \E op \in {"Clear", "Src", "Over"}, dst \in Destinations, opaque \in BOOLEAN, area \in Areas :
       LET S == Clipped(dst.drawable, area)
           rule == IF op # "Over" \/ opaque THEN "copy" ELSE op
       IN Served(SolidRects(op, dst, opaque, S, Plain), dst.drawable,
                 [x \in Here(S, dst.drawable) |-> Ink], rule)

AddsDirectly ==
  /\ Ready
  /\ \E dst \in Destinations, area \in Areas :
       LET S == Clipped(dst.drawable, area) IN
       /\ dst.drawable \in Unclipped
       /\ Served(AddDirect(dst, S), dst.drawable, [x \in Here(S, dst.drawable) |-> Ink], "Add")

(* The mask has a surface at most when the destination has one, and of     *)
(* depth 1 never.                                                          *)
Shapes ==
  /\ Ready
  /\ \E op \in {"Src", "Over"}, src \in Pictures, dst \in Destinations, m \in Scratch,
        area \in Areas, a1 \in BOOLEAN :
       LET x == Min(area)
           w == Max(area) - x + 1
           d == dst.drawable
           terms == [u \in Here(Composed(dst, x, w), d) |->
                       Combined(op, Sample(src, u - d.delta - d.x), First)]
           shaped(trace) ==
             Served(trace, d, [u \in DOMAIN terms |-> In(terms[u][2], Ink)],
                    IF op = "Src" THEN "copy" ELSE op)
       IN /\ Usable(src, dst) /\ src.transform = "shift" /\ src.tx = 0
          /\ \/ /\ m \in offscreen => IsOffscreen(d)
                /\ shaped(Trapezoids(op, src, dst, m, x, x, w, a1))
             \/ /\ m \in offscreen => ~a1
                /\ shaped(Triangles(op, src, dst, m, x, x, w, a1, Plain))

Request == \/ Fills \/ Points \/ PushPixels \/ Images \/ SetSpans \/ Copies \/ CopiesWindow
           \/ Reads \/ Looks \/ CompositesOne \/ CompositesMasked \/ Rects
           \/ AddsDirectly \/ Shapes

-----------------------------------------------------------------------------
(* The rest.                                                               *)
Drawing ==
  /\ serving
  /\ Work
  /\ UNCHANGED <<capable, serving, wanted, evacuated>>

(* To put pixels that differ back to Old is to give them new names.        *)
Forget(memory, there) ==
  [p \in Pixmaps |-> IF p = SolidClear THEN memory[p] ELSE Resting(p, p \in there)]

Finish ==
  /\ serving /\ todo = <<>>
  /\ serving' = FALSE
  /\ device' = Forget(device, offscreen)
  /\ host' = Forget(host, Pixmaps \ offscreen)
  /\ wanted' = [pixmap |-> Client, shows |-> <<>>]
  /\ copy_src' = [p \in Pixmaps |-> p]
  /\ pixel' = Zero
  /\ UNCHANGED <<screen, access, todo, capable, evacuated>>

(* uxa_set_fb_access: what X calls before it leaves a VT and after it has  *)
(* come back; it counts.                                                   *)
Switching == UNCHANGED <<access, copy_src, pixel, todo, capable, serving, wanted>>

SetFbAccess ==
  /\ ~serving
  /\ \/ disableFbCount = 0 /\ disableFbCount' = 1
     \/ vtSema /\ disableFbCount = 1 /\ disableFbCount' = 0
  /\ UNCHANGED <<offscreen, vtSema, device, host, evacuated>> /\ Switching

(* Surfaces go into memory and come back: VtSwitch has the details.        *)
Moved(p, from, into) == [into EXCEPT ![p] = from[p]]

Exchange(set) ==
  /\ offscreen' = (offscreen \ set) \union (set \ offscreen)
  /\ device' = [p \in Pixmaps |-> IF p \in set THEN host[p] ELSE device[p]]
  /\ host' = [p \in Pixmaps |-> IF p \in set THEN device[p] ELSE host[p]]
  /\ Switching

LeaveVt ==
  /\ ~serving /\ swappedOut /\ vtSema
  /\ vtSema' = FALSE
  /\ evacuated' = offscreen \ {Screen}
  /\ Exchange(offscreen \ {Screen})
  /\ UNCHANGED disableFbCount

EnterVt ==
  /\ ~serving /\ ~vtSema
  /\ vtSema' = TRUE
  /\ evacuated' = {}
  /\ Exchange(evacuated)
  /\ UNCHANGED disableFbCount

Next == Request \/ Drawing \/ Finish \/ SetFbAccess \/ LeaveVt \/ EnterVt

Spec == Init /\ [][Next]_vars

-----------------------------------------------------------------------------
(* Properties.                                                             *)

Contents(p) == IF p \in offscreen THEN device[p] ELSE host[p]

Expected(p, x) ==
  IF p = wanted.pixmap /\ x \in DOMAIN wanted.shows THEN wanted.shows[x] ELSE Old

Named(p, x, t) == IF t = Old THEN Pixel(p, x) ELSE t

(* Once a request is served, every pixmap shows what the protocol says,    *)
(* where its contents are kept: nothing the CPU drew is left behind in a   *)
(* host_image, nothing stale has been uploaded over what was there, and it *)
(* makes no difference who drew.                                           *)
Delivered ==
  serving /\ todo = <<>> =>
    \A p \in Pixmaps \ (Scratch \union {SolidClear}) : \A x \in Pixels(p) :
      Named(p, x, Contents(p)[x]) = Named(p, x, Expected(p, x))

(* The pixmaps whose pixels a step reads by name.                          *)
Originals(e) ==
  LET leaves == UNION {IF r[1] = "in" THEN {r[2], r[3]} ELSE {r} : r \in Range(e.reads)}
  IN {t[2] : t \in {u \in leaves : u[1] = "pixel"}}

(* What the CPU reads and draws on.                                        *)
Touched(e) ==
  CASE e.hook = "first pixel" -> {e.pixmap}
    [] e.hook = "cpu" -> {e.pixmap} \union Originals(e)
    [] e.hook = "put" -> Originals(e)
    [] OTHER -> {}

(* What the device is given to read and to draw on.                        *)
Given(e) ==
  CASE e.hook = "device" -> {e.pixmap} \union Originals(e)
    [] e.hook = "device copy" -> {e.pixmap, copy_src[e.pixmap]}
    [] e.hook = "put" -> {e.pixmap}
    [] OTHER -> {}

(* The CPU never follows a pointer to pixels that are not there: what it   *)
(* reads or draws is in memory or under an access that is open.            *)
Mapped ==
  serving /\ todo # <<>> => Touched(Head(todo)) \intersect offscreen \subseteq mapped

(* The device is not given anything to draw on, or from, a pixmap that the *)
(* CPU has access to: the upload that ends the access would undo what it   *)
(* draws there, and what it reads there may be older than what the CPU has *)
(* drawn.  And no access outlasts its request.                             *)
DeviceWaits ==
  LET open == {p \in Pixmaps : access_region[p] # {} \/ p \in mapped} IN
  /\ serving /\ todo # <<>> => Given(Head(todo)) \intersect open = {}
  /\ todo = <<>> => open = {}
=============================================================================
