------------------------------ MODULE UxaHooks ------------------------------
(***************************************************************************)
(* How the UXA layer (uxa/uxa.c) calls its driver (qxl_uxa.c).  What is    *)
(* drawn on a pixmap with a surface is on the device; before the CPU draws *)
(* there or reads, UXA has the driver prepare access to a region of it and *)
(* afterwards finish that access.                                          *)
(*                                                                         *)
(* A function of UXA is given as the sequence of the hooks it calls and of *)
(* the drawing between them.  X is single-threaded: a step is one of them. *)
(*                                                                         *)
(* Pixels lie in a row.  What a pixel shows is kept as a term: Old, what   *)
(* it showed before the request; <<"pixel", p, x>>, what pixel x of pixmap *)
(* p showed then; ink, or a mixture of these; and Bad, anything else.      *)
(* host_image is Bad where it was not downloaded.                          *)
(***************************************************************************)
EXTENDS Integers, SequencesExt, FiniteSetsExt

CONSTANTS
  Pixmaps, Width,   \* the pixmaps and how many pixels they have
  Screen,           \* the screen's
  Client,           \* what a client reads into: stands in as a pixmap in memory
  NoRegion          \* NULL

VARIABLES
  offscreen,        \* the pixmaps that have a surface: uxa_pixmap_is_offscreen
  vtSema,
  disableFbCount,
  device, host,     \* what they hold: host_image, or the pixmap if in memory
  access_region, access_type,
  mapped,           \* pixmaps whose devPrivate points at their host_image
  copy_src,         \* what the surface of a pixmap is prepared to copy from
  pixel,            \* the first pixel of a pixmap, as read last
  todo              \* what remains of the running function

screen == <<offscreen, vtSema, disableFbCount>>
access == <<access_region, access_type, mapped>>

Old == <<"old">>
Bad == <<"bad">>
Ink == <<"ink">>
Zero == <<"zero">>
First == <<"first">>          \* the colour that is in the variable pixel
Pixel(p, x) == <<"pixel", p, x>>
In(source, mask) == <<"in", source, mask>>

Pixels(p) == 0 .. Width[p] - 1

swappedOut == disableFbCount > 0

-----------------------------------------------------------------------------
(* Drawables: pixmaps, and windows, which begin at pixel x of the screen   *)
(* and, when redirected, have a pixmap of their own that begins there too: *)
(* delta is what uxa_get_drawable_deltas returns.                          *)
OfPixmap(p) ==
  [pixmap |-> p, x |-> 0, y |-> 0, width |-> Width[p], delta |-> 0, window |-> FALSE]

Shift(set, n) == {x + n : x \in set}

Here(set, d) == Shift(set, d.delta)         \* as pixels of the drawable's pixmap

IsOffscreen(d) == d.pixmap \in offscreen

-----------------------------------------------------------------------------
(* What functions consist of.                                              *)

(* uxa_prepare_access, and if it is granted body and uxa_finish_access.    *)
(* Without a region it is the drawable's size that is taken.               *)
Region_Mutant(d, region) ==             \* slip: coordinates of the screen
  IF region = NoRegion THEN 0 .. d.width - 1 ELSE region.of

Region(d, region) ==
  IF region = NoRegion THEN 0 .. d.width - 1 ELSE Here(region.of, d)

Of(set) == [of |-> set]

Access(d, region, type, body) ==
  <<[hook |-> "access", pixmap |-> d.pixmap, pixels |-> Region(d, region),
     type |-> type, body |-> body]>>

(* The rest draw: onto pixmap, whose pixel x is to show what reads[x] says *)
(* merged with what it shows.  The CPU draws into host_image or memory;    *)
(* the device on its surface, from surfaces; "put" sends it memory.        *)
Draw(by, p, reads, merge) ==
  <<[hook |-> by, pixmap |-> p, reads |-> reads, merge |-> merge]>>

(* qxl_surface_copy, whose reads are pixels of the source prepared, and    *)
(* qxl_surface_put_image.                                                  *)
DeviceCopy(p, reads) == Draw("device copy", p, reads, "copy")
Put(p, image) == Draw("put", p, image, "copy")

Touch(p) == Draw("cpu", p, <<>>, "copy")    \* is looked at, and not changed

(* uxa_get_pixmap_first_pixel                                              *)
FirstPixel(p) ==
  Access(OfPixmap(p), NoRegion, "RO", <<[hook |-> "first pixel", pixmap |-> p]>>)

(* prepare_copy, with what is done if it agrees and if it does not.        *)
Copying(src, dst, body, otherwise) ==
  <<[hook |-> "prepare_copy", pixmap |-> dst, src |-> src,
     body |-> body, otherwise |-> otherwise]>>

-----------------------------------------------------------------------------
(* What pixels come to show.                                               *)

Shown(memory, p, x) ==
  IF x \notin Pixels(p) THEN Bad
  ELSE IF memory[p][x] = Old THEN Pixel(p, x) ELSE memory[p][x]

Leaf(memory, t) ==
  IF t[1] = "pixel" THEN Shown(memory, t[2], t[3])
  ELSE IF t = First THEN pixel ELSE t

Term(memory, t) ==
  IF t[1] # "in" THEN Leaf(memory, t)
  ELSE LET s == Leaf(memory, t[2])
           m == Leaf(memory, t[3])
       IN IF Bad \in {s, m} THEN Bad ELSE In(s, m)

Merge(merge, term, was) ==
  IF merge = "copy" \/ term = Bad THEN term
  ELSE IF was = Bad THEN Bad ELSE <<"merged", merge, term, was>>

Drawn(into, from, e) ==
  [into EXCEPT ![e.pixmap] =
     [x \in DOMAIN @ |->
        IF x \in DOMAIN e.reads THEN Merge(e.merge, Term(from, e.reads[x]), @[x])
        ELSE @[x]]]

-----------------------------------------------------------------------------
(* The steps.                                                              *)
Doing(hook) == todo # <<>> /\ Head(todo).hook = hook

(* qxl_surface_prepare_access refuses while X has no terminal.             *)
PrepareAccess ==
  /\ Doing("access")
  /\ LET e == Head(todo)
         p == e.pixmap
         new == (e.pixels \intersect Pixels(p)) \ access_region[p]
         granted == e.body \o <<[hook |-> "finish", pixmap |-> p]>> \o Tail(todo)
     IN IF p \in offscreen /\ vtSema
        THEN /\ host' = [host EXCEPT ![p] =
                           [x \in DOMAIN @ |-> IF x \in new THEN device[p][x] ELSE @[x]]]
             /\ access_region' = [access_region EXCEPT ![p] = @ \union new]
             /\ access_type' = IF e.type = "RW" THEN [access_type EXCEPT ![p] = "RW"]
                               ELSE access_type
             /\ mapped' = mapped \union {p}
             /\ todo' = granted
        ELSE /\ todo' = IF p \in offscreen THEN Tail(todo) ELSE granted
             /\ UNCHANGED <<host, access>>
  /\ UNCHANGED <<screen, device, copy_src, pixel>>

FinishAccess ==
  /\ Doing("finish")
  /\ LET p == Head(todo).pixmap IN
     IF p \in offscreen
     THEN /\ device' = IF access_type[p] = "RO" THEN device
                       ELSE [device EXCEPT ![p] = [x \in DOMAIN @ |->
                               IF x \in access_region[p] THEN host[p][x] ELSE @[x]]]
          /\ access_region' = [access_region EXCEPT ![p] = {}]
          /\ access_type' = [access_type EXCEPT ![p] = "RO"]
          /\ mapped' = mapped \ {p}
     ELSE UNCHANGED <<device, access>>
  /\ todo' = Tail(todo)
  /\ UNCHANGED <<screen, host, copy_src, pixel>>

CpuDraw ==
  /\ Doing("cpu")
  /\ host' = Drawn(host, host, Head(todo))
  /\ todo' = Tail(todo)
  /\ UNCHANGED <<screen, device, access, copy_src, pixel>>

ReadFirstPixel ==
  /\ Doing("first pixel")
  /\ pixel' = Shown(host, Head(todo).pixmap, 0)
  /\ todo' = Tail(todo)
  /\ UNCHANGED <<screen, device, host, access, copy_src>>

PrepareCopy ==
  /\ Doing("prepare_copy")
  /\ LET e == Head(todo) IN
     IF access_region[e.pixmap] = {} /\ access_region[e.src] = {}
     THEN /\ copy_src' = [copy_src EXCEPT ![e.pixmap] = e.src]
          /\ todo' = e.body \o Tail(todo)
     ELSE /\ copy_src' = copy_src
          /\ todo' = e.otherwise \o Tail(todo)
  /\ UNCHANGED <<screen, device, host, access, pixel>>

(* A command for the device; a copy is from the source prepared last.      *)
DeviceDraw ==
  /\ Doing("device") \/ Doing("device copy") \/ Doing("put")
  /\ LET e == Head(todo)
         p == e.pixmap
         command ==
           IF e.hook # "device copy" THEN e
           ELSE [e EXCEPT !.reads = [x \in DOMAIN @ |-> Pixel(copy_src[p], @[x])]]
     IN device' = Drawn(device, IF e.hook = "put" THEN host ELSE device, command)
  /\ todo' = Tail(todo)
  /\ UNCHANGED <<screen, host, access, copy_src, pixel>>

Work == \/ PrepareAccess \/ FinishAccess \/ CpuDraw
        \/ ReadFirstPixel \/ PrepareCopy \/ DeviceDraw
=============================================================================
