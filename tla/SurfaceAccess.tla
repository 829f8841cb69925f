--------------------------- MODULE SurfaceAccess ----------------------------
(***************************************************************************)
(* One surface drawn by the device and by the CPU (qxl_surface.c).  The    *)
(* device holds the pixels; before the CPU may touch a region of them,     *)
(* qxl_surface_prepare_access downloads it into host_image, and            *)
(* qxl_surface_finish_access uploads what was accessed.  A copy within one *)
(* pixmap prepares it twice, as destination and as source, before it draws *)
(* and finishes it twice (uxa_check_copy_area, uxa_copy_n_to_n).           *)
(*                                                                         *)
(* Pixels lie in a row, so a region's boxes are its runs of neighbouring   *)
(* pixels.  Commands reach the device in order, so surface is what the     *)
(* device has once it has executed what was pushed; the memory behind      *)
(* dev_image lags behind until QXL_IO_UPDATE_AREA.                         *)
(***************************************************************************)
EXTENDS Integers, FiniteSetsExt

CONSTANTS
  Width,       \* pixels 1 .. Width
  Colours,
  ManyBoxes,   \* from so many boxes on, their extents are taken: 25
  Tile,        \* TILE_WIDTH
  Together     \* bound on the boxes of two regions prepared together

AccessAssumption ==
  /\ Width \in Nat /\ Tile \in Nat \ {0}
  /\ ManyBoxes \in Nat \ {0} /\ Together \in Nat

Pixels == 1 .. Width

VARIABLES
  surface,       \* the surface, all commands executed
  dev_image,     \* the memory the device renders it to
  host_image,    \* X's copy
  access_region, access_type,
  want,          \* what the client has drawn: its view of the pixmap
  prepared,      \* how often the pixmap is prepared
  writable,      \* where the caller may draw
  phase          \* of the caller: it prepares, draws, finishes

callvars   == <<access_region, access_type, prepared, writable, phase>>
accessvars == <<surface, dev_image, host_image, want, callvars>>

(* A new or a resurrected surface: host_image is what it happens to be.     *)
AccessInit ==
  /\ surface \in [Pixels -> Colours]
  /\ dev_image = surface /\ want = surface
  /\ host_image \in [Pixels -> Colours]
  /\ access_region = {} /\ access_type = "RO"
  /\ prepared = 0 /\ writable = {} /\ phase = "prepare"

-----------------------------------------------------------------------------
Starts(region) == {p \in region : p - 1 \notin region}
NBoxes(region) == Cardinality(Starts(region))
End(region, p) == Min({q \in p + 1 .. Width + 1 : q \notin region})

Extents(region) == IF region = {} THEN {} ELSE Min(region) .. Max(region)

(* qxl_upload_box: the pixels the tiles of the box x1 .. x2 - 1 cover.     *)
Tiles(x1, x2) ==
  UNION {a .. Min({a + Tile, x2}) - 1 : a \in {b \in x1 .. x2 - 1 : (b - x1) % Tile = 0}}

BoxByBox(region) == UNION {Tiles(p, End(region, p)) : p \in Starts(region)}

Taken_Mutant(region) ==          \* the first and last boxes only
  IF NBoxes(region) < ManyBoxes THEN region ELSE {Min(region), Max(region)}

Taken(region) ==
  IF NBoxes(region) < ManyBoxes THEN region ELSE Extents(region)

Uploaded(region) ==
  IF NBoxes(region) < ManyBoxes THEN BoxByBox(region)
  ELSE Tiles(Min(region), Max(region) + 1)

(* qxl_download_box updates the area and reads it.                         *)
Update(box) == [p \in Pixels |-> IF p \in box THEN surface[p] ELSE dev_image[p]]

(* qxl_surface_prepare_access, X having the terminal (vtSema).             *)
(* Callers prepare the destination first, and at most once more.           *)
MayPrepare(region, access) ==
  /\ phase = "prepare"
  /\ \/ prepared = 0
     \/ /\ prepared = 1 /\ access = "RO"
        /\ NBoxes(access_region \union region) <= Together

Prepare_Mutant(region, access) ==    \* reads without an update
  LET new == region \ access_region
      box == Taken(new)
  IN
  /\ MayPrepare(region, access)
  /\ dev_image' = dev_image
  /\ host_image' = [p \in Pixels |-> IF p \in box THEN dev_image'[p] ELSE host_image[p]]
  /\ access_region' = access_region \union new
  /\ access_type' = IF access = "RW" THEN "RW" ELSE access_type
  /\ prepared' = prepared + 1
  /\ writable' = IF access = "RW" THEN region ELSE writable
  /\ UNCHANGED <<surface, want, phase>>

Prepare(region, access) ==
  LET new == region \ access_region
      box == Taken(new)
  IN
  /\ MayPrepare(region, access)
  /\ dev_image' = Update(box)
  /\ host_image' = [p \in Pixels |-> IF p \in box THEN dev_image'[p] ELSE host_image[p]]
  /\ access_region' = access_region \union new
  /\ access_type' = IF access = "RW" THEN "RW" ELSE access_type
  /\ prepared' = prepared + 1
  /\ writable' = IF access = "RW" THEN region ELSE writable
  /\ UNCHANGED <<surface, want, phase>>

Drawn(image, set, c) == [p \in Pixels |-> IF p \in set THEN c ELSE image[p]]

(* The fb layer draws, once all is prepared.                               *)
CpuDraw(set, c) ==
  /\ prepared > 0 /\ phase \in {"prepare", "draw"}
  /\ set \subseteq writable
  /\ phase' = "draw"
  /\ host_image' = Drawn(host_image, set, c)
  /\ want' = Drawn(want, set, c)
  /\ UNCHANGED <<surface, dev_image, access_region, access_type, prepared, writable>>

(* qxl_surface_finish_access                                               *)
Finish ==
  /\ prepared > 0
  /\ surface' = IF access_type = "RW"
                 THEN LET up == Uploaded(access_region) IN
                      [p \in Pixels |-> IF p \in up THEN host_image[p] ELSE surface[p]]
                 ELSE surface
  /\ access_region' = {} /\ access_type' = "RO"
  /\ prepared' = prepared - 1
  /\ writable' = {}
  /\ phase' = IF prepared = 1 THEN "prepare" ELSE "finish"
  /\ UNCHANGED <<dev_image, host_image, want>>

(* qxl_surface_solid, and other drawing by the device.                     *)
Solid(set, c) ==
  /\ prepared = 0
  /\ surface' = Drawn(surface, set, c)
  /\ want' = Drawn(want, set, c)
  /\ UNCHANGED <<dev_image, host_image, callvars>>

(* The device renders when it likes.                                       *)
Render ==
  /\ dev_image' = surface
  /\ UNCHANGED <<surface, host_image, want, callvars>>

Regions == (SUBSET Pixels) \ {{}}

AccessNext == \/ \E r \in Regions, access \in {"RO", "RW"} : Prepare(r, access)
        \/ \E set \in Regions, c \in Colours : CpuDraw(set, c) \/ Solid(set, c)
        \/ Finish \/ Render

AccessSpec == AccessInit /\ [][AccessNext]_accessvars

-----------------------------------------------------------------------------
(* The client sees what it drew: where the CPU has access in host_image,   *)
(* elsewhere on the device, whichever of the two drew it and however many  *)
(* accesses have begun and ended since.                                    *)
ShowsWhatWasDrawn ==
  \A p \in Pixels :
    want[p] = IF p \in access_region THEN host_image[p] ELSE surface[p]

(* finish_access may upload more than was accessed, but then only pixels   *)
(* that host_image has right: uxa.h says "the same pixmap may have         *)
(* prepare_access() called on it more than once", and that must not turn   *)
(* what lies between the boxes into what was there long ago.               *)
UploadIsHarmless ==
  access_type = "RW" =>
    \A p \in Uploaded(access_region) \ access_region : host_image[p] = surface[p]
=============================================================================
