------------------------------- MODULE Screen -------------------------------
(***************************************************************************)
(* The primary surface, the monitors on it and, with deferred frames, what *)
(* the device shows: qxl_driver.c, qxl_ums_mode.c, qxl_surface_ums.c and   *)
(* dfps.c.                                                                 *)
(*                                                                         *)
(* A screen has one dimension: its columns are 1..virtual.  Only drawing   *)
(* with deferred frames is modelled here, where X draws into the root      *)
(* pixmap's memory and a ticker sends the device what has changed.  X      *)
(* paints the whole screen anew when its access to the framebuffer is      *)
(* enabled again.                                                          *)
(***************************************************************************)
EXTENDS Integers, FiniteSets, FiniteSetsExt, Sequences, SequencesExt

CONSTANTS
  MaxWidth,       \* the widest screen that is asked for
  Surface0,       \* surface0_size: the widest that fits
  NumHeads,       \* num_heads
  Modes,          \* the widths that crtcs are set to later
  MaxUpdates      \* DFPS_MAX_UPDATE_REGIONS

ScreenAssumption ==
  /\ {MaxWidth, Surface0, NumHeads, MaxUpdates} \union Modes \subseteq Nat \ {0}
  /\ Surface0 <= MaxWidth

Widths == 1..MaxWidth
Colours == {0, 1}

VARIABLES
  deferred,       \* deferred_fps > 0
  stage,          \* of the server's generation: "down", "initialised" or "up"
  vt,             \* has the server control of its VT
  vt_surfaces,    \* are there surfaces to put back
  virtual,        \* virtual_x
  scrn,           \* X's size of the screen
  primary,        \* qxl->primary: its width, and which record of two it is
  device_primary,
  root,           \* the root pixmap: its width, and the records of its bits
                  \* and of its surface
  crtcs,          \* of X: width (0 when off) and place
  device,         \* the width of its primary (or 0), and the heads it was told
  host, shown,    \* the columns' colours in memory and on the device
  updated         \* updated_region

modes == <<vt, vt_surfaces, virtual, scrn, primary, device_primary, root, crtcs>>
vars == <<deferred, stage, modes, device, host, shown, updated>>

(* The crtcs, left out where frames are deferred, which has nothing to do   *)
(* with them.                                                              *)
Heads == IF deferred THEN {} ELSE 0..NumHeads - 1

Off == [width |-> 0, x |-> 0]
NoRoot == [width |-> 0, bits |-> 0, surface |-> 0]
Black == [c \in Widths |-> 0]

Init ==
  /\ deferred \in BOOLEAN
  /\ stage = "down" /\ vt = TRUE /\ vt_surfaces = FALSE
  /\ virtual \in 1..Surface0 /\ scrn = virtual
  /\ primary = [width |-> 0, id |-> 0] /\ device_primary = "undefined"
  /\ root = NoRoot
  /\ crtcs = [i \in Heads |-> IF i = 0 THEN [width |-> virtual, x |-> 0] ELSE Off]
  /\ device = [primary |-> 0, heads |-> <<>>]
  /\ host = Black /\ shown = Black /\ updated = {}

-----------------------------------------------------------------------------
(* qxl_create_primary makes a new record; its memory is black on the host, *)
(* and on the device whatever it holds.                                    *)
NewPrimary(width) == [width |-> width, id |-> 1 - primary.id]

(* qxl_resize_primary_to_virtual                                           *)
Current(width) == primary.width = width /\ device_primary = "created"

ScreenPixmap_Mutant(p) ==                       \* slip: it keeps its surface
  [root EXCEPT !.width = p.width, !.bits = p.id]

ScreenPixmap(p) ==
  [width |-> p.width, bits |-> p.id, surface |-> IF deferred THEN root.surface ELSE p.id]

ResizePrimaryToVirtual(width) ==
  IF Current(width) THEN UNCHANGED <<primary, device_primary, root>>
  ELSE /\ primary' = NewPrimary(width)
       /\ device_primary' = "created"
       /\ root' = ScreenPixmap(primary')

(* qxl_update_monitors_config tells the device of the crtcs that are on.   *)
On(cs) == {i \in Heads : cs[i].width # 0}

Told_Mutant(cs) ==                              \* slip: as if none before were off
  [n \in 1..Cardinality(On(cs)) |-> [id |-> n - 1, mode |-> cs[n - 1]]]

Before(cs, i) == {j \in On(cs) : j < i}         \* those counted when i's turn comes

Told(cs) ==
  [n \in 1..Cardinality(On(cs)) |->
     LET i == CHOOSE i \in On(cs) : Cardinality(Before(cs, i)) = n - 1
     IN [id |-> i, mode |-> cs[i]]]

UpdateMonitors(dev, cs) == IF On(cs) = {} THEN dev ELSE [dev EXCEPT !.heads = Told(cs)]

-----------------------------------------------------------------------------
(* dfps.c: the updated region is a set of columns; when it comes in more   *)
(* than MaxUpdates pieces it becomes the whole from the first to the last. *)
Pieces(r) == Cardinality({c \in r : c - 1 \notin r})

UpdateRegion_Mutant(dest, src) ==               \* slip: the last one only
  IF Pieces(dest \union src) > MaxUpdates THEN src ELSE dest \union src

UpdateRegion(dest, src) ==
  LET r == dest \union src
  IN IF Pieces(r) > MaxUpdates THEN Min(r)..Max(r) ELSE r

Draws(r, image) ==
  /\ host' = [c \in Widths |-> IF c \in r THEN image[c] ELSE host[c]]
  /\ updated' = UpdateRegion(updated, r)

(* X paints everything again, into the new memory of the screen.           *)
Painted(width) ==
  IF deferred
  THEN /\ host' = [c \in Widths |-> IF c <= width THEN 1 ELSE 0]
       /\ updated' = UpdateRegion(updated, 1..width)
  ELSE UNCHANGED <<host, updated>>

Drawable == deferred /\ stage = "up" /\ vt

(* dfps_solid, dfps_put_image                                              *)
Box == {l..r : l, r \in 1..root.width} \ {{}}

DfpsSolid ==
  /\ Drawable
  /\ \E box \in Box, colour \in Colours : Draws(box, [c \in Widths |-> colour])
  /\ UNCHANGED <<deferred, stage, modes, device, shown>>

(* dfps_copy within the root pixmap                                        *)
DfpsCopy ==
  /\ Drawable
  /\ \E box \in Box, d \in -MaxWidth..MaxWidth :
       /\ \A c \in box : c - d \in 1..root.width
       /\ Draws(box, [c \in Widths |-> IF c - d \in Widths THEN host[c - d] ELSE 0])
  /\ UNCHANGED <<deferred, stage, modes, device, shown>>

(* dfps_prepare_access for reading and writing, what then is written, and  *)
(* dfps_finish_access                                                      *)
DfpsAccess ==
  /\ Drawable
  /\ \E l, r \in 1..root.width, colour \in Colours :
       l < r /\ Draws({l, r}, [c \in Widths |-> colour])
  /\ UNCHANGED <<deferred, stage, modes, device, shown>>

(* dfps_ticker, and upload_one_primary_region for each piece               *)
DfpsTicker ==
  /\ Drawable /\ updated # {}
  /\ shown' = [c \in Widths |-> IF c \in updated /\ c <= virtual THEN host[c] ELSE shown[c]]
  /\ updated' = {}
  /\ UNCHANGED <<deferred, stage, modes, device, host>>

-----------------------------------------------------------------------------
(* What X calls.                                                           *)

(* qxl_screen_init: making the memory slots resets the device.             *)
ScreenInit ==
  /\ stage = "down"
  /\ stage' = "initialised"
  /\ primary' = NewPrimary(virtual) /\ device_primary' = "created"
  /\ device' = [primary |-> virtual, heads |-> <<>>]
  /\ host' = Black /\ updated' = {}
  /\ root' = NoRoot
  /\ UNCHANGED <<deferred, vt, vt_surfaces, virtual, scrn, crtcs, shown>>

(* qxl_create_screen_resources; with deferred frames the root pixmap stays *)
(* as fbScreenInit made it, with X's size of the screen.                   *)
CreateScreenResources ==
  /\ stage = "initialised"
  /\ stage' = "up"
  /\ root' = IF deferred THEN [width |-> scrn, bits |-> primary.id, surface |-> 0]
             ELSE ScreenPixmap(primary)
  /\ device' = UpdateMonitors(device, crtcs)
  /\ Painted(virtual)
  /\ UNCHANGED <<deferred, vt, vt_surfaces, virtual, scrn, primary, device_primary, crtcs, shown>>

(* qxl_close_screen, at the end of a server generation                     *)
CloseScreen ==
  /\ stage = "up" /\ vt
  /\ stage' = "down"
  /\ device' = [primary |-> 0, heads |-> <<>>]
  /\ device_primary' = "none"
  /\ host' = Black /\ updated' = {} /\ root' = NoRoot
  /\ UNCHANGED <<deferred, vt, vt_surfaces, virtual, scrn, primary, crtcs, shown>>

(* qxl_xf86crtc_resize and qxl_resize_primary.  X keeps its size when it   *)
(* is refused, and paints only while it has the VT.                        *)
Accepted(width) == ~vt_surfaces /\ (width <= Surface0 \/ Current(width))

Resize ==
  /\ stage = "up"
  /\ \E width \in Widths :
       /\ virtual' = width
       /\ IF Accepted(width)
          THEN /\ ResizePrimaryToVirtual(width)
               /\ scrn' = width
               /\ device' = UpdateMonitors([device EXCEPT !.primary = width], crtcs)
               /\ IF vt THEN Painted(width)
                  ELSE host' = Black /\ UNCHANGED updated
          ELSE UNCHANGED <<scrn, primary, device_primary, root, device, host, updated>>
  /\ UNCHANGED <<deferred, stage, vt, vt_surfaces, crtcs, shown>>

(* qxl_crtc_set_mode_major                                                 *)
SetModeMajor ==
  /\ stage = "up" /\ vt
  /\ \E i \in Heads, width \in Modes, x \in 0..scrn - 1 :
       /\ x + width <= scrn
       /\ crtcs' = [crtcs EXCEPT ![i] = [width |-> width, x |-> x]]
       /\ device' = UpdateMonitors(device, crtcs')
  /\ UNCHANGED <<deferred, stage, vt, vt_surfaces, virtual, scrn, primary, device_primary,
                 root, host, shown, updated>>

(* X turns a crtc off without a call of the driver that sets its mode.     *)
TurnOff ==
  /\ stage = "up" /\ vt
  /\ \E i \in Heads \ {0} : crtcs[i] # Off /\ crtcs' = [crtcs EXCEPT ![i] = Off]
  /\ UNCHANGED <<deferred, stage, vt, vt_surfaces, virtual, scrn, primary, device_primary,
                 root, device, host, shown, updated>>

(* qxl_leave_vt.  With deferred frames nothing is evacuated, and the       *)
(* ticker has sent what there was.                                         *)
LeaveVt ==
  /\ stage = "up" /\ vt
  /\ updated = {}
  /\ vt' = FALSE
  /\ vt_surfaces' = ~deferred
  /\ device' = [primary |-> 0, heads |-> <<>>]
  /\ device_primary' = "none"
  /\ UNCHANGED <<deferred, stage, virtual, scrn, primary, root, crtcs, host, shown, updated>>

(* qxl_enter_vt; X gives up when the primary does not fit.                 *)
EnterVt ==
  /\ stage = "up" /\ ~vt
  /\ virtual <= Surface0
  /\ vt' = TRUE /\ vt_surfaces' = FALSE
  /\ primary' = NewPrimary(virtual) /\ device_primary' = "created"
  /\ root' = ScreenPixmap(primary')
  /\ device' = UpdateMonitors([primary |-> virtual, heads |-> <<>>], crtcs)
  /\ Painted(virtual)
  /\ UNCHANGED <<deferred, stage, virtual, scrn, crtcs, shown>>

-----------------------------------------------------------------------------
Frames == DfpsSolid \/ DfpsCopy \/ DfpsAccess \/ DfpsTicker

Next == ScreenInit \/ CreateScreenResources \/ CloseScreen \/ Resize \/ SetModeMajor
        \/ TurnOff \/ LeaveVt \/ EnterVt \/ Frames

Spec == Init /\ [][Next]_vars

-----------------------------------------------------------------------------
(* Properties.                                                             *)

(* Whenever X draws, the driver's size of the screen, the primary it has a *)
(* record of, the one the device has and the root pixmap's header, bits    *)
(* and surface are all the same, whatever resizes were refused while the   *)
(* VT was away; and while there are surfaces to put back, nothing is made  *)
(* on the device.                                                          *)
ScreenAgrees ==
  /\ stage = "up" /\ vt /\ virtual <= Surface0 =>
       /\ Current(virtual) /\ device.primary = virtual
       /\ root.width = virtual /\ root.bits = primary.id
       /\ deferred \/ root.surface = primary.id
  /\ vt_surfaces => device = [primary |-> 0, heads |-> <<>>]

(* A crtc that is on is a head of the device, with its mode and place, and *)
(* no two heads of the device are of one crtc: also after heads before it  *)
(* went off, and when the VT comes back.                                   *)
MonitorsKnown ==
  stage = "up" /\ vt =>
    /\ \A i \in On(crtcs) : [id |-> i, mode |-> crtcs[i]] \in Range(device.heads)
    /\ \A m, n \in DOMAIN device.heads : m < n => device.heads[m].id < device.heads[n].id

(* While the root pixmap is one that fits, what the device does not show as *)
(* it was drawn is in the region that the ticker will send, also when the  *)
(* region was simplified, a resize was refused or the screen got other     *)
(* bits.                                                                   *)
FramesTracked ==
  Drawable /\ root.width <= Surface0 => \A c \in 1..root.width : shown[c] # host[c] => c \in updated
=============================================================================
