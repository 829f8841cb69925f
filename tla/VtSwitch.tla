------------------------------ MODULE VtSwitch ------------------------------
(***************************************************************************)
(* Offscreen pixmaps across a switch of the virtual terminal (UMS mode).   *)
(* Leaving, qxl_surface_cache_evacuate_all downloads every live surface    *)
(* into a record on the list vt_surfaces; coming back,                     *)
(* qxl_surface_cache_replace_all makes a new surface from each record.     *)
(* While X is away clients go on destroying pixmaps, and                   *)
(* qxl_surface_kill then takes the pixmap's record off the list.           *)
(*                                                                         *)
(* A record is named by the surface it was made from.  A surface that was  *)
(* killed is "dead" until it is recycled; the steps between are in         *)
(* SurfaceLifecycle.  Surfaces are made as long as there is a free one:    *)
(* memory and the cache play no part here.                                 *)
(***************************************************************************)
EXTENDS Integers, SequencesExt

CONSTANTS
  Pixmaps,
  NSurfaces,    \* offscreen surfaces: ids 1 .. NSurfaces
  Pixels,       \* contents a pixmap can have
  NULL

VtAssumption == NSurfaces \in Nat \ {0} /\ NULL \notin Pixmaps
                       /\ NULL \notin 1 .. NSurfaces

Surfaces == 1 .. NSurfaces

VARIABLES
  terminal,   \* where X is: "here", "away", or "undefined" behaviour began
  pixmaps,    \* the pixmaps that exist
  want,       \* what clients have drawn in each
  surface,    \* get_surface (pixmap)
  pixmap,     \* surface->pixmap
  image,      \* the contents of each surface on the device
  free, live, \* free_surfaces, live_surfaces
  dead,       \* killed, not yet recycled
  evacuated,  \* surfaces whose field evacuated is not null
  records,    \* evacuated_surface_t allocated
  ev,         \* their fields
  head        \* vt_surfaces

clientvars == <<pixmaps, want>>
boundvars  == <<surface, pixmap, image>>
listvars   == <<free, live, dead>>
evacvars   == <<evacuated, records, ev, head>>
vtvars     == <<terminal, clientvars, boundvars, listvars, evacvars>>

Descending == [i \in 1 .. NSurfaces |-> NSurfaces + 1 - i]

Blank == [image |-> NULL, pixmap |-> NULL, prev |-> NULL, next |-> NULL]

VtInit ==
  /\ terminal = "here" /\ pixmaps = {}
  /\ want    = [p \in Pixmaps |-> NULL]
  /\ surface = [p \in Pixmaps |-> NULL]
  /\ pixmap  = [s \in Surfaces |-> NULL]
  /\ image   = [s \in Surfaces |-> NULL]
  /\ free = Descending /\ live = <<>> /\ dead = {}
  /\ evacuated = {} /\ records = {} /\ head = NULL
  /\ ev = [s \in Surfaces |-> Blank]

-----------------------------------------------------------------------------
(* qxl_create_pixmap: in system memory while X is away or for want of a    *)
(* surface.                                                                *)
CreatePixmap(p, c) ==
  /\ terminal \in {"here", "away"} /\ p \notin pixmaps
  /\ pixmaps' = pixmaps \union {p}
  /\ want' = [want EXCEPT ![p] = c]
  /\ IF terminal = "here" /\ free # <<>>
       THEN LET s == Head(free) IN
            /\ surface' = [surface EXCEPT ![p] = s]
            /\ pixmap' = [pixmap EXCEPT ![s] = p]
            /\ image' = [image EXCEPT ![s] = c]
            /\ free' = Tail(free) /\ live' = <<s>> \o live
       ELSE UNCHANGED <<boundvars, free, live>>
  /\ UNCHANGED <<terminal, dead, evacvars>>

(* Drawing on the device; nothing is drawn in a surface while X is away    *)
(* (qxl_surface_prepare_access).                                           *)
Draw(p, c) ==
  /\ terminal = "here" /\ p \in pixmaps /\ surface[p] # NULL
  /\ want' = [want EXCEPT ![p] = c]
  /\ image' = [image EXCEPT ![surface[p]] = c]
  /\ UNCHANGED <<terminal, pixmaps, surface, pixmap, listvars, evacvars>>

Forget(p) == /\ p \in pixmaps
             /\ pixmaps' = pixmaps \ {p}
             /\ surface' = [surface EXCEPT ![p] = NULL]
             /\ want' = [want EXCEPT ![p] = NULL]

(* qxl_destroy_pixmap, without a surface.                                  *)
DestroyPlain(p) ==
  /\ terminal \in {"here", "away"} /\ surface[p] = NULL
  /\ Forget(p)
  /\ UNCHANGED <<terminal, pixmap, image, listvars, evacvars>>

(* qxl_surface_kill of a live surface.                                     *)
DestroyLive(p) ==
  LET s == surface[p] IN
  /\ terminal = "here" /\ s # NULL
  /\ Forget(p)
  /\ \E i \in DOMAIN live : live[i] = s /\ live' = RemoveAt(live, i)
  /\ dead' = dead \union {s}
  /\ pixmap' = [pixmap EXCEPT ![s] = NULL]
  /\ UNCHANGED <<terminal, image, free, evacvars>>

(* qxl_surface_kill of an evacuated one: its record is freed and taken out *)
(* of the list, but vt_surfaces is not in this function's reach.           *)
DestroyEvacuated(p) ==
  LET s == surface[p] IN
  /\ terminal = "away" /\ s \in evacuated
  /\ Forget(p)
  /\ records' = records \ {s}
  /\ evacuated' = evacuated \ {s}
  /\ ev' = [r \in Surfaces |->
              [ev[r] EXCEPT !.prev = IF r = ev[s].next THEN ev[s].prev ELSE @,
                            !.next = IF r = ev[s].prev THEN ev[s].next ELSE @]]
  /\ UNCHANGED <<terminal, pixmap, image, listvars, head>>

(* qxl_surface_recycle                                                     *)
Recycle(s) ==
  /\ terminal = "here" /\ s \in dead
  /\ dead' = dead \ {s}
  /\ free' = <<s>> \o free
  /\ UNCHANGED <<terminal, clientvars, boundvars, live, evacvars>>

-----------------------------------------------------------------------------
(* qxl_leave_vt.  Each live surface's record is put before the others      *)
(* (qxl_surface_cache_evacuate_all).                                       *)
Neighbour(i) == IF i \in DOMAIN live THEN live[i] ELSE NULL

RecordOf_Mutant(s) ==            \* the pixels are not downloaded first
  LET i == CHOOSE j \in DOMAIN live : live[j] = s
  IN [image |-> NULL, pixmap |-> pixmap[s],
      prev |-> Neighbour(i + 1), next |-> Neighbour(i - 1)]

RecordOf(s) ==
  LET i == CHOOSE j \in DOMAIN live : live[j] = s
  IN [image |-> image[s], pixmap |-> pixmap[s],
      prev |-> Neighbour(i + 1), next |-> Neighbour(i - 1)]

EvacuateAll ==
  /\ terminal = "here"
  /\ terminal' = "away"
  /\ records' = Range(live) /\ evacuated' = Range(live)
  /\ ev' = [s \in Surfaces |-> IF s \in Range(live) THEN RecordOf(s) ELSE Blank]
  /\ head' = IF live = <<>> THEN NULL ELSE Last(live)
  /\ pixmap' = [s \in Surfaces |-> IF s \in Range(live) THEN NULL ELSE pixmap[s]]
  /\ image' = [s \in Surfaces |-> NULL]
  /\ free' = <<>> /\ live' = <<>> /\ dead' = {}
  /\ UNCHANGED <<clientvars, surface>>

(* The records qxl_surface_cache_replace_all comes upon, in its order, as  *)
(* far as they are records.                                                *)
Walk ==
  LET From[n \in 0 .. NSurfaces] ==
        IF n = 0 THEN <<head>>
        ELSE LET w == From[n - 1] IN
             IF Last(w) \in records THEN Append(w, ev[Last(w)].next) ELSE w
  IN From[NSurfaces]

(* surface_cache_init, then a surface for each record.  A new surface goes *)
(* to the front of live_surfaces.                                          *)
Restored_Mutant(n) == [i \in 1 .. n |-> Walk[1]]     \* never takes the next

Restored(n) == SubSeq(Walk, 1, n)

ReplaceEvacuated ==
  LET n == Len(Walk) - 1
      old == Restored(n)
      new == SubSeq(Descending, 1, n)
      New(s) == CHOOSE i \in 1 .. n : new[i] = s
  IN
  /\ terminal = "away" /\ head # NULL /\ Last(Walk) = NULL
  /\ terminal' = "here"
  /\ live' = Reverse(new)
  /\ free' = SubSeq(Descending, n + 1, NSurfaces)
  /\ image' = [s \in Surfaces |->
                 IF s \in Range(new) THEN ev[old[New(s)]].image ELSE NULL]
  /\ pixmap' = [s \in Surfaces |->
                  IF s \in Range(new) THEN ev[old[New(s)]].pixmap ELSE NULL]
  /\ surface' = [p \in Pixmaps |->
                   IF \E i \in 1 .. n : ev[old[i]].pixmap = p
                     THEN new[CHOOSE i \in 1 .. n : ev[old[i]].pixmap = p]
                     ELSE surface[p]]
  /\ evacuated' = {} /\ records' = {} /\ head' = NULL
  /\ ev' = [s \in Surfaces |-> Blank]
  /\ UNCHANGED <<clientvars, dead>>

(* It reads a record that has been freed.                                  *)
ReplaceFreed ==
  /\ terminal = "away" /\ head # NULL /\ Last(Walk) # NULL
  /\ terminal' = "undefined"
  /\ UNCHANGED <<clientvars, boundvars, listvars, evacvars>>

(* Nothing to replace, and surface_cache_init is not called.               *)
ReplaceNone ==
  /\ terminal = "away" /\ head = NULL
  /\ terminal' = "here"
  /\ UNCHANGED <<clientvars, boundvars, listvars, evacvars>>

VtNext ==
  \/ \E p \in Pixmaps, c \in Pixels : CreatePixmap(p, c) \/ Draw(p, c)
  \/ \E p \in Pixmaps : DestroyPlain(p) \/ DestroyLive(p) \/ DestroyEvacuated(p)
  \/ \E s \in Surfaces : Recycle(s)
  \/ EvacuateAll \/ ReplaceEvacuated \/ ReplaceFreed \/ ReplaceNone

VtSpec == VtInit /\ [][VtNext]_vtvars

-----------------------------------------------------------------------------
(* The list of records stays doubly linked whatever is killed, in so far   *)
(* as its links go.                                                        *)
LinksMatch ==
  \A s \in records :
    /\ ev[s].next # NULL => ev[s].next \in records /\ ev[ev[s].next].prev = s
    /\ ev[s].prev # NULL => ev[s].prev \in records /\ ev[ev[s].prev].next = s

(* A pixmap and its surface name each other, before, during (through the   *)
(* record) and after a switch: what qxl_surface_set_pixmap asserts and the *)
(* sanity check looks for.  And the list of records stays linked.          *)
BindingExact ==
  /\ terminal = "here" =>
       /\ {surface[p] : p \in pixmaps} \ {NULL} = Range(live)
       /\ \A s \in Range(live) : pixmap[s] \in pixmaps /\ surface[pixmap[s]] = s
  /\ terminal = "away" =>
       /\ {surface[p] : p \in pixmaps} \ {NULL} = records
       /\ \A s \in records : ev[s].pixmap \in pixmaps /\ surface[ev[s].pixmap] = s
  /\ LinksMatch

(* What clients drew is still there after any number of switches.          *)
PixelsKept ==
  \A p \in pixmaps : surface[p] # NULL =>
    /\ terminal = "here" => image[surface[p]] = want[p]
    /\ terminal = "away" => ev[surface[p]].image = want[p]

(* "server side surface is already destroyed (via reset), don't resend a   *)
(* destroy. Just mark surface as not to be recreated": of a pixmap         *)
(* destroyed while X is away, replace_all must find no record.             *)
NotRecreated == terminal = "away" => Range(Walk) \subseteq records \union {NULL}

(* "A 'free' surface is one that is not allocated on the device. These are *)
(* stored on the 'free_surfaces' list."                                    *)
FreeListed == terminal = "here" => Surfaces \ (Range(live) \union dead) = Range(free)
=============================================================================
