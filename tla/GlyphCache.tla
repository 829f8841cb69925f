----------------------------- MODULE GlyphCache -----------------------------
(***************************************************************************)
(* The glyph cache of the UXA layer (uxa/uxa-glyphs.c) and the requests    *)
(* that draw from it.  Glyphs live in one atlas per format, a square       *)
(* pixmap cut into cells of GLYPH_MIN_SIZE pixels; a glyph of class k      *)
(* takes an aligned square of 4^k cells, numbered in Morton order.  X is   *)
(* single-threaded: an action is one glyph of the loop over a request.     *)
(*                                                                         *)
(* Lengths are in cells.  Pixels are abstracted to one bit per glyph:      *)
(* whether its place in the atlas shows it.                                *)
(***************************************************************************)
EXTENDS Integers, SequencesExt, FiniteSetsExt

CONSTANTS
  Glyphs,     \* glyphs, as records [id, width, height, argb]
  Requests,   \* what clients ask for, as sequences of [glyph, x, y]
  Levels,     \* GLYPH_MAX_SIZE is 2^Levels cells
  Tiles,      \* CACHE_PICTURE_SIZE is this many times GLYPH_MAX_SIZE
  Evictions,  \* what rand() may return
  UsedCells,  \* cells given out before, to glyphs that are gone
  Freed,      \* bound: the glyphs that clients free and make again
  Scarce,     \* bound: the glyphs for whose private or GC there may be no memory
  Nobody      \* NULL in the table of glyphs

Classes == 0 .. Levels
Formats == BOOLEAN                          \* has the format colours?

(* The size of class k in cells, and how many cells that is.               *)
Side[k \in Classes] == IF k = 0 THEN 1 ELSE 2 * Side[k - 1]
Count(k) == Side[k] * Side[k]

MaxSize == Side[Levels]
CacheSize == Tiles * Tiles * Count(Levels)  \* GLYPH_CACHE_SIZE
Cells == 0 .. CacheSize - 1

GlyphCacheAssumption ==
  /\ Levels \in Nat /\ Tiles \in Nat \ {0}
  /\ Evictions # {} /\ Evictions \subseteq Cells /\ UsedCells \in 0 .. CacheSize
  /\ \A g \in Glyphs : g.width \in Nat /\ g.height \in Nat /\ g.argb \in BOOLEAN
  /\ Nobody \notin Glyphs /\ Freed \subseteq Glyphs
  /\ Requests \subseteq Seq([glyph : Glyphs, x : Int, y : Int])

VARIABLES
  count,       \* cache->count
  evict,       \* cache->evict
  glyphs,      \* cache->glyphs
  priv,        \* the private of each glyph: its position and class, or NoPriv
  stored,      \* the glyphs whose place in the atlas shows them
  unloaded,    \* the glyphs that were cached when no scratch GC was to be had
  request,     \* what is being drawn
  upcoming,    \* the glyph of it that is next
  mode,        \* how: "dst", "client mask", "own mask", "lost"; or "idle", "aborted"
  glyphAtlas,  \* the local glyph_atlas
  source,      \* what the driver is prepared to composite from, or None
  drawn        \* the glyphs drawn so far, Nobody where pixels were another's

cache == <<count, evict, glyphs, priv, stored, unloaded>>
glyphvars == <<cache, request, upcoming, mode, glyphAtlas, source, drawn>>

NoPriv == [pos |-> -1, class |-> -1]
None == <<>>
Atlas(f) == <<"atlas", f>>
Picture(g) == <<"picture", g.id>>

Empty(g) == g.width = 0 \/ g.height = 0

GlyphInit ==
  /\ count = [f \in Formats |-> UsedCells]
  /\ evict \in {[f \in Formats |-> e] : e \in Evictions}
  /\ glyphs = [f \in Formats |-> [c \in Cells |-> Nobody]]
  /\ priv = [g \in Glyphs |-> NoPriv]
  /\ stored = {} /\ unloaded = {}
  /\ request = <<>> /\ upcoming = 1 /\ mode = "idle" /\ drawn = <<>>
  /\ glyphAtlas = None /\ source = None

-----------------------------------------------------------------------------
(* Arithmetic on cells.                                                    *)

(* cell & size_to_mask(size), counts being powers of two                    *)
Align(cell, k) == cell - (cell % Count(k))

Square(pos, k) == pos .. pos + Count(k) - 1

(* Where a cell lies in the picture: quarter by quarter within its tile,   *)
(* each as far in as its size, and tiles row by row.                       *)
Within[k \in Classes] ==
  [pos \in Nat |->
     IF k = 0 THEN [x |-> 0, y |-> 0]
     ELSE LET quarter == pos \div Count(k - 1)
              at == Within[k - 1][pos % Count(k - 1)]
          IN [x |-> at.x + IF quarter \in {1, 3} THEN Side[k - 1] ELSE 0,
              y |-> at.y + IF quarter \in {2, 3} THEN Side[k - 1] ELSE 0]]

Place(pos) ==
  LET tile == pos \div Count(Levels)
      at == Within[Levels][pos % Count(Levels)]
  IN [x |-> (tile % Tiles) * MaxSize + at.x, y |-> (tile \div Tiles) * MaxSize + at.y]

(* Boxes of two glyphs, at points p and q, have a pixel in common.         *)
Meet(g, p, h, q) ==
  /\ p.x < q.x + h.width /\ q.x < p.x + g.width
  /\ p.y < q.y + h.height /\ q.y < p.y + g.height

Cacheable(g) == g.width <= MaxSize /\ g.height <= MaxSize

Class(g) == Min({k \in Classes : g.width <= Side[k] /\ g.height <= Side[k]})

-----------------------------------------------------------------------------
(* uxa_glyph_cache: the next free square while there is one,                *)
Following(f, k) == Align(count[f] + Count(k) - 1, k)

(* and else the one at the eviction position.  Going up in size, the first *)
(* glyph found to start there decides: it alone goes if it covers the      *)
(* square, and otherwise everything in the square does.                    *)
At(f, c) == glyphs[f][c]

Covering(f, k) ==
  LET starting == {j \in k .. Levels : At(f, Align(evict[f], j)) # Nobody}
      first == At(f, Align(evict[f], Min(starting)))
  IN IF starting # {} /\ priv[first].class >= Min(starting) THEN {first} ELSE {}

Expelled_Mutant(f, k) ==                     \* slip: only what starts where it will
  {At(f, Align(evict[f], k))} \ {Nobody}

Expelled(f, k) ==
  IF Covering(f, k) # {} THEN Covering(f, k)
  ELSE {At(f, c) : c \in Square(Align(evict[f], k), k)} \ {Nobody}

(* Taking glyphs out of the cache of format f, and putting g in at pos.    *)
Without(table, out) == [c \in Cells |-> IF table[c] \in out THEN Nobody ELSE table[c]]

(* uxa_glyph_cache_upload_glyph: what lies under the box is overwritten.   *)
Upload(g, pos, stay) ==
  {h \in stored \cap stay :
     h.argb = g.argb => ~ Meet(g, Place(pos), h, Place(priv[h].pos))} \cup {g}

(* Enters glyph g at pos, out having left; without a GC it is not drawn.   *)
Enter(g, pos, out, gc) ==
  LET stay == {h \in Glyphs \ out : priv[h] # NoPriv} \cup {g}
  IN /\ glyphs' = [glyphs EXCEPT ![g.argb] = [Without(@, out) EXCEPT ![pos] = g]]
     /\ priv' = [h \in Glyphs |-> IF h = g THEN [pos |-> pos, class |-> Class(g)]
                                  ELSE IF h \in out THEN NoPriv ELSE priv[h]]
     /\ stored' = IF gc THEN Upload(g, pos, stay \ {g}) ELSE stored \cap stay
     /\ unloaded' = IF gc THEN unloaded \ (out \cup {g}) ELSE (unloaded \ out) \cup {g}

(* uxa_glyph_cache for a glyph that fits.  Its private is that of an        *)
(* evicted glyph or a new one, for which there may be no memory.           *)
CacheGlyph(g, memory, gc) ==
  LET f == g.argb
      k == Class(g)
      free == Following(f, k) < CacheSize
      pos == IF free THEN Following(f, k) ELSE Align(evict[f], k)
      out == IF free THEN {} ELSE Expelled(f, k)
  IN /\ count' = IF free THEN [count EXCEPT ![f] = pos + Count(k)] ELSE count
     /\ IF free THEN UNCHANGED evict ELSE \E r \in Evictions : evict' = [evict EXCEPT ![f] = r]
     /\ IF memory THEN Enter(g, pos, out, gc)
        ELSE out = {} /\ UNCHANGED <<glyphs, priv, stored, unloaded>>

-----------------------------------------------------------------------------
(* uxa_glyphs_intersect: each box against the extents of those before.      *)
Extents_Mutant(r, I) ==                              \* slip: extents not grown
  LET i == Min(I) IN
  [x1 |-> r[i].x, x2 |-> r[i].x + r[i].glyph.width,
   y1 |-> r[i].y, y2 |-> r[i].y + r[i].glyph.height]

Extents(r, I) ==
  [x1 |-> Min({r[i].x : i \in I}), x2 |-> Max({r[i].x + r[i].glyph.width : i \in I}),
   y1 |-> Min({r[i].y : i \in I}), y2 |-> Max({r[i].y + r[i].glyph.height : i \in I})]

Visible(r) == {i \in DOMAIN r : ~ Empty(r[i].glyph)}

Intersect(r) ==
  \E i \in Visible(r) :
    LET before == {j \in Visible(r) : j < i}
        e == Extents(r, before)
    IN /\ before # {}
       /\ r[i].x < e.x2 /\ r[i].x + r[i].glyph.width > e.x1
       /\ r[i].y < e.y2 /\ r[i].y + r[i].glyph.height > e.y1

(* uxa_glyphs: the mask format it chooses when the client gave none.       *)
ChoosesMask(r) == (\A i \in DOMAIN r : r[i].glyph.argb) /\ ~ Intersect(r)

(* A request that the driver can draw: onto a mask if there is to be one.  *)
Start(r, masked) ==
  /\ mode = "idle"
  /\ request' = r /\ upcoming' = 1 /\ drawn' = <<>>
  /\ mode' = IF masked THEN "client mask" ELSE IF ChoosesMask(r) THEN "own mask" ELSE "dst"
  /\ UNCHANGED <<cache, glyphAtlas, source>>

(* The glyphs among the first n of a request that there is something of.   *)
NotEmpty(r) ==
  LET Among[n \in 0 .. Len(r)] ==
        IF n = 0 THEN <<>>
        ELSE IF Empty(r[n].glyph) THEN Among[n - 1] ELSE Append(Among[n - 1], r[n].glyph)
  IN Among

(* uxa_check_glyphs, when the driver cannot composite, the destination is  *)
(* in system memory, or the mask cannot be made.  It draws the glyphs'     *)
(* own pictures, or nothing if there is no memory for a mask.              *)
Fallback(r, lost) ==
  /\ mode = "idle"
  /\ request' = r /\ upcoming' = Len(r) + 1
  /\ mode' = IF lost THEN "lost" ELSE "dst"
  /\ drawn' = IF lost THEN <<>> ELSE NotEmpty(r)[Len(r)]
  /\ UNCHANGED <<cache, glyphAtlas, source>>

-----------------------------------------------------------------------------
(* The loops of uxa_glyphs_to_dst and uxa_glyphs_via_mask, a glyph a step.  *)
Drawing == mode \in {"dst", "client mask", "own mask"}

(* Caching a glyph draws on the atlas, so what is prepared is done with.    *)
AfterMiss_Mutant(atlas) == atlas                        \* slip: not done with

AfterMiss(atlas) == None

(* Composites glyph g from atlas, which is prepared unless the local        *)
(* glyph_atlas says it is.  The driver draws from what it is prepared for.  *)
Composite(g, atlas, local, prepared) ==
  LET from == IF local = atlas THEN prepared ELSE atlas
  IN /\ glyphAtlas' = atlas
     /\ source' = from
     /\ drawn' = Append(drawn,
          IF from = atlas /\ (atlas = Atlas(g.argb) => g \in stored' \cup unloaded')
            THEN g ELSE Nobody)
     /\ upcoming' = upcoming + 1
     /\ UNCHANGED <<request, mode>>

DrawCached(g) ==
  /\ priv[g] # NoPriv
  /\ UNCHANGED cache
  /\ Composite(g, Atlas(g.argb), glyphAtlas, source)

DrawNew(g, gc) ==
  /\ priv[g] = NoPriv /\ Cacheable(g)
  /\ gc \/ g \in Scarce
  /\ CacheGlyph(g, TRUE, gc)
  /\ Composite(g, Atlas(g.argb), AfterMiss(glyphAtlas), None)

(* A glyph that is too large, or for which there is no memory, comes from  *)
(* its own picture, which the code asserts to be on the device.            *)
DrawPicture(g, onDevice) ==
  /\ priv[g] = NoPriv
  /\ Cacheable(g) => g \in Scarce
  /\ IF Cacheable(g) THEN CacheGlyph(g, FALSE, FALSE) ELSE UNCHANGED cache
  /\ IF onDevice
       THEN Composite(g, Picture(g), AfterMiss(glyphAtlas), None)
       ELSE /\ mode' = "aborted"
            /\ UNCHANGED <<request, upcoming, glyphAtlas, source, drawn>>

DrawGlyph ==
  /\ Drawing /\ upcoming <= Len(request)
  /\ LET g == request[upcoming].glyph IN
     \/ Empty(g) /\ upcoming' = upcoming + 1
          /\ UNCHANGED <<cache, request, mode, glyphAtlas, source, drawn>>
     \/ ~ Empty(g) /\ DrawCached(g)
     \/ ~ Empty(g) /\ \E gc \in BOOLEAN : DrawNew(g, gc)
     \/ ~ Empty(g) /\ \E onDevice \in BOOLEAN : DrawPicture(g, onDevice)

(* The end of the loop, and of a mask its composition onto the destination. *)
Finish ==
  /\ mode \notin {"idle", "aborted"} /\ upcoming > Len(request)
  /\ mode' = "idle" /\ glyphAtlas' = None /\ source' = None
  /\ request' = <<>> /\ upcoming' = 1 /\ drawn' = <<>>
  /\ UNCHANGED cache

(* uxa_glyph_unrealize: a client frees the glyph; its record may be made   *)
(* again, for other pixels.                                                *)
Unrealize(g) ==
  /\ mode = "idle" /\ priv[g] # NoPriv
  /\ glyphs' = [glyphs EXCEPT ![g.argb][priv[g].pos] = Nobody]
  /\ priv' = [priv EXCEPT ![g] = NoPriv]
  /\ stored' = stored \ {g} /\ unloaded' = unloaded \ {g}
  /\ UNCHANGED <<count, evict, request, upcoming, mode, glyphAtlas, source, drawn>>

GlyphNext ==
  \/ \E r \in Requests, masked \in BOOLEAN : Start(r, masked)
  \/ \E r \in Requests, lost \in BOOLEAN : Fallback(r, lost)
  \/ DrawGlyph
  \/ Finish
  \/ \E g \in Freed : Unrealize(g)

GlyphSpec == GlyphInit /\ [][GlyphNext]_glyphvars

-----------------------------------------------------------------------------
(* Table and privates point at each other, and the squares of any two       *)
(* glyphs of an atlas are disjoint: an upload never lands on a glyph that   *)
(* is still taken for cached, and no pointer outlives its glyph.           *)
TablesAgree ==
  /\ \A f \in Formats, c \in Cells :
       glyphs[f][c] # Nobody => /\ glyphs[f][c].argb = f
                               /\ priv[glyphs[f][c]].pos = c
  /\ \A g \in Glyphs : priv[g] # NoPriv =>
       /\ glyphs[g.argb][priv[g].pos] = g
       /\ \A c \in Square(priv[g].pos, priv[g].class) :
            glyphs[g.argb][c] \in {g, Nobody}

(* What the comment on the field says: picture is "where the glyphs of the *)
(* cache are stored", except those there was no GC to upload.               *)
GlyphsAreStored == \A g \in Glyphs : priv[g] # NoPriv => g \in stored \cup unloaded

(* Whatever is cached, evicted and uploaded while a request is drawn, each  *)
(* of its glyphs is drawn once, in order, and from its own pixels - unless *)
(* there was no GC to upload it with.                                      *)
DrawnRight ==
  Drawing => drawn = NotEmpty(request)[upcoming - 1]

(* Glyphs added up on a mask the client did not ask for look as if drawn    *)
(* one by one only if no pixel belongs to two of them.                     *)
OwnMaskIsSafe ==
  mode = "own mask" =>
    \A i, j \in Visible(request) :
      i # j => ~ Meet(request[i].glyph, request[i], request[j].glyph, request[j])
=============================================================================
