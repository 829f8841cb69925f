------------------------------ MODULE MCMemory ------------------------------
(***************************************************************************)
(* Memory that more than one holds on to, five modules side by side: a     *)
(* behaviour is one of VtSwitch (pixmaps and their surfaces), SurfaceCache *)
(* (surfaces kept for reuse), GlyphCache (glyphs and their place in the    *)
(* atlas), Screen (the primary surface) or ReleaseRing (commands that X    *)
(* and the worker hand back and forth), and leaves the variables of the    *)
(* others alone, whose values are Null, or, where properties read them,    *)
(* those of no pixmaps, no glyphs, a screen that is down, an empty ring.   *)
(***************************************************************************)
EXTENDS Screen, ReleaseRing, VtSwitch, SurfaceCache, GlyphCache

VARIABLE part     \* the module that is running

(* Glyphs of every class, one of the other format, one too large, an empty *)
(* one.                                                                    *)
Glyph(id, w, h, argb) == [id |-> id, width |-> w, height |-> h, argb |-> argb]
a == Glyph("a", 1, 1, FALSE)
b == Glyph("b", 1, 2, FALSE)
m == Glyph("m", 4, 3, FALSE)
i == Glyph("i", 1, 1, TRUE)
W == Glyph("W", 5, 1, FALSE)
o == Glyph("o", 0, 0, FALSE)

MCGlyphs == {a, b, m, i, W, o}

Row(list, x) == [n \in DOMAIN list |-> [glyph |-> list[n], x |-> x[n], y |-> 0]]
MCRequests ==
  {Row(s, <<0, 1, 2>>) : s \in {<<a, i, b>>, <<m, o, a>>, <<b, W, m>>}}
    \cup {Row(<<i, i, i>>, x) : x \in {<<0, 2, 2>>, <<0, 1, 3>>}}
MCFreed == {a, b, m}
MCScarce == {b}

ASSUME MemoryAssumption ==
  /\ VtAssumption /\ CacheAssumption /\ GlyphCacheAssumption
  /\ ScreenAssumption /\ ReleaseAssumption

primaryvars == <<deferred, stage, vt_surfaces, virtual, scrn, primary, device_primary, root,
                 crtcs, device, host, shown, updated>>
memoryvars == <<part, vt, vtvars, cachevars, glyphvars, primaryvars, releasevars>>

NoVt ==
  /\ terminal = "undefined" /\ pixmaps = {} /\ want = Null /\ surface = Null
  /\ pixmap = Null /\ image = Null /\ free = Null /\ live = Null /\ dead = Null
  /\ evacuated = Null /\ records = {} /\ ev = Null /\ head = Null

NoCache == cached_surfaces = NoneCached /\ suiting = {} /\ gone = Null

NoAtlas ==
  /\ glyphs = [f \in Formats |-> [c \in Cells |-> Nobody]]
  /\ priv = [g \in Glyphs |-> NoPriv] /\ mode = "idle"
  /\ count = Null /\ evict = Null /\ stored = Null /\ unloaded = Null /\ request = Null
  /\ upcoming = Null /\ glyphAtlas = Null /\ source = Null /\ drawn = Null

NoPrimary ==
  /\ deferred = FALSE /\ stage = "down" /\ vt_surfaces = FALSE /\ virtual = Null
  /\ scrn = Null /\ primary = Null /\ device_primary = Null /\ root = Null
  /\ crtcs = Null /\ device = Null /\ host = Null /\ shown = Null /\ updated = Null

MemoryInit ==
  \/ part = "vt" /\ VtInit /\ vt = Null /\ NoCache /\ NoAtlas /\ NoPrimary /\ ReleaseInit
  \/ part = "cache" /\ CacheInit /\ NoVt /\ vt = Null /\ NoAtlas /\ NoPrimary /\ ReleaseInit
  \/ part = "atlas" /\ GlyphInit /\ NoVt /\ vt = Null /\ NoCache /\ NoPrimary /\ ReleaseInit
  \/ part = "primary" /\ Init /\ NoVt /\ NoCache /\ NoAtlas /\ ReleaseInit
  \/ part = "release" /\ ReleaseInit /\ NoVt /\ vt = Null /\ NoCache /\ NoAtlas /\ NoPrimary

MemoryNext ==
  \/ /\ part = "vt" /\ VtNext
     /\ UNCHANGED <<part, vt, cachevars, glyphvars, primaryvars, releasevars>>
  \/ /\ part = "cache" /\ CacheNext
     /\ UNCHANGED <<part, vt, vtvars, glyphvars, primaryvars, releasevars>>
  \/ /\ part = "atlas" /\ GlyphNext
     /\ UNCHANGED <<part, vt, vtvars, cachevars, primaryvars, releasevars>>
  \/ /\ part = "primary" /\ Next
     /\ UNCHANGED <<part, vtvars, cachevars, glyphvars, releasevars>>
  \/ /\ part = "release" /\ ReleaseNext
     /\ UNCHANGED <<part, vt, vtvars, cachevars, glyphvars, primaryvars>>

MemorySpec == MemoryInit /\ [][MemoryNext]_memoryvars

-----------------------------------------------------------------------------
(* The properties are the modules' own: BindingExact and PixelsKept;       *)
(* AssertionsHold and KeepsAgeOrder; TablesAgree, DrawnRight and           *)
(* OwnMaskIsSafe; ScreenAgrees, MonitorsKnown and FramesTracked;           *)
(* ReleasedOnce and BuildingIntact.                                        *)
=============================================================================
