SPECIFICATION MemorySpec
CONSTANTS
  Null = null
  NULL = null
  Pixmaps = {p1, p2, p3}
  NSurfaces = 3
  Pixels = {x, y}
  CacheSurfaces = {s1, s2, s3, s4, s5}
  NCached = 4
  Glyphs <- MCGlyphs
  Requests <- MCRequests
  Freed <- MCFreed
  Scarce <- MCScarce
  Nobody = null
  Levels = 2
  Tiles = 2
  Evictions = {6, 63}
  UsedCells = 43
  MaxWidth = 4
  Surface0 = 3
  NumHeads = 3
  Modes = {2}
  MaxUpdates = 1
  Nil = null
  Commands = {c1, c2, c3}
  NumItems = 2
  Modulus = 4
  Bunch = 2
  Memory = 3
  Sizes = {1}
  Prompt = FALSE
  MaxAttempts = 1
INVARIANT GlyphsAreStored
CHECK_DEADLOCK FALSE
