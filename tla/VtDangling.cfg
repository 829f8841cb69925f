SPECIFICATION VtSpec
CONSTANTS
  Pixmaps = {p1, p2, p3}
  NSurfaces = 3
  Pixels = {x, y}
  NULL = null
INVARIANTS NotRecreated
