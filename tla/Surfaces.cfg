SPECIFICATION SurfacesSpec
CONSTANTS
  None = none
  Null = null
  NSurfaces = 3
  NCached = 2
  Vram = 6
  MaxCopies = 2
  Width = 4
  Colours = {x, y}
  ManyBoxes = 2
  Tile = 2
  Together = 1
  NBuffers = 7
  Imaged = {1}
  MaxChunks = 3
  MaxPending = 2
INVARIANT RefCountExact
INVARIANT DeviceProtocol
INVARIANT MemoryExact
INVARIANT UploadIsHarmless
INVARIANT ShowsWhatWasDrawn
INVARIANT CountsAreExact
INVARIANT NothingLeaks
PROPERTY FollowsLifeCycle
PROPERTY DeviceDataIsStable
