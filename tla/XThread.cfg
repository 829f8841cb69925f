SPECIFICATION ThreadSpec
CONSTANTS
  Screen = Screen
  Client = Client
  SolidClear = SolidClear
  wp = wp
  A = A
  M = M
  t1 = t1
  t2 = t2
  bits = bits
  m1 = m1
  m2 = m2
  NoRegion = NoRegion
  NoPixmap = NoPixmap
  NoDrawable = NoDrawable
  NoPicture = NoPicture
  Pixmaps <- MCPixmaps
  Width <- MCWidth
  Surfaced <- MCSurfaced
  Scratch <- MCScratch
  Drawables <- MCDrawables
  Sources <- MCSources
  Gcs <- MCGcs
  Pictures <- MCPictures
  Masks <- MCMasks
  Areas <- MCAreas
  Offsets <- MCOffsets
  AtOrigin <- MCAtOrigin
  Translated = FALSE
  Everywhere = FALSE
  Pipes = {p1, p2}
  MaxFifos = 2
  Size = 2
  FeedAhead = 1
  Cells = 4
  PipeRoom = 1
  Together = FALSE
  Nil = null
  Prompt = TRUE
  Commands = {c1, c2}
  NumItems = 2
  Modulus = 4
  Bunch = 2
  Memory = 2
  Sizes = {1, 2}
  MaxAttempts = 5
INVARIANTS Delivered Mapped DeviceWaits
INVARIANTS FruitlessRounds CountsAgree PlaysInOrder NoneForgotten
PROPERTIES AllocReturns Heard
