SPECIFICATION Spec
CONSTANTS
  Screen = Screen
  Client = Client
  SolidClear = SolidClear
  wp = wp
  A = A
  M = M
  t1 = t1
  t2 = t2
  bits = bits
  m1 = m1
  m2 = m2
  NoRegion = NoRegion
  NoPixmap = NoPixmap
  NoDrawable = NoDrawable
  NoPicture = NoPicture
  Pixmaps <- MCPixmaps
  Width <- MCWidth
  Surfaced <- MCSurfaced
  Scratch <- MCScratch
  Drawables <- MCDrawables
  Sources <- MCSources
  Gcs <- MCGcs
  Pictures <- MCPictures
  Masks <- MCMasks
  Areas <- MCAreas
  Offsets <- MCOffsets
  AtOrigin <- MCAtOrigin
  Translated = FALSE
  Everywhere = TRUE
INVARIANT Delivered
