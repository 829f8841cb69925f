SPECIFICATION AccessSpec
CONSTANTS
  Width = 4
  Colours = {x, y}
  ManyBoxes = 2
  Tile = 2
  Together = 2
INVARIANTS UploadIsHarmless
