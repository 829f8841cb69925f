SPECIFICATION AudioSpec
CONSTANTS
  Pipes = {p1, p2}
  MaxFifos = 2
  Size = 2
  FeedAhead = 2
  Cells = 9
  PipeRoom = 1
  Together = TRUE
INVARIANT EveryFifoIsOpened
CHECK_DEADLOCK FALSE
