SPECIFICATION LoopSpec
CONSTANTS
  NoWatch = nowatch
  Masks = {{"READ"}, {"READ", "WRITE"}}
  Fds = {f1, f2}
  Watches = {w1, w2}
PROPERTY AlwaysServed
