SPECIFICATION WakeupsSpec
CONSTANTS
  Rings = {command}
  Elements = {a, b}
  NoElement = none
  NumItems = 2
  Modulus = 4
  BothRings = {command, cursor}
  OneElement = {a}
  NoWatch = nowatch
  Masks = {{"READ"}, {"READ", "WRITE"}}
  Fds = {f1, f2}
  Watches = {w1, w2}
INVARIANTS TypeOK NeverLapped ItemIsStable NoLostWakeup
INVARIANTS CallsAreWanted LoopIsSafe
PROPERTIES RingsAreChannels BothDeliver PushesReturn
PROPERTIES Served
