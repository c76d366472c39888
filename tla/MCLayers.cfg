SPECIFICATION LayersSpec
CONSTANTS
  Worker = {w1, w2, w3}
  Threads = 3
  Q = 3
  K = 2
  V = 2
  Inter = 3
  Out = 4
  MinChunk = 1
INVARIANTS FusedExact DotsExact CellsOnce LayoutsKept ForwardsAlike
CHECK_DEADLOCK FALSE
