SPECIFICATION Spec
CONSTANTS
  Block = 8
  MinChunk = 3
  absent = absent
  query = query
  down = down
  head = head
  Absent = absent
  Single = 1
  Directory <- Directories
  Wanted <- Layers
  Config <- TernaryConfig
INVARIANTS ServedFromContainer
CHECK_DEADLOCK FALSE
