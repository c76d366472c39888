SPECIFICATION MCSpec
CONSTANTS
  Token = {1, 2}
  MaxLen = 3
  MaxSnaps = 2
  DraftLen = 3
  MaxBatch = 2
  FlushRows = 2
  CacheLen = 3
  Heads = 2
  Initial = 1
  MaxCopies = 1
INVARIANTS RefusalLeavesState
