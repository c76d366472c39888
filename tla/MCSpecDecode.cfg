SPECIFICATION MCSpec
CONSTANTS
  Vocab = {1, 2, 3, 4}
  StopId = {4}
  StopEnd = {3}
  MaxTokens = 5
  K = 2
  Adaptive = TRUE
  Room = 5
  Nothing = 0
  Unit = 4
  Grid = 12
  Contexts <- ShortContexts
  Settings <- SmallSettings
  ProbeEvery = 3
  Times = {1, 40}
  Bound = 4
INVARIANTS WithinBudget StateFollowsOutput FollowsTarget DraftsTrue
PROPERTIES ImplementsPlain
