SPECIFICATION Spec
CONSTANTS
  c1 = c1
  c2 = c2
  m1 = m1
  m2 = m2
  none = none
  Client <- Clients
  Request <- Requests
  Block = 2
  MinTokens = 1
  Budget = 4
  Charge = {2, 3}
  Seed <- SameSeed
  Chain <- LastToken
  MaxTick = 4
  MaxLookups = 3
  MaxDue = 2
  NoEntry = none
  NoId = none
  NoRequest = none
SYMMETRY Symmetry
INVARIANTS Indexed FoundIsUsable
PROPERTIES ImplementsLru
CHECK_DEADLOCK FALSE
