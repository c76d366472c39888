SPECIFICATION MCSpec
CONSTANTS
  c1 = c1
  c2 = c2
  Conn = {c1, c2}
  MaxConns = 1
  Cap = 1
  Workers = 1
  MaxSkips = 0
  MaxDeltas = 2
  MayPanic = TRUE
INVARIANTS ConnectionsCounted RequestsKeptApart RequestsRead RequestsUnderstood
PROPERTIES Answered AbandonedEnds
