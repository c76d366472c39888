SPECIFICATION MCSpec
CONSTANTS
  Char = {"<", "/", "n", "x"}
  Newline = "n"
  Open <- Tag
  Close <- EndTag
  Stops <- StopStrings
  MaxText = 6
  MaxPiece = 2
  Ctx = 2
  DrainAt = 2
INVARIANTS OutputExact SamplesTrue DecodedWhole
CHECK_DEADLOCK FALSE
