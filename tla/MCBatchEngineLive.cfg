SPECIFICATION Spec
CONSTANTS
  Slot = {s1, s2}
  Recurrent = FALSE
  PrefillChunk = 1
  PrefillBudget = 0
  MaxPrompt = 2
  MaxExtra = 0
  MaxTokens = 2
PROPERTIES AllEnds
CHECK_DEADLOCK FALSE
