SPECIFICATION Spec
CONSTANTS
  Slot = {s1, s2}
  Recurrent = TRUE
  PrefillChunk = 2
  PrefillBudget = 1
  MaxPrompt = 3
  MaxExtra = 1
  MaxTokens = 2
INVARIANTS RequestOnce SlotStates SessionsExact StepBounds
CHECK_DEADLOCK FALSE
