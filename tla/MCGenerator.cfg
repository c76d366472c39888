SPECIFICATION Spec
CONSTANTS
  none = none
  Token = {1, 2}
  Prompt <- Prompts
  MaxSeq = 5
  PrefillChunk = 2
  MaxDraft = 2
  PrefixCaching = TRUE
  MaxCache = 1
  NoEntry = none
INVARIANTS StateInStep CacheTrue SampledFromAll
PROPERTIES ReusesCheckpoint
