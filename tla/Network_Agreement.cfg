\* An EMPTY_SLOT message may arrive before the block of an earlier slot.
CONSTANTS
  Members = {1, 2, 3}
  NumSlots = 2
  RoundsPerEpoch = 1
  NoKey = 0
  Hash <- MCHash
  Lists <- OneList
  PromptBlocks = FALSE
  Punctual = TRUE
  MaxCrashes = 0
SPECIFICATION Spec
INVARIANT Agreement
CHECK_DEADLOCK FALSE
