\* One epoch in a network that keeps up, with nodes that stop.
CONSTANTS
  Members = {1, 2, 3}
  NumSlots = 2
  RoundsPerEpoch = 3
  NoKey = 0
  Hash <- MCHash
  Lists <- OneList
  PromptBlocks = TRUE
  Punctual = TRUE
  MaxCrashes = 2
SPECIFICATION Spec
INVARIANTS TypeOK Agreement NoFork
PROPERTIES ImplementsSharedChain KeepsItsPlace EpochServed
CHECK_DEADLOCK FALSE
