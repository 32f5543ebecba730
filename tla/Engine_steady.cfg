\* Every slot passes in a network that keeps up.
CONSTANTS
  Members = {1, 2, 3}
  NumSlots = 2
  RoundsPerEpoch = 1
  NoKey = 0
  Hash <- MCHash
  VotingSlots = 1
  Seeds <- TwoChains
  Lists <- TwoLists
  MaxEpoch = 2
  MaxIdx = 3
  Me = 1
  Blocks <- TwoChains
  InvalidBlocks <- AlsoInvalid
  ClocksAgree = FALSE
  PromptBlocks = TRUE
  PromptResults = TRUE
  PeersAnswer = FALSE
SPECIFICATION FairSpec
INVARIANTS TypeOK CountersExact SlotHeldByCommit CommittedNotFailed
PROPERTIES HeadOnlyGrows EverySlotPasses
CHECK_DEADLOCK FALSE
