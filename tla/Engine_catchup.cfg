\* A node that falls behind and catches up.
CONSTANTS
  Members = {1, 2, 3}
  NumSlots = 2
  RoundsPerEpoch = 1
  NoKey = 0
  Hash <- MCHash
  VotingSlots = 1
  Seeds <- OneChain
  Lists <- OneList
  MaxEpoch = 1
  MaxIdx = 3
  Me = 1
  Blocks <- OneChain
  InvalidBlocks <- NoneInvalid
  ClocksAgree = TRUE
  PromptBlocks = TRUE
  PromptResults = TRUE
  PeersAnswer = TRUE
SPECIFICATION Spec
INVARIANT CountersExact
CHECK_DEADLOCK FALSE
