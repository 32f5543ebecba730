CONSTANTS
  Nodes = {n1, n2, n3, n4}
  NumSlots = 2
  SlotsPerEpoch = 2
  VotingSlots = 1
  Tally <- MCTally
  StartEpoch = 0
  Mesh <- FullMesh
  Started = {n1, n2, n3, n4}
  UsesTimer = FALSE
  MaxEpoch = 1
  MaxCuts = 0
SPECIFICATION FairSpec
PROPERTY NextEpochBegins
CHECK_DEADLOCK FALSE
