CONSTANTS
  Nodes = {n1, n2, n3}
  NumSlots = 2
  SlotsPerEpoch = 2
  VotingSlots = 1
  Tally <- MCTally
  StartEpoch = 1
  Mesh <- LateMesh
  Started <- NotLate
  UsesTimer = TRUE
  MaxEpoch = 2
  MaxCuts = 1
SYMMETRY LateSymmetry
SPECIFICATION Spec
INVARIANTS TypeOK ElectedByQuorum DisagreementNeedsRecount
CHECK_DEADLOCK FALSE
