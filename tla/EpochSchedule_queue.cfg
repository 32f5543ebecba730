\* Four members, two slots: a queue of two candidates.
CONSTANTS
  Members = {1, 2, 3, 4}
  NumSlots = 2
  RoundsPerEpoch = 2
  NoKey = 0
  Hash <- MCHash
  VotingSlots = 1
  Seeds = {1, 2}
  Lists <- Lists4
  MaxEpoch = 3
  MaxIdx = 6
SPECIFICATION Spec
INVARIANTS TypeOK MembersConserved DowngradeNeverBlocks RoundRobin NeverWaitsWithResult StateMatchesSchedule
PROPERTY EpochNeverCutShort
