\* Two removals, with any number of catch-ups in between.
CONSTANTS
  Limit = 3
  Keep = 1
  MaxEpoch = 5
SPECIFICATION Spec
INVARIANTS TypeOK RemovalStopsAtGaps DataBounded
PROPERTY RecentKept
CHECK_DEADLOCK FALSE
