\* A node that falls behind two peers and asks them twice, one block announced twice.
CONSTANTS
  Peers = {p1, p2}
  NumSlots = 2
  Capacity = 2
  MaxNum = 3
  MaxRequests = 2
  MaxRepeats = 1
SPECIFICATION FairSpec
INVARIANTS TypeOK CacheHasLatest OneRequestAgrees
PROPERTIES ImplementsFollowing CatchUpAdvances
CHECK_DEADLOCK FALSE
