\* A node that is started again, all its peers in reach.
CONSTANTS
  Me = "me"
  Order <- MidOrder
  Threshold = 2
  Starts = {"WAITING_FOR_BOOTSTRAP"}
  MaxAnnounced = 2
  MaxCuts = 0
SPECIFICATION FairSpec
PROPERTY RestartedNodeAsks
CHECK_DEADLOCK FALSE
