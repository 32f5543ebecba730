\* Two peers whose links break and mend.
CONSTANTS
  Me = "me"
  Order <- MidOrder
  Threshold = 2
  Starts = {"STARTING", "WAITING_FOR_BOOTSTRAP"}
  MaxAnnounced = 2
  MaxCuts = 1
SPECIFICATION FairSpec
INVARIANTS TypeOK SilenceIsNoticed
PROPERTIES NewPeerConnects SilentPeerReturns
CHECK_DEADLOCK FALSE
