SPECIFICATION FairSpec
CONSTANTS
  NumPods = 2
  Setups <- TwoPods
  MaxPages = 2
  MaxPauses = 1
  MaxFaults = 1
INVARIANTS
    NoFileLeftBehind
PROPERTIES
    StopEnds OverIsRemoved CancelEnds
CHECK_DEADLOCK FALSE
