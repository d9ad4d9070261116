SPECIFICATION Spec
CONSTANTS
  NumPods = 1
  Setups <- OnePod
  MaxPages = 2
  MaxPauses = 1
  MaxFaults = 1
INVARIANTS
    TypeOK StatusFollowsDocument GoneOnlyWhenOver FinishedOnce FailedHasNoFiles NoFileLeftBehind
PROPERTIES
    FinalStateIsFinal ImplementsLifecycle
CHECK_DEADLOCK FALSE
