SPECIFICATION FairSpec
CONSTANTS
    None = None
    Sent = Sent
    Setups <- MCSetups
INVARIANTS
    ShownIsCurrent
PROPERTIES
    LastCrawlNeverBack OutcomeShown
CHECK_DEADLOCK FALSE
