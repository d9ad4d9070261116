SPECIFICATION Spec
CONSTANTS
    MaxBrowsers = 2
    MaxRetries = 2
    MaxRenders = 1
    Faults = {"create", "ping", "navigate", "save"}
    Nobody = Nobody
INVARIANTS
    BrowsersAgree
PROPERTIES
    AllEnd
CHECK_DEADLOCK FALSE
