SPECIFICATION Spec
CONSTANTS
    Pages = {p1, p2}
    Runs = {r1, r2}
    Notes = {x1, x2}
    Tabs = {"screenshots", "text", "replay"}
    Setups <- MCSetups
    Nothing = Nothing
INVARIANTS
    SelectedIsShown
PROPERTIES
    ContentLoads
CHECK_DEADLOCK FALSE
