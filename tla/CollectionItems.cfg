SPECIFICATION Spec
CONSTANTS
    c1 = c1
    c2 = c2
    c3 = c3
    u1 = u1
    Pages <- TwoPages
    Uploads = {u1}
    Deps = {c1, u1}
    Limits <- MCLimits
    Pag = Pag
    None = None
INVARIANTS
    SavedIsShown SelectionKept ConfirmedRemoval
CHECK_DEADLOCK FALSE
