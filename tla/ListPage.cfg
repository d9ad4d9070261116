SPECIFICATION Spec
CONSTANTS
    Items = {1, 2, 3}
    MineItems = {1, 2}
    TagItems = {2, 3}
    StatusItems = {1, 3}
    NamedItems = {3}
    PageSize = 1
    Setups <- MCSetups
INVARIANTS
    ListAsAsked PagesAgree
PROPERTIES
    ListCatchesUp
CHECK_DEADLOCK FALSE
