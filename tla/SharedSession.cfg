SPECIFICATION FairSpec
CONSTANTS
    t1 = t1
    u1 = u1
    Tabs = {t1, t2}
    Users = {u1, u2}
    OrgMembers = {u1}
    None = None
    Setups <- MCSetups
INVARIANTS
    SessionKept QuietTabsAgree
PROPERTIES
    MixedOnlyByLateRefresh DueIsRefreshed
CHECK_DEADLOCK FALSE
