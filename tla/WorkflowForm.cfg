SPECIFICATION Spec
CONSTANTS
    Urls = {u1, u2}
    Patterns = {r1}
    Files = {f1, f2}
    Colls = {c1, c2}
    Proxies = {x1, x2}
    Profiles = {p1, p2}
    Selectors = {l1}
    Excluded = {e1}
    Scopes = {"page", "page-list", "page-spa", "prefix", "custom", "regex"}
    Depths = {0, 1}
    Topics <- MCTopics
    MaxEdits = 3
    MaxIncludes = 2
    MaxLapses = 1
    Absent = Absent
INVARIANTS
    SeedsFitScope
PROPERTIES
    FormKept SaveKeeps
CHECK_DEADLOCK FALSE
