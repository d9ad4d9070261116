SPECIFICATION Spec
CONSTANTS
    MaxSubmits = 2
    MaxEdits = 2
    MaxCrawls = 1
    MaxLapses = 1
    FinalStates = {"complete"}
INVARIANTS
    OneOfEach SavedAsAsked
PROPERTIES
    EditsKept StatusKnown
CHECK_DEADLOCK FALSE
