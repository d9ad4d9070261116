SPECIFICATION ScheduleSpec
CONSTANTS
    Zones <- MCZones
    Nows <- MCNows
    Frequencies = {"daily", "weekly", "monthly", "custom"}
    DaysOfWeek = {0, 6}
    DaysOfMonth = {1, 31}
    Hours = {3}
    Customs <- MCCustoms
    NoSchedule = NoSchedule
INVARIANTS
    ScheduleSound
PROPERTIES
    SaveKeeps
CHECK_DEADLOCK FALSE
