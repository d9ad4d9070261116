SPECIFICATION UploadsSpec
CONSTANTS
    Undefined = Undefined
    u1 = u1
    u2 = u2
    u3 = u3
    UploadIds = {u1, u2, u3}
INVARIANTS
    ShownIsTrue
PROPERTIES
    UploadsEnd
CHECK_DEADLOCK FALSE
