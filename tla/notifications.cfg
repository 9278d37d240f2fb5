SPECIFICATION FairSpec
CONSTANTS
    Connections = {c1, c2}
    NumExposures = 2
    Updates = 1
    Window = 1
    Resends = TRUE
    MaxAcquisitions = 2
    MaxBreaks = 1
INVARIANTS
    CallbackAlive
    EndOwed
PROPERTIES
    ImplementsOrderedInbox
    EndArrives
CHECK_DEADLOCK FALSE
