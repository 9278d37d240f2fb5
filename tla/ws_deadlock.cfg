SPECIFICATION Spec
CONSTANTS
    Callers = {task, port}
    LockHolders = {port}
    Ids = {i1, i2, i3, i4}
    NoId = NoId
    Connections = {k1, k2}
    NoConnection = NoConnection
    MaxInbox = 2
    Updates = TRUE
INVARIANTS NoDeadlock
