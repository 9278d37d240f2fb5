SPECIFICATION FairSpec
CONSTANTS
    Callers = {task}
    LockHolders = {}
    Ids = {i1, i2, i3}
    NoId = NoId
    Connections = {k1, k2}
    NoConnection = NoConnection
    MaxInbox = 2
    Updates = TRUE
INVARIANTS
    OwnReply
    AnsweredWhenConnected
    FirstConnectWaits
    SignalOwed
PROPERTIES
    CallReturns
