SPECIFICATION Spec
CONSTANTS
    Callers = {task, port}
    NumSockets = 2
    MaxRetries = 1
    Ids = {i1, i2, i3, i4}
    NoId = NoId
    Fds = {f1, f2}
    INVALID_SOCKET = INVALID_SOCKET
INVARIANTS
    OwnReply
