\* The callback's own command, without any deadline.
CONSTANTS
    c1 = c1
    b1 = b1
    NoCall = NoCall
    Calls = {c1}
    CallbackCalls = {b1}
    Deadlined = {}
    Closers = {}
    OnReconnect = "SetupDefault"
    MaxConn = 2
    MaxId = 2
SPECIFICATION FairSpec
PROPERTY CallbackAnswered
CHECK_DEADLOCK FALSE
