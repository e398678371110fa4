\* A call without a deadline, the callback and its call with one, two reconnections, one Close.
CONSTANTS
    c1 = c1
    b1 = b1
    u1 = u1
    NoCall = NoCall
    Calls = {c1}
    CallbackCalls = {b1}
    Deadlined = {b1}
    Closers = {u1}
    OnReconnect = "SetupDefault"
    MaxConn = 3
    MaxId = 3
SPECIFICATION FairSpec
INVARIANTS OwnAnswer WaiterReachable NoLeak
PROPERTIES DeadlineReturns AcceptedReturns CloseReturnsCalls Recovers ImplementsCommands
CHECK_DEADLOCK FALSE
