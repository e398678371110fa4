\* One recording with a stop condition, whose request lasts.
CONSTANTS
    r1 = r1
    r2 = r2
    A = A
    B = B
    None = None
    Recordings = {r1}
    Leavers = {}
    Polled = {r1}
    Scripted = {}
    Sessions = {A}
    Targets <- Alone
    InFlight = 1
    Cap = 1
    MaxFrames = 2
SPECIFICATION FairSpec
PROPERTIES StopsByBound
CHECK_DEADLOCK FALSE
