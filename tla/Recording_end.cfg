\* Two recordings, of one session or of one each; both have a start script,
\* the first a stop condition, and it may be cancelled; a channel of one frame.
CONSTANTS
    r1 = r1
    r2 = r2
    A = A
    B = B
    None = None
    Recordings = {r1, r2}
    Leavers = {r1}
    Polled = {r1}
    Scripted = {r1, r2}
    Sessions = {A, B}
    Targets <- SharedOrOwn
    InFlight = 1
    Cap = 1
    MaxFrames = 2
SPECIFICATION FairSpec
INVARIANTS Inv SafeEnd CastStopped
PROPERTIES CancelledReturns
CHECK_DEADLOCK FALSE
