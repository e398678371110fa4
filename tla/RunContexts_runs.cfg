\* Two runs, one that may be cancelled and refused, one that uses tabs, and a caller of
\* unary methods; one reconnection.
CONSTANTS
    r1 = r1
    r2 = r2
    u1 = u1
    Shared = Shared
    None = None
    Runs = {r1, r2}
    Leavers = {r1}
    Tabbed = {r2}
    Users = {u1}
    Routes <- DomainRoutes
    Refusable = {r1}
    MaxOps = 1
    MaxTabs = 1
    MaxConn = 2
SPECIFICATION FairSpec
INVARIANTS Isolated Disposed
PROPERTY CancelledReturns
CHECK_DEADLOCK FALSE
