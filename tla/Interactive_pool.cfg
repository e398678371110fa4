\* A single Chrome, and a pool of two for three clients.
CONSTANTS
    c1 = c1
    c2 = c2
    c3 = c3
    m1 = m1
    m2 = m2
    Clients = {c1, c2, c3}
    Leavers = {c1}
    Managers = {m1, m2}
    Crashing = {m1}
    NoManager = NoManager
    Deployments <- OneOrTwo
SPECIFICATION FairSpec
INVARIANTS Inv OneOwner CleanBrowser
PROPERTIES ImplementsLeases PendingServed PoolRefills LeaversReturn
CHECK_DEADLOCK FALSE
