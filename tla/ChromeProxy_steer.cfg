\* A batch and a pair of single steps, a close, a page that reads or not and reconnects.
CONSTANTS
    r1 = r1
    r2 = r2
    k1 = k1
    p1 = p1
    Requests = {r1, r2}
    Batches = {r1}
    Closes = {k1}
    Pages = {p1}
    NoRequest = NoRequest
    NSteps = 2
    MaxCalls = 2
    Cap = 1
    MaxSubs = 2
SPECIFICATION FairSpec
INVARIANTS Inv OwnAnswers CaughtUp
PROPERTIES RequestsReturn PagesCatchUp
CHECK_DEADLOCK FALSE
