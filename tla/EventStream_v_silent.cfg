\* A blocking stream whose peer leaves.
CONSTANTS
    A = A
    NoSession = NoSession
    s1 = s1
    Subs = {s1}
    Slow = {s1}
    Leavers = {s1}
    Profiles <- Blocked
    Asked = {NoSession}
    Sessions = {A}
    Answers = FALSE
    Closes = FALSE
    NMethods = 1
    Cap = 1
    MaxEvents = 3
SPECIFICATION Spec
INVARIANT UnregisteredIsSilent
CHECK_DEADLOCK FALSE
