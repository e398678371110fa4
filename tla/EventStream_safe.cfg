\* Two streams of domains with several events, blocking or dropping; one may be stuck and leave.
CONSTANTS
    A = A
    B = B
    NoSession = NoSession
    s1 = s1
    s2 = s2
    Subs = {s1, s2}
    Slow = {s1}
    Leavers = {s1}
    Profiles <- BothKinds
    Asked = {NoSession, A}
    Sessions = {A, B}
    Answers = FALSE
    Closes = FALSE
    NMethods = 2
    Cap = 1
    MaxEvents = 2
SPECIFICATION Spec
INVARIANTS Inv InOrder OnlyOwnHandlers Complete
CHECK_DEADLOCK FALSE
