\* A stream that may be stuck or leave next to one that is read, of either kind;
\* a command; the client may be closed.
CONSTANTS
    A = A
    NoSession = NoSession
    s1 = s1
    s2 = s2
    Subs = {s1, s2}
    Slow = {s1}
    Leavers = {s1}
    Profiles <- BothKinds
    Asked = {NoSession}
    Sessions = {A}
    Answers = TRUE
    Closes = TRUE
    NMethods = 1
    Cap = 1
    MaxEvents = 3
SPECIFICATION FairSpec
PROPERTIES LeaversReturn CommandsFlow
CHECK_DEADLOCK FALSE
