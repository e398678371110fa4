\* Two navigations of each kind, two requests, and a page that something else shows.
CONSTANTS
    Modes = {"commit", "load", "networkidle"}
    MaxNav = 2
    MaxOther = 1
    MaxReq = 2
    MaxInbox = 1
SPECIFICATION FairSpec
INVARIANTS Inv LoadIsOwn
PROPERTIES SignalsArrive
CHECK_DEADLOCK FALSE
