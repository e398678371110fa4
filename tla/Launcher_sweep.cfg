\* A pool of two and a process that records, each of which may be killed and swept by the other.
CONSTANTS
    o1 = o1
    o2 = o2
    Owners = {o1, o2}
    Pools = {o1}
    Keep = {o2}
    AsInit = {}
    Encoders = {o2}
    MaxLaunch <- LaunchesOf
SPECIFICATION Spec
INVARIANTS IInv SweepsFirst NothingLeft
PROPERTY SweepSpares
CHECK_DEADLOCK FALSE
