CONSTANTS
    o1 = o1
    o2 = o2
    Id = {o1, o2}
    Absent = Absent
    All = All
    Mover = {o1, o2}
    MaxPose = 1
    Own <- TwoConnections
    maxConnectAttempts = 1
    MaxSending = 2
    MaxArriving = 2
SPECIFICATION Spec
INVARIANTS
    NeverItsOwnRival
CHECK_DEADLOCK FALSE
