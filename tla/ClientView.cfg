CONSTANTS
    o1 = o1
    o2 = o2
    Id = {o1, o2}
    Absent = Absent
    All = All
    Mover = {o2}
    MaxPose = 2
    Own <- TwoConnections
    maxConnectAttempts = 1
    MaxSending = 1
    MaxArriving = 2
SPECIFICATION FairSpec
INVARIANTS
    ViewTypeOK
    NoRivalAtFirst
PROPERTIES
    Converges
CHECK_DEADLOCK FALSE
