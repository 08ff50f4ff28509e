CONSTANTS
    Name = {x, y}
    Keep = 2
    Idle = Idle
    MaxNow = 4
    MaxKills = 3
    MaxCrash = 2
    File = {f1, f2}
    Proc = {server, hand}
    Server = server
    Absent = Absent
    MAX_RETRIES = 2
    MaxClock = 4
    MaxEdits = 2
    windowMs = 2
    maxMsgs = 2
    MaxDecoding = 3
SYMMETRY Symmetry
SPECIFICATION Spec
INVARIANTS
    BackendTypeOK
    WindowsComplete
    DriftBounded
    FreshUnlessRaced
    ServedBound
PROPERTIES
    FairRefusal
