CONSTANTS
    Conn = {c1}
    Bot = {b1}
    Name = {"a"}
    clampName <- Trim
    Taken = {}
    ALLOW_DUPLICATE_NAMES = TRUE
    HelloMs = 2
    IdleMs = 2
    RespawnMs = 1
    Stall = 1
    Lag = 1
    MaxHits = 2
    Off = Off
    Absent = Absent
SPECIFICATION FairSpec
PROPERTIES
    NoGhosts
