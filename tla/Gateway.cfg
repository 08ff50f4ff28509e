CONSTANTS
    Conn = {c1}
    Bot = {b1}
    Name = {"a", " a"}
    clampName <- Trim
    Taken = {"a"}
    ALLOW_DUPLICATE_NAMES = FALSE
    HelloMs = 2
    IdleMs = 4
    RespawnMs = 2
    Stall = 2
    Lag = 2
    MaxHits = 2
    Off = Off
    Absent = Absent
SPECIFICATION FairSpec
INVARIANTS
    GatewayTypeOK
    OnlineListed
    NoForgottenSocket
PROPERTIES
    GreetedKeepSocket
    GhostsGo
    NoSilentSocket
