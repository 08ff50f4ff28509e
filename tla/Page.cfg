CONSTANTS
    OAuthState = {s1, s2}
    Ttl = 3
    SweepMs = 2
    JwtLife = 3
    MaxSign = 1
    Absent = Absent
    Interval = 4
    Delay = 5
    MaxMoves = 2
    MaxHp = 2
    damage = 1
    MaxHits = 4
    MaxLogins = 2
    MaxSnapshots = 1
    Shot = {b1, b2}
    BallMs = 2
    snowballCooldown = 1
    BubbleMs = 2
    LineMs = 3
    MaxLog = 2
    MaxLines = 4
    Key = {"KeyW", "Space"}
    OAuth = TRUE
    Page = {p, q}
    Thing = {t, u}
    MaxRestarts = 1
    Half = 2
    minDistance = 3
    centerExclusionRadius = 2
    Steep <- OneSteep
    Instances = 4
    MaxAttempts = 2
    Letter = {32, 97, 224, 233, 20013}
    MaxLetters = 3
    MAX_NAME = 7
SPECIFICATION Spec
INVARIANTS
    PageTypeOK
    OneExchange
    CookieHonoured
    NoTwoDrops
    DeathShown
    FliesRegistered
    ChatTimely
    InputLetGo
    OneLandscape
    PlacedApart
    NameShown
PROPERTIES
    PoseArrives
    HpSettles
CHECK_DEADLOCK FALSE
