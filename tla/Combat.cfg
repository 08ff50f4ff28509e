CONSTANTS
    Player = {p1, p2}
    Bot = {}
    Absent = Absent
    MaxHp = 3
    Damage = 2
    RespawnMs = 2
    Shot = {s1, s2}
    Unknown = Unknown
    DedupMs = 2
    MaxAwait = 1
    MaxLate = 1
    MaxUnnamed = 1
    MaxNow = 3
SYMMETRY Symmetry
SPECIFICATION Spec
INVARIANTS
    TypeOK
    CacheIsReplay
    DeathEventIsCurrent
    KillSpacing
    OneHitPerShot
PROPERTIES
    CreditUnlessGone
    DeadStayDown
    ImplementsArena
