CONSTANTS
    b1 = b1
    Player = {p1, b1}
    Bot = {b1}
    BotOrder <- OneBot
    Loop = {l1, l2}
    None = None
    Absent = Absent
    Unknown = Unknown
    MaxHp = 3
    Damage = 2
    RespawnMs = 2
    Shot = {s1}
    DedupMs = 3
    MaxAwait = 1
    MaxLate = 0
    MaxUnnamed = 0
    MaxNow = 4
    ShotInterval = 1
SPECIFICATION BotsSpec
INVARIANTS
    ShotsSpaced
