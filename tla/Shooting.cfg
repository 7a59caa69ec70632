SPECIFICATION Spec
CONSTANTS
    Player = {p1, p2}
    p1 = p1
    p2 = p2
    NoOwner = NoOwner
    None = None
    Width = 3
    Height = 1
    WinLength = 2
    Minimum = 2
    Rounds = 2
    WaveLimit = 0
    WaveCap = 2
    Ammo = 1
    WaveTicks = 3
    WavePause = 1
    RoundPause = 2
    ShotGap = 1
    Rewind = 1
    SnapshotCount = 2
    Items = {"grenade", "loader", "pan"}
    ItemsPerWave = {2}
    Fragments = 2
    MaxDepth = 3
    MaxShots = 3
INVARIANTS
    RoundIsItsLine
    AmmoIsAccounted
    RewindIsKept
    EffectsExpire
PROPERTIES
    ModeSpec
CHECK_DEADLOCK FALSE
