SPECIFICATION mcSpec
CONSTANTS
    Display = {d1, d2}
    MaxPipes = 3
    MaxRecoveries = 1
    MaxTrouble = 2
    RouterCap = 2
    MaxTyped = 3
    MaxCopies = 1
    MaxRefused = 1
    MinBitrate = 9
    MaxBitrate = 15
    MinFps = 5
    MaxFps = 12
    FpsLadder = {60, 30, 24, 20, 15, 12, 10, 8}
    PixelCost = 25
    SharpFpsCeiling = 10
    SmoothFpsFloor = 10
    LossCapFloor = 11
    LossCapHold = 2
    LossProbeHold = 2
    CongestionTicks = 2
    FastTicks = 2
    Rembs = {9, 12}
    Losses = {40}
    Nothing = Nothing
CHECK_DEADLOCK FALSE
INVARIANTS
    CurtainIsSeenThrough
PROPERTIES
    PictureFlows
    KeysStayInOrder
    HostLetsGo
    RateRecovers
