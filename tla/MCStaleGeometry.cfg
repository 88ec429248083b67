SPECIFICATION VidSpec
CONSTANTS
    Display = {d1, d2}
    MaxPipes = 3
    MaxRecoveries = 1
    MaxTrouble = 2
CHECK_DEADLOCK FALSE
PROPERTIES
    GeometryIsFollowed
