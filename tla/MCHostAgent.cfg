SPECIFICATION mcSpec
CONSTANTS
    Sid = {s1, s2}
    Knows = {s2}
    None = None
    MaxAttempts = 1
    QueueCap = 1
    WireCap = 1
    MaxWindows = 2
    PeerEvents = {"Ice", "Connected", "Disconnected", "Over"}
    Passwords = {"missing", "present", "unusable"}
INVARIANTS
    SlotWhole
    WaitsAreTimed
    BusyIsExplained
    StatusIsTrue
PROPERTIES
    NoSessionWithoutPassword
    ServerKeepsOccupancy
    OwnerGetsIn
    GraceEnds
    OnlyItsOwnEventsEndIt
CHECK_DEADLOCK FALSE
