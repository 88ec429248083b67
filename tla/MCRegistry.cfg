SPECIFICATION mcSpec
CONSTANTS
    Host = {h1, h2}
    HostConn = {k1, k2, k3}
    Client = {c1, c2}
    Sid = {s1, s2}
    Pin = {p1, p2, p3}
    None = None
    Rotator = rotator
    Rotating = {h1, h2}
    QueueCap = 2
    Burst <- PinsBurst
SYMMETRY Symmetry
CONSTRAINT OneDevice
INVARIANTS
    SessionBacked
    OneSessionPerClient
    PinIndexExact
    PinIsTold
PROPERTIES
    NoGhostBusy
    RefinesOccupancy
    UsesRegistry
CHECK_DEADLOCK FALSE
