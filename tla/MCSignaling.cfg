SPECIFICATION SigSpec
CONSTANTS
    Host = {h1}
    HostConn = {k1, k2}
    Client = {c1, c2}
    Sid = {s1, s2}
    Pin = {p1}
    None = None
    Rotator = rotator
    c1 = c1
    Rotating = {}
    QueueCap = 2
    Burst <- SafetyBurst
SYMMETRY SafetySymmetry
INVARIANTS
    AnnouncedFirst
    OnlyToItsParties
CHECK_DEADLOCK FALSE
