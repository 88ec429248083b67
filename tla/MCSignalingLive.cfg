SPECIFICATION FairSigSpec
CONSTANTS
    Host = {h1}
    HostConn = {k1, k2}
    Client = {c1}
    Sid = {s1}
    Pin = {p1}
    None = None
    Rotator = rotator
    c1 = c1
    Rotating = {}
    QueueCap = 2
    Burst <- LiveBurst
PROPERTIES
    SessionAnnouncedOrOver
    KilledLeavesRegistry
CHECK_DEADLOCK FALSE
