SPECIFICATION AgentSpec
CONSTANTS
    Sid = {s1}
    Knows = {}
    None = None
    MaxAttempts = 1
    QueueCap = 1
    WireCap = 1
    MaxWindows = 1
    PeerEvents = {"Over"}
    Passwords = {"missing"}
INVARIANT
    NeverBusyForNothing
CHECK_DEADLOCK FALSE
