SPECIFICATION mcSpec
CONSTANTS
    CodeTTL = 2
    CodeMinInterval = 1
    CodeWindow = 4
    CodeMaxPerWindow = 2
    CodeMaxAttempts = 2
    MaxClock = 8
    g1 = g1
    g2 = g2
    i1 = i1
    Ip = {i1}
    Everyone = Everyone
    Guesser = {g1, g2}
    IpOf <- mcIpOf
    Burst <- mcBurst
    Refill <- mcRefill
    GcThreshold = 0
    LimiterSpan = 3
    m1 = m1
    m2 = m2
    r1 = r1
    Machine = {m1, m2}
    Router = {r1}
    SameNet <- mcSameNet
    Asker = {a1}
    Poller = {p1, p2}
    RouterOnline = 2
    RouterQueueTTL = 4
    WakeCooldown = 1
    NotYet = NotYet
    WakeSpan = 5
    Session = {s1, s2}
    u1 = u1
    u2 = u2
    Upload = {u1, u2}
    NoUpload = NoUpload
    Slot = {0, 1}
    Size <- mcSize
    MaxFiles = 2
    Stalls = FALSE
    Computer = {d1, d2}
    NoComputer = NoComputer
    MaxAttempts = 2
    MaxSid = 3
    MaxUp = 3
    MaxDown = 3
SYMMETRY ServicesSymmetry
CHECK_DEADLOCK FALSE
INVARIANTS
    GuessesBounded
    GuessRateBounded
    SavedStays
    NothingIsLeft
    NeverStalls
PROPERTIES
    PromiseIsKept
    RecoversSameDevice
