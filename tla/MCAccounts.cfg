SPECIFICATION AccSpec
CONSTANTS
    Owner = {o1, o2}
    Token = {t1, t2, t3}
    Email = {e1, e2}
    Password = {w1, w2}
    Device = {d1}
    WakeRow = {r1}
    Key = {q1, q2, q3}
    Conn = {c1, c2}
    None = None
    Argon2Parallel = 1
    MaxKeys = 1
    MaxMessages = 5
SYMMETRY AccSymmetry
CHECK_DEADLOCK FALSE
INVARIANTS
    LossIsTold
PROPERTIES
    
    PurposeIsKept
