SPECIFICATION Spec
CONSTANTS
    u1 = u1
    u2 = u2
    u3 = u3
    s1 = s1
    s2 = s2
    x1 = x1
    h1 = h1
    h2 = h2
    h3 = h3
    None = None
    User <- ThreeUsers
    Setup <- TwoSetups
    Session <- OneSession
    Call <- ThreeCalls
    AbsoluteLife = 5
    IdleLife = 2
    TouchInterval = 1
    MaxClock = 6
PROPERTIES
    SilenceEndsSession
    RevocationIsFinal
SYMMETRY Interchangeable
CHECK_DEADLOCK FALSE
