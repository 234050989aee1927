CONSTANTS
    Commands = {c1, c2}
    Service = Service
    KeyPairs = {k1, k2, k3, k4, k5, k6, k7}
    NoKey = NoKey
    Unreadable = Unreadable
SYMMETRY Symmetry
CHECK_DEADLOCK FALSE
SPECIFICATION Spec
INVARIANTS TypeOK SessionsLostOnlyInContest PreAuthEndsWithService PreAuthIsNoSession
