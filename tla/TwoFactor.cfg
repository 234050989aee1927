\* Two requests at a time, two enrolments, one recovery code each.
CONSTANTS
    Requests = {r1, r2}
    Passwords = {p1}
    NoPassword = NoPassword
    Secrets = {s1, s2}
    NoSecret = NoSecret
    Batches = {b1, b2}
    NumCodes = 1
    MaxStep = 1
SYMMETRY Symmetry
SPECIFICATION Spec
INVARIANTS
    TypeOK
    EnabledHasSecret
    NoFactorReplay
    AcceptedStepsRecorded
    HandedCodesAreStored
    LoginStopsAtFactor
PROPERTIES
    EnrolmentEndsAsAsked
    ImplementsEnrolment
