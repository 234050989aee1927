\* Two requests at a time in one enrolment with two recovery codes, two TOTP
\* steps and two passwords.
CONSTANTS
    Requests = {r1, r2}
    Passwords = {p1, p2}
    NoPassword = NoPassword
    Secrets = {s1}
    NoSecret = NoSecret
    Batches = {b1}
    NumCodes = 2
    MaxStep = 2
SYMMETRY Symmetry
SPECIFICATION Spec
INVARIANTS
    NoFactorReplay
    HandedCodesAreStored
PROPERTIES
    SignInKeepsPassword
