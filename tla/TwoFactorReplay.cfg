\* One enrolment is enough to see one code accepted twice.
CONSTANTS
    Requests = {r1, r2}
    Passwords = {p1}
    NoPassword = NoPassword
    Secrets = {s1}
    NoSecret = NoSecret
    Batches = {b1}
    NumCodes = 1
    MaxStep = 1
SPECIFICATION Spec
INVARIANTS
    CodePassesOnce
