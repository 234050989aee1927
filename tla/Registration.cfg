CONSTANTS
    Requests = {r1, r2}
    Commands = {c1}
    Keys = {k1, k2}
    Names = {n1, n2}
    NoKey = NoKey
    NoName = NoName
    Outcomes = {TRUE, FALSE}
    MaxAccounts = 3
SYMMETRY Symmetry
SPECIFICATION Spec
INVARIANTS TypeOK LocalIsLocal SpentKeyStaysGone KeySharedOnlyInOverlap
