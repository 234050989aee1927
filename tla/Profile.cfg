\* One request across every change of two accounts.
CONSTANTS
    Requests = {r1}
    Ids = {1, 2}
    Names = {n1, n2}
    Texts = {t1}
    Passwords = {p1, p2}
    Empty = Empty
    NoRow = NoRow
SYMMETRY Symmetry
SPECIFICATION Spec
INVARIANTS TypeOK
PROPERTIES ProfileKeepsCredentials DeletedStaysGone
