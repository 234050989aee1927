CONSTANTS
    Writers = {w1, w2}
    Removers = {d1}
    Readers = {g1}
    Files = {f1, f2, f3, f4, f5}
    NoFile = NoFile
SYMMETRY Symmetry
SPECIFICATION StyleSpec
INVARIANTS StyleTypeOK SettledFileIsWhole HalfOnlyInOverlap
