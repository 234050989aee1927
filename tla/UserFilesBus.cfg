CONSTANTS
    Requests = {r1, r2}
    Confs = {system, other}
    System = system
    Images = {avatar}
    Avatar = avatar
    Outside = Outside
    OutsideText <- MCOutsideText
    Chunks <- MCChunks
    Contents <- MCContents
    Hole = Hole
    Files = {f1, f2, f3, f4, f5, f6}
    NoFile = NoFile
    Unknown = Unknown
SYMMETRY Symmetry
SPECIFICATION Spec
INVARIANTS BusIsNoHardDependency
