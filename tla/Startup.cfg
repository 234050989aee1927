CONSTANTS
    Ports = {p1, p2}
    NoPort = NoPort
    ApiPaths <- MCApiPaths
    MaxDials = 10
    StartLimit = 5
    MaxCrashes = 2
SPECIFICATION Spec
INVARIANTS TypeOK ReadyMeansReachable
 
