SPECIFICATION NavSpec
CONSTANTS
    r1 = r1
    r2 = r2
    r3 = r3
    p1 = p1
    p2 = p2
    Requests = {r1, r2}
    NoRequest = NoRequest
    Games = {"tbc"}
    GamesAsked = {"tbc", "retail"}
    Maps = {"azeroth", "nowhere"}
    FileFormat <- Named
    NoFormat = NoFormat
    Cells = {1}
    Polys = {p1, p2}
    ZoneLists <- OverlappingZones
    MaxLegs = 3
    MaxPermits = 2
    InitialQueries = 1
    MaxQueries = 1
    NoMesh = NoMesh
    NoPool = NoPool
    NoEntry = NoEntry
INVARIANTS CachedPathsAreTrue
