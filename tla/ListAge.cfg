SPECIFICATION AgedSpec
CONSTANTS
    Users = {u1}
    DriverIds = {d1}
    RideIds = {i1}
    Requests = {r1, r2}
    NoId = NoId
    NoList = NoList
    Traffic = {"register", "create", "list", "accept", "complete"}
    HasSlaves = FALSE
    Seed <- NoRows
    RedisMayFail = TRUE
    Faulty = TRUE
    TTL = 2
    MaxStall = 1
    MaxAge = 4
SYMMETRY Symmetry
PROPERTY
    UnchangedIsShown
