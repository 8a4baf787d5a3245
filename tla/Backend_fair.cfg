SPECIFICATION FairSpec
CONSTANTS
    Users = {u1}
    DriverIds = {d1}
    RideIds = {i1}
    Requests = {r1, r2}
    NoId = NoId
    NoList = NoList
    Traffic = {"register", "create", "list", "accept", "complete", "history"}
    HasSlaves = TRUE
    Seed <- NoRows
    RedisMayFail = TRUE
    Faulty = TRUE
PROPERTY
    CompletedLeavesTheCache
