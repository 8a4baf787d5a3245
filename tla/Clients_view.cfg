SPECIFICATION ClientSpec
CONSTANTS
    Users = {u1, u2}
    DriverIds = {d1, d2}
    RideIds = {i1}
    Requests = {r1, r2}
    NoId = NoId
    NoList = NoList
    Traffic = {"register", "create", "list", "accept", "complete", "history"}
    HasSlaves = FALSE
    Seed <- NoRows
    RedisMayFail = FALSE
    Faulty = FALSE
SYMMETRY Symmetry
INVARIANTS
    HistoryKeepsUp
PROPERTIES
    OnlyLateEntriesMislead
    GrantedIsNotForbidden
