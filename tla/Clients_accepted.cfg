SPECIFICATION ClientSpec
CONSTANTS
    Users = {u1}
    DriverIds = {d1}
    RideIds = {i1}
    Requests = {r1, r2}
    NoId = NoId
    NoList = NoList
    Traffic = {"register", "create", "list", "accept"}
    HasSlaves = FALSE
    Seed <- NoRows
    RedisMayFail = FALSE
    Faulty = FALSE
INVARIANT
    AcceptedRideIsNotPending
