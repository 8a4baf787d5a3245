SPECIFICATION ThrottleSpec
CONSTANTS
    Users = {p}
    DriverIds = {d1}
    RideIds = {i1, i2, i3}
    Requests = {r1, r2}
    NoId = NoId
    NoList = NoList
    Traffic = {"create"}
    HasSlaves = TRUE
    Seed <- NoRows
    RedisMayFail = TRUE
    Faulty = TRUE
    Calls = {c1, c2, c3}
    Limit = 1
    Window = 2
    MaxNow = 2
    MaxStall = 1
    Never = Never
    Passenger = p
    NoCheck = NoCheck
SYMMETRY Symmetry
INVARIANTS
    LimiterTypeOK
    EveryCounterExpires
    AtMostLimitPerWindow
    HeldUpCallsAtMostDouble
    RejectedOnlyWhenFull
    RemainingIsHonest
    RidesPerWindow
    RidesInBudget
CHECK_DEADLOCK FALSE
