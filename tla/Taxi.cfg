SPECIFICATION TaxiSpec
CONSTANTS
    Users = {0, 1, 2, 3, 8, 9}
    DriverIds = {d0, d1}
    RideIds = {i0, i1}
    SeedUser = 8
    SeedDriver = d0
    SeedRide = i0
    SeedPassenger = 9
    Seed <- TwoRows
    SelfMade = {8}
    Requests = {r1}
    NoId = NoId
    NoList = NoList
    Traffic = {"create"}
    HasSlaves = FALSE
    RedisMayFail = FALSE
    Faulty = FALSE
    Logins = {l1, l2}
    Emails = {e1, e2}
    Passwords = {p1}
    Seeded = {}
    ObjectId = ObjectId
    None = None
    Calls = {c1}
    Masks = {}
    UserTraffic = {"create", "login"}
    MaxNow = 3
    Second = 2
    Lifetime = 2
SYMMETRY Symmetry
INVARIANTS
    RowsHaveOwners
    FreshTokensWork
PROPERTY
    ActsForWhoLoggedIn
