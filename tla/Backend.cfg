SPECIFICATION Spec
CONSTANTS
    Users = {u1, u2}
    DriverIds = {d1, d2}
    RideIds = {i1}
    Requests = {r1, r2}
    NoId = NoId
    NoList = NoList
    Traffic = {"register", "create", "list", "accept", "complete"}
    HasSlaves = TRUE
    Seed <- NoRows
    RedisMayFail = TRUE
    Faulty = TRUE
SYMMETRY Symmetry
INVARIANTS
    TypeOK
    RowsFit
    AcceptedRideIsTheirs
    OneSucceeds
    CompleterIsTheDriver
    ListsOnlyLagBehind
PROPERTY
    LifecycleSpec
