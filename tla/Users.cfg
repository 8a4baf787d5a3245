SPECIFICATION UserClientSpec
CONSTANTS
    Logins = {s, l1, l2}
    Emails = {t, e1, e2}
    Passwords = {p1, p2}
    SeedLogin = s
    SeedEmail = t
    Seeded <- OneSeed
    ObjectId = ObjectId
    None = None
    Calls = {c1, c2}
    Masks <- TwoMasks
    UserTraffic = {"create", "find", "search", "login"}
    MaxNow = 1
    RedisMayFail = TRUE
    Faulty = TRUE
SYMMETRY UserSymmetry
INVARIANTS
    UsersTypeOK
    LoginOpensOwnAccount
    ProfilesAreTrue
    ConfirmedIsFound
    ConfirmedAreListed
PROPERTY
    ConfirmedOnce
