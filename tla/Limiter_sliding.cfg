SPECIFICATION LimiterSpec
CONSTANTS
    Calls = {c1, c2, c3, c4}
    Limit = 2
    Window = 3
    MaxNow = 7
    MaxStall = 0
    Never = Never
    RedisMayFail = FALSE
    Faulty = FALSE
SYMMETRY Symmetry
INVARIANT
    SlidingWindow
CHECK_DEADLOCK FALSE
