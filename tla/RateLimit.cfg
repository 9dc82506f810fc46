\* A bucket of two tokens; a token takes five ticks, a second two.
SPECIFICATION LimiterSpec
CONSTANTS
    Req = {r1, r2, r3, r4, r5}
    Capacity = 2
    Unit = 5
    Second = 2
    MaxTime = 9
SYMMETRY ReqSymmetry
INVARIANTS
    WindowBound
    RetryAfterHonest
CHECK_DEADLOCK FALSE
