\* A Route that serves two connections itself: each has a route tree of its own.
SPECIFICATION Spec
CONSTANTS
    Requests = {r1, r2, r3}
    Conns = {c1, c2}
    MaxSession = 3
    PerConnection = TRUE
    None = None
SYMMETRY Symmetric
INVARIANTS
    SessionFound
CHECK_DEADLOCK FALSE
