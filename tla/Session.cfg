\* Three requests over two connections that share one route tree.
SPECIFICATION Spec
CONSTANTS
    Requests = {r1, r2, r3}
    Conns = {c1, c2}
    MaxSession = 3
    PerConnection = FALSE
    None = None
SYMMETRY Symmetric
INVARIANTS
    SessionFound
    CookiesFollowSession
CHECK_DEADLOCK FALSE
