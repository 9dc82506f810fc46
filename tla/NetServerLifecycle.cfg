\* No limiter, handler timeout, graceful and forced shutdown.
SPECIFICATION Spec
CONSTANTS
    Conn = {c1, c2, c3}
    HasLimiter = FALSE
    Capacity = 0
    HasHandlerTimeout = TRUE
    HasGraceful = TRUE
    MaxRefill = 0
    MaxAcceptErr = 1
    MaxSignal = 2
INVARIANTS
    MetricsAgree
PROPERTIES
    ImplementsLifecycle
CHECK_DEADLOCK FALSE
