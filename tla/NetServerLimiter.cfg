\* Token bucket of one permit, handlers that may run forever, every phase of the
\* shutdown.
SPECIFICATION Spec
CONSTANTS
    Conn = {c1, c2, c3}
    HasLimiter = TRUE
    Capacity = 1
    HasHandlerTimeout = FALSE
    HasGraceful = TRUE
    MaxRefill = 2
    MaxAcceptErr = 0
    MaxSignal = 1
INVARIANTS
    PermitConservation
    BucketBounded
    CancelOnlyAfterGrace
    QuiescentWhenDone
PROPERTIES
    ShutdownCompletes
    ParkedSignalStops
    WaiterResolves
CHECK_DEADLOCK FALSE
