\* A session with two datagrams per second beside another request.
SPECIFICATION Spec
CONSTANTS
    Rate = 2
    RecordDrop = TRUE
    Second = 2
    MaxTime = 4
    MaxCall = 5
    Requests = {1, 2}
    Focus = 1
    MaxChunk = 2
INVARIANTS
    WithinRate
    EchoWhole
PROPERTIES
    LostConnectionEnds
CHECK_DEADLOCK FALSE
