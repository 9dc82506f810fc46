\* Two servers, three calls, two periods.
SPECIFICATION Spec
CONSTANTS
    Id <- MCId
    SubOf <- MCSubOf
    OneShot <- MCOneShot
    Due <- MCDue
    CronAt <- MCCronAt
    Period = 2
    MaxTime = 4
    MaxStart = 2
    MaxOp = 3
INVARIANTS
    OneLoop
    FiredRuns
PROPERTIES
    StopEnds
CHECK_DEADLOCK FALSE
