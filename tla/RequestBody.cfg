\* Bodies of up to three chunks around a limit of three, three calls.
SPECIFICATION Spec
CONSTANTS
    Limit = 3
    ChunkLens = {0, 1, 2}
    MaxChunks = 3
    MaxCalls = 3
    MaxFiles = 2
INVARIANTS
    WholeBody
    KeptParse
PROPERTIES
    UploadsReleased
\* A request ends.
CHECK_DEADLOCK FALSE
